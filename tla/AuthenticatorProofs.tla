------------------------- MODULE AuthenticatorProofs -------------------------
(***************************************************************************)
(* Theorems about Authenticator, for any number of overlapping operations, *)
(* any relying parties, users, stored credentials and requests.            *)
(***************************************************************************)
EXTENDS Authenticator, FiniteSetTheorems, TLAPS

\* A request that a matching finger has granted, for an allowed RP, before
\* its context ended.
Sealed(o) ==
  /\ op[o].stage \in {"granted", "saving", "signing", "done"}
  /\ verdict[o] = "ok"
  /\ ~op[o].early
  /\ prompt[o] \in {"clearing", "done"}
  /\ op[o].req.rp \in AllowedRPs

\* A granted sign-in with a list for GetNextAssertion.
IsState(o) ==
  /\ Sealed(o)
  /\ op[o].stage \in {"signing", "done"}
  /\ Kind(o, "get")
  /\ Len(op[o].creds) > 1

\* What each stage says of an operation, its prompt and its key.
Staged(o) ==
  /\ op[o].stage \in {"unused", "called", "matching", "asking"} => prompt[o] = "none"
  /\ At(o, "called") => /\ op[o].req \in Requests
                        /\ op[o].req.kind \in {"make", "get", "next"}
  /\ At(o, "matching") => Kind(o, "get") /\ IsRPIDAllowed(op[o].req.rp)
  /\ op[o].stage \in {"asking", "waiting"} =>
       /\ op[o].req.kind \in {"make", "get"}
       /\ IsRPIDAllowed(op[o].req.rp)
       /\ keys[o] = None
  /\ At(o, "waiting") => prompt[o] \in {"running", "offering"}
  /\ At(o, "granted") => op[o].req.kind \in {"make", "get"} /\ keys[o] = None
  /\ At(o, "saving") => Kind(o, "make")
  /\ op[o].stage \in {"granted", "saving"} => Sealed(o)
  /\ At(o, "signing") => Sealed(o) \/ Kind(o, "next")
  /\ At(o, "signing") => op[o].req.kind \in {"make", "get", "next"}
  /\ Kind(o, "make") /\ op[o].stage \in {"saving", "signing"} => keys[o] = op[o].req.rp
  /\ op[o].stage \in {"found", "loaded", "advancing", "checking", "dropping",
                      "picking", "panicked"} => Kind(o, "next")
  /\ op[o].early => op[o].ended
  /\ op[o].status = "Success" => At(o, "done")

\* What a sign-in has matched, once it asks for the finger.
Matched(o) ==
  Kind(o, "get") /\ op[o].stage \in {"asking", "waiting", "granted", "signing"} =>
    IF op[o].req.list # {} THEN op[o].cred \in Ids ELSE Len(op[o].creds) > 0

\* GetNextAssertion works on a granted sign-in, and signs with a credential.
Reads(o) ==
  /\ Kind(o, "next")
  /\ op[o].stage \in {"loaded", "advancing", "checking", "dropping", "picking", "signing"}

Reading(o) ==
  Reads(o) => /\ op[o].from \in Ops
              /\ IsState(op[o].from)
              /\ At(o, "signing") => op[o].cred \in Ids

\* What is signed stems from a granted request.
SignedGranted(o) ==
  Signed(o) =>
    /\ op[o].from \in Ops
    /\ Sealed(op[o].from)
    /\ op[op[o].from].req.kind = IF Kind(o, "make") THEN "make" ELSE "get"
    /\ op[o].cred \in Ids
    /\ keys[op[o].cred] = op[op[o].from].req.rp

\* Keys are made by granted registrations only.
KeyGranted(o) == keys[o] # None => Sealed(o) /\ Kind(o, "make")

OpInv(o) ==
  Staged(o) /\ Matched(o) /\ Reading(o) /\ SignedGranted(o) /\ KeyGranted(o)

StateGranted == assertionState # None => IsState(assertionState)

StorageGranted ==
  /\ IsFiniteSet(storage)
  /\ \A c, d \in storage : c.rp = d.rp /\ c.user = d.user => c = d
  /\ \A c \in storage :
       /\ c.rp \in AllowedRPs
       /\ keys[c.id] = c.rp
       /\ c \in OldCreds \/ c.id \in Ops

IInv ==
  /\ TypeOK
  /\ OnePrompt
  /\ \A o \in Ops : OpInv(o)
  /\ StateGranted
  /\ StorageGranted

-----------------------------------------------------------------------------
(* What the updates of an operation's record do.                           *)

\* Only o's operation moves.
Moved(o) ==
  /\ op' \in [Ops -> Op]
  /\ \A p \in Ops : p # o => op'[p] = op[p]

\* The parts of o that say what it was asked and when its context ended.
SameRequest(o) ==
  /\ op'[o].req = op[o].req
  /\ op'[o].ended = op[o].ended
  /\ op'[o].early = op[o].early

\* The parts of o that say what it works on.
SameWork(o) ==
  /\ op'[o].creds = op[o].creds
  /\ op'[o].from = op[o].from
  /\ op'[o].index = op[o].index
  /\ op'[o].alone = op[o].alone

LEMMA Update ==
  ASSUME TypeOK, NEW o \in Ops, NEW r \in Op, op' = [op EXCEPT ![o] = r]
  PROVE  Moved(o) /\ op'[o] = r
BY DEF TypeOK, Moved

LEMMA GotoFacts ==
  ASSUME TypeOK, NEW o \in Ops, NEW s \in Stages, Goto(o, s)
  PROVE  /\ Moved(o) /\ SameRequest(o) /\ SameWork(o)
         /\ op'[o].stage = s
         /\ op'[o].status = op[o].status
         /\ op'[o].cred = op[o].cred
<1> DEFINE r == [op[o] EXCEPT !.stage = s]
<1>1. op[o] \in Op
  BY DEF TypeOK
<1>2. /\ r \in Op /\ r.stage = s /\ r.status = op[o].status
      /\ r.req = op[o].req /\ r.ended = op[o].ended /\ r.early = op[o].early
      /\ r.creds = op[o].creds /\ r.from = op[o].from
      /\ r.index = op[o].index /\ r.alone = op[o].alone
      /\ r.cred = op[o].cred
  BY <1>1 DEF Op
<1>3. op' = [op EXCEPT ![o] = r]
  BY DEF Goto
<1> HIDE DEF r
<1>4. Moved(o) /\ op'[o] = r
  BY <1>2, <1>3, Update
<1> QED BY <1>2, <1>4 DEF SameRequest, SameWork

LEMMA FinishFacts ==
  ASSUME TypeOK, NEW o \in Ops, NEW s \in Statuses, Finish(o, s)
  PROVE  /\ Moved(o) /\ SameRequest(o) /\ SameWork(o)
         /\ op'[o].stage = "done"
         /\ op'[o].status = s
<1> DEFINE r == [op[o] EXCEPT !.stage = "done", !.status = s]
<1>1. op[o] \in Op
  BY DEF TypeOK
<1>2. /\ r \in Op /\ r.stage = "done" /\ r.status = s
      /\ r.req = op[o].req /\ r.ended = op[o].ended /\ r.early = op[o].early
      /\ r.creds = op[o].creds /\ r.from = op[o].from
      /\ r.index = op[o].index /\ r.alone = op[o].alone
  BY <1>1 DEF Op, Stages
<1>3. op' = [op EXCEPT ![o] = r]
  BY DEF Finish
<1> HIDE DEF r
<1>4. Moved(o) /\ op'[o] = r
  BY <1>2, <1>3, Update
<1> QED BY <1>2, <1>4 DEF SameRequest, SameWork

LEMMA RespondFacts ==
  ASSUME TypeOK, NEW o \in Ops, NEW cred \in Ids, NEW from \in Ops,
         Respond(o, cred, from)
  PROVE  /\ Moved(o) /\ SameRequest(o)
         /\ op'[o].creds = op[o].creds
         /\ op'[o].stage = "done"
         /\ op'[o].cred = cred
         /\ op'[o].from = from
<1> DEFINE r == [op[o] EXCEPT !.stage = "done", !.status = "Success",
                              !.cred = cred, !.from = from]
<1>1. op[o] \in Op
  BY DEF TypeOK
<1>2. /\ r \in Op /\ r.stage = "done" /\ r.cred = cred /\ r.from = from
      /\ r.req = op[o].req /\ r.ended = op[o].ended /\ r.early = op[o].early
      /\ r.creds = op[o].creds
  BY <1>1 DEF Op, Stages, Statuses
<1>3. op' = [op EXCEPT ![o] = r]
  BY DEF Respond
<1> HIDE DEF r
<1>4. Moved(o) /\ op'[o] = r
  BY <1>2, <1>3, Update
<1> QED BY <1>2, <1>4 DEF SameRequest

-----------------------------------------------------------------------------
(* A step of one operation, or of its prompt, disturbs no other one.       *)

\* What is granted stays granted, with the request it was granted for.
Kept(o) ==
  /\ Sealed(o) => Sealed(o)' /\ op'[o].req = op[o].req
  /\ IsState(o) => IsState(o)' /\ op'[o].creds = op[o].creds

OthersPrompts(o) ==
  \A p \in Ops : p # o => prompt'[p] = prompt[p] /\ verdict'[p] = verdict[p]

\* Keys stay bound to their RP, and a new one is o's.
KeysKept(o) ==
  /\ \A i \in Ids : keys[i] # None => keys'[i] = keys[i]
  /\ \A p \in Ops : p # o => keys'[p] = keys[p]

Step(o) ==
  /\ TypeOK'
  /\ OnePrompt'
  /\ Moved(o) /\ OthersPrompts(o) /\ KeysKept(o) /\ Kept(o)
  /\ OpInv(o)'
  /\ assertionState' \in {assertionState, None, o}
  /\ assertionState' = o => IsState(o)'
  /\ StorageGranted'

\* An operation that another one's step leaves alone.
LEMMA OthersSame ==
  ASSUME NEW o \in Ops, NEW p \in Ops, p # o, Moved(o), OthersPrompts(o)
  PROVE  /\ op'[p] = op[p] /\ prompt'[p] = prompt[p] /\ verdict'[p] = verdict[p]
         /\ Sealed(p)' <=> Sealed(p)
         /\ IsState(p)' <=> IsState(p)
BY DEF Moved, OthersPrompts, Sealed, IsState, Kind

LEMMA AllKept ==
  ASSUME NEW o \in Ops, NEW p \in Ops, Moved(o), OthersPrompts(o), Kept(o)
  PROVE  Kept(p)
<1>1. CASE p = o
  BY <1>1
<1>2. CASE p # o
  BY <1>2, OthersSame DEF Kept
<1> QED BY <1>1, <1>2

LEMMA OthersInv ==
  ASSUME IInv, NEW o \in Ops, Step(o), NEW p \in Ops, p # o
  PROVE  OpInv(p)'
<1>1. OpInv(p)
  BY DEF IInv
<1>2. /\ op'[p] = op[p] /\ prompt'[p] = prompt[p] /\ verdict'[p] = verdict[p]
      /\ Sealed(p)' <=> Sealed(p)
  BY OthersSame DEF Step
<1>3. keys'[p] = keys[p]
  BY DEF Step, KeysKept
<1>4. Staged(p)' /\ Matched(p)' /\ KeyGranted(p)'
  BY <1>1, <1>2, <1>3 DEF OpInv, Staged, Matched, KeyGranted, At, Kind, IsRPIDAllowed
<1>5. ASSUME Reads(p)
      PROVE  Reading(p)'
  <2>1. PICK f \in Ops : f = op[p].from
    BY <1>1, <1>5 DEF OpInv, Reading
  <2>2. IsState(f) /\ (At(p, "signing") => op[p].cred \in Ids)
    BY <1>1, <1>5, <2>1 DEF OpInv, Reading
  <2>3. IsState(f)'
    BY <2>2, AllKept DEF Kept, Step
  <2> QED BY <1>2, <2>1, <2>2, <2>3 DEF Reading, At
<1>6. Reading(p)'
  BY <1>2, <1>5 DEF Reading, Reads, Kind
<1>7. ASSUME Signed(p)
      PROVE  SignedGranted(p)'
  <2>1. PICK f \in Ops : f = op[p].from
    BY <1>1, <1>7 DEF OpInv, SignedGranted
  <2>2. /\ Sealed(f) /\ op[p].cred \in Ids
        /\ keys[op[p].cred] = op[f].req.rp
        /\ op[f].req.kind = IF Kind(p, "make") THEN "make" ELSE "get"
    BY <1>1, <1>7, <2>1 DEF OpInv, SignedGranted
  <2>3. Sealed(f)' /\ op'[f].req = op[f].req
    BY <2>2, AllKept DEF Kept, Step
  <2>4. op[f].req.rp # None
    BY <2>2, NamesAssumption DEF Sealed
  <2>5. keys'[op[p].cred] = op[f].req.rp
    BY <2>2, <2>4 DEF Step, KeysKept
  <2> QED BY <1>2, <2>1, <2>2, <2>3, <2>5 DEF SignedGranted, Kind
<1>8. SignedGranted(p)'
  BY <1>2, <1>7 DEF SignedGranted, Signed
<1> QED BY <1>4, <1>6, <1>8 DEF OpInv

LEMMA StepKeepsIInv ==
  ASSUME IInv, NEW o \in Ops, Step(o)
  PROVE  IInv'
<1>1. ASSUME NEW p \in Ops PROVE OpInv(p)'
  BY OthersInv DEF Step
<1>2. ASSUME NEW f \in Ops, assertionState' = f
      PROVE  IsState(f)'
  <2>1. CASE f = o
    BY <1>2, <2>1 DEF Step
  <2>2. CASE f # o
    <3>1. assertionState = f
      BY <1>2, <2>2, NoneAssumption DEF Step
    <3>2. IsState(f)
      BY <3>1, NoneAssumption DEF IInv, StateGranted
    <3> QED BY <3>2, AllKept DEF Kept, Step
  <2> QED BY <2>1, <2>2
<1>3. assertionState' \in Ops \cup {None}
  BY DEF Step, TypeOK
<1>4. StateGranted'
  BY <1>2, <1>3 DEF StateGranted, IsState, Sealed, Kind
<1> QED BY <1>1, <1>4 DEF IInv, Step

-----------------------------------------------------------------------------
(* Steps that change o's record only.                                      *)

\* The granted part of o is kept if its request is and its stage goes on.
LEMMA KeptIf ==
  ASSUME NEW o \in Ops, SameRequest(o), op'[o].creds = op[o].creds,
         verdict'[o] = verdict[o],
         prompt[o] \in {"clearing", "done"} => prompt'[o] \in {"clearing", "done"},
         op[o].stage \in {"granted", "saving", "signing", "done"} =>
           op'[o].stage \in {"granted", "saving", "signing", "done"},
         op[o].stage \in {"signing", "done"} => op'[o].stage \in {"signing", "done"}
  PROVE  Kept(o)
BY DEF Kept, Sealed, IsState, SameRequest, Kind

LEMMA NotSealedKept ==
  ASSUME NEW o \in Ops, ~Sealed(o)
  PROVE  Kept(o)
BY DEF Kept, IsState

LEMMA StateOfKept ==
  ASSUME IInv, NEW o \in Ops, Kept(o), assertionState' \in {assertionState, None}
  PROVE  assertionState' = o => IsState(o)'
<1> SUFFICES ASSUME assertionState' = o PROVE IsState(o)'
  OBVIOUS
<1>1. assertionState = o
  BY NoneAssumption
<1> QED BY <1>1, NoneAssumption DEF IInv, StateGranted, Kept

LEMMA QuietStep ==
  ASSUME IInv, NEW o \in Ops, Moved(o), Kept(o), OpInv(o)',
         Untouched, UNCHANGED presenceVars
  PROVE  Step(o)
<1> USE DEF Untouched, presenceVars
<1>1. TypeOK'
  BY DEF IInv, TypeOK, PresenceTypeOK, Moved
<1>2. OnePrompt' /\ OthersPrompts(o) /\ KeysKept(o)
  BY DEF IInv, OnePrompt, OthersPrompts, KeysKept
<1>3. StorageGranted'
  BY DEF IInv, StorageGranted
<1>4. assertionState' \in {assertionState, None, o} /\ (assertionState' = o => IsState(o)')
  BY StateOfKept
<1> QED BY <1>1, <1>2, <1>3, <1>4 DEF Step

\* Returning without a response leaves nothing to be granted.
LEMMA FinishInv ==
  ASSUME IInv, NEW o \in Ops, NEW s \in Statuses \ {"Success"}, Finish(o, s),
         Kept(o), keys'[o] = keys[o]
  PROVE  Moved(o) /\ OpInv(o)'
<1>1. TypeOK /\ OpInv(o)
  BY DEF IInv
<1>2. Moved(o) /\ SameRequest(o) /\ op'[o].stage = "done" /\ op'[o].status = s
  BY <1>1, FinishFacts
<1>3. Staged(o)'
  BY <1>1, <1>2 DEF OpInv, Staged, At, SameRequest
<1>4. Matched(o)' /\ Reading(o)' /\ SignedGranted(o)'
  BY <1>2 DEF Matched, Reading, Reads, SignedGranted, Signed
<1>5. KeyGranted(o)'
  BY <1>1, <1>2 DEF OpInv, KeyGranted, Kept, Kind
<1> QED BY <1>2, <1>3, <1>4, <1>5 DEF OpInv

LEMMA FinishStep ==
  ASSUME IInv, NEW o \in Ops, NEW s \in Statuses \ {"Success"}, Finish(o, s),
         Untouched, UNCHANGED presenceVars
  PROVE  Step(o)
<1>1. SameRequest(o) /\ SameWork(o) /\ op'[o].stage = "done"
  BY FinishFacts DEF IInv
<1>2. Kept(o)
  BY <1>1, KeptIf DEF SameWork, presenceVars
<1>3. Moved(o) /\ OpInv(o)'
  BY <1>2, FinishInv DEF Untouched
<1> QED BY <1>2, <1>3, QuietStep

\* A response about a credential of a granted request.
LEMMA RespondStep ==
  ASSUME IInv, NEW o \in Ops, NEW cred \in Ids, NEW from \in Ops,
         Respond(o, cred, from),
         op[o].req.kind \in {"make", "get", "next"},
         Sealed(from),
         op[from].req.kind = IF Kind(o, "make") THEN "make" ELSE "get",
         keys[cred] = op[from].req.rp,
         Untouched, UNCHANGED presenceVars
  PROVE  Step(o)
<1>1. TypeOK /\ OpInv(o)
  BY DEF IInv
<1>2. /\ Moved(o) /\ SameRequest(o) /\ op'[o].creds = op[o].creds
      /\ op'[o].stage = "done" /\ op'[o].cred = cred /\ op'[o].from = from
  BY <1>1, RespondFacts
<1>3. Kept(o)
  BY <1>2, KeptIf DEF presenceVars
<1>4. Staged(o)'
  BY <1>1, <1>2 DEF OpInv, Staged, At, SameRequest
<1>5. Matched(o)' /\ Reading(o)'
  BY <1>2 DEF Matched, Reading, Reads
<1>6. KeyGranted(o)'
  BY <1>1, <1>2, <1>3 DEF OpInv, KeyGranted, Kept, Kind, Untouched
<1>7. SignedGranted(o)'
  <2>1. OthersPrompts(o)
    BY DEF OthersPrompts, presenceVars
  <2>2. Sealed(from)' /\ op'[from].req = op[from].req
    BY <1>2, <1>3, <2>1, AllKept DEF Kept
  <2> QED BY <1>2, <2>2 DEF SignedGranted, Kind, SameRequest, Untouched
<1>8. OpInv(o)'
  BY <1>4, <1>5, <1>6, <1>7 DEF OpInv
<1> QED BY <1>2, <1>3, <1>8, QuietStep

-----------------------------------------------------------------------------
(* The steps common to the commands.                                       *)

LEMMA StatusFacts ==
  /\ {"none", "OperationDenied", "UnsupportedExtension", "InvalidParameter",
      "UnsupportedAlgorithm", "CredentialExcluded", "NoCredentials",
      "UserActionTimeout", "NotAllowed", "Other", "Invalid"}
       = Statuses \ {"Success"}
  /\ {"called", "matching", "asking", "waiting", "granted", "saving", "signing",
      "found", "loaded", "advancing", "checking", "dropping", "picking",
      "panicked", "done"} \subseteq Stages
BY DEF Statuses, Stages, NextStages

LEMMA HandleCommandStep ==
  ASSUME IInv, NEW o \in Ops, NEW q \in Requests, HandleCommand(o, q)
  PROVE  Step(o)
<1> DEFINE stage == IF q.kind \in {"info", "bad"} THEN "done" ELSE "called"
           status == CASE q.kind = "info" -> "Success"
                       [] q.kind = "bad" -> "Invalid"
                       [] OTHER -> "none"
           r == [op[o] EXCEPT !.req = q, !.stage = stage, !.status = status]
<1>1. TypeOK /\ OpInv(o) /\ op[o] \in Op
  BY DEF IInv, TypeOK
<1>2. /\ stage \in {"done", "called"} /\ status \in {"none", "Success", "Invalid"}
      /\ status = "Success" => q.kind = "info" /\ stage = "done"
      /\ stage = "called" => q.kind \in {"make", "get", "next"}
  BY RequestsAssumption DEF Request
<1>3. op' = [op EXCEPT ![o] = r]
  BY DEF HandleCommand
<1> HIDE DEF stage, status
<1>4. /\ r \in Op /\ r.req = q /\ r.stage = stage /\ r.status = status
      /\ r.ended = op[o].ended /\ r.early = op[o].early
  <2>1. PICK r1 \in Op : r1 = [op[o] EXCEPT !.req = q]
    BY <1>1 DEF Op
  <2>2. r1.req = q /\ r1.ended = op[o].ended /\ r1.early = op[o].early
    BY <1>1, <2>1 DEF Op
  <2>3. r = [r1 EXCEPT !.stage = stage, !.status = status]
    BY <2>1
  <2>4. stage \in Stages /\ status \in Statuses
    BY <1>2 DEF Stages, Statuses
  <2> QED BY <2>1, <2>2, <2>3, <2>4 DEF Op
<1> HIDE DEF r
<1>5. Moved(o) /\ op'[o] = r
  BY <1>1, <1>3, <1>4, Update
<1>6. /\ op[o].stage = "unused" /\ ~Sealed(o)
      /\ UNCHANGED <<keys, prompt, verdict>>
  BY DEF HandleCommand, At, Sealed, Untouched, presenceVars
<1>7. Staged(o)'
  BY <1>1, <1>2, <1>4, <1>5, <1>6 DEF OpInv, Staged, At
<1>8. Matched(o)' /\ Reading(o)' /\ SignedGranted(o)'
  BY <1>2, <1>4, <1>5 DEF Matched, Reading, Reads, SignedGranted, Signed
<1>9. KeyGranted(o)'
  BY <1>1, <1>6 DEF OpInv, KeyGranted
<1>10. Kept(o)
  BY <1>6, NotSealedKept
<1> QED BY <1>5, <1>7, <1>8, <1>9, <1>10, QuietStep DEF OpInv, HandleCommand

LEMMA EndContextStep ==
  ASSUME IInv, NEW o \in Ops, EndContext(o)
  PROVE  Step(o)
<1> DEFINE early == prompt[o] \in {"none", "running"}
           r == [op[o] EXCEPT !.ended = TRUE, !.early = early]
<1>1. TypeOK /\ OpInv(o) /\ op[o] \in Op
  BY DEF IInv, TypeOK
<1>2. op' = [op EXCEPT ![o] = r]
  BY DEF EndContext
<1>3. early \in BOOLEAN /\ (early => prompt[o] \in {"none", "running"})
  OBVIOUS
<1> HIDE DEF early
<1>4. /\ r \in Op /\ r.ended = TRUE /\ r.early = early
      /\ r.req = op[o].req /\ r.stage = op[o].stage /\ r.status = op[o].status
      /\ r.cred = op[o].cred /\ r.creds = op[o].creds
      /\ r.from = op[o].from
      /\ r.index = op[o].index /\ r.alone = op[o].alone
  BY <1>1, <1>3 DEF Op
<1> HIDE DEF r
<1>5. Moved(o) /\ op'[o] = r
  BY <1>1, <1>2, <1>4, Update
<1>6. UNCHANGED <<keys, prompt, verdict>>
  BY DEF EndContext, Untouched, presenceVars
<1>7. Sealed(o) => Sealed(o)'
  BY <1>3, <1>4, <1>5, <1>6 DEF Sealed
<1>8. Kept(o)
  BY <1>4, <1>5, <1>7 DEF Kept, IsState, Kind
<1>9. Staged(o)' /\ Matched(o)' /\ KeyGranted(o)'
  BY <1>1, <1>4, <1>5, <1>6, <1>7
     DEF OpInv, Staged, Matched, KeyGranted, At, Kind, IsRPIDAllowed
<1>10. op[o].stage # "done" /\ op[o].req.kind # "next"
  BY DEF EndContext
<1>11. Reading(o)'
  BY <1>4, <1>5, <1>10 DEF Reading, Reads, Kind
<1>12. SignedGranted(o)'
  BY <1>1, <1>4, <1>5, <1>10 DEF OpInv, Staged, At, SignedGranted, Signed
<1> QED BY <1>5, <1>8, <1>9, <1>11, <1>12, QuietStep DEF OpInv, EndContext

\* The steps of a prompt leave the records alone.
LEMMA PromptOnly ==
  ASSUME IInv, NEW o \in Ops, UNCHANGED op, Untouched, OthersPrompts(o),
         PresenceTypeOK', OnePrompt', Staged(o)', Sealed(o) => Sealed(o)'
  PROVE  Step(o)
<1> USE DEF Untouched
<1>1. TypeOK /\ OpInv(o)
  BY DEF IInv
<1>2. TypeOK'
  BY <1>1 DEF TypeOK
<1>3. Moved(o) /\ KeysKept(o) /\ Kept(o)
  BY <1>1 DEF TypeOK, Moved, KeysKept, Kept, IsState, Kind
<1>4. ASSUME NEW f \in Ops PROVE Kept(f)
  BY <1>3, AllKept
<1>5. Matched(o)' /\ KeyGranted(o)'
  BY <1>1 DEF OpInv, Matched, KeyGranted, Kind
<1>6. Reading(o)'
  <2> SUFFICES ASSUME Reads(o) PROVE Reading(o)'
    BY DEF Reading, Reads, Kind
  <2>1. PICK f \in Ops : f = op[o].from
    BY <1>1 DEF OpInv, Reading
  <2>2. IsState(f)'
    BY <1>1, <1>4, <2>1 DEF OpInv, Reading, Kept
  <2> QED BY <1>1, <2>1, <2>2 DEF OpInv, Reading, At
<1>7. SignedGranted(o)'
  <2> SUFFICES ASSUME Signed(o) PROVE SignedGranted(o)'
    BY DEF SignedGranted, Signed
  <2>1. PICK f \in Ops : f = op[o].from
    BY <1>1 DEF OpInv, SignedGranted
  <2>2. Sealed(f)'
    BY <1>1, <1>4, <2>1 DEF OpInv, SignedGranted, Kept
  <2> QED BY <1>1, <2>1, <2>2 DEF OpInv, SignedGranted, Kind
<1>8. StorageGranted'
  BY DEF IInv, StorageGranted
<1>9. assertionState' \in {assertionState, None, o} /\ (assertionState' = o => IsState(o)')
  BY <1>3, StateOfKept
<1> QED BY <1>2, <1>3, <1>5, <1>6, <1>7, <1>8, <1>9 DEF Step, OpInv

LEMMA PromptSteps ==
  ASSUME IInv, NEW o \in Ops, PromptStep(o)
  PROVE  Step(o)
<1>1. TypeOK /\ PresenceTypeOK /\ OnePrompt /\ OpInv(o)
  BY DEF IInv, TypeOK
<1>2. UNCHANGED op /\ Untouched
  BY DEF PromptStep
<1>3. CASE \E v \in {"ok", "failed"} : FingerprintResult(o, v)
  <2> USE <1>3 DEF FingerprintResult
  <2>1. ~Sealed(o)
    BY DEF Sealed
  <2>2. PresenceTypeOK' /\ OthersPrompts(o)
    BY <1>1 DEF PresenceTypeOK, OthersPrompts
  <2>3. OnePrompt'
    BY <1>1 DEF OnePrompt, PresenceTypeOK
  <2>4. Staged(o)'
    BY <1>1, <1>2, <2>1 DEF OpInv, Staged, At, Kind, Untouched, PresenceTypeOK
  <2> QED BY <1>2, <2>1, <2>2, <2>3, <2>4, PromptOnly
<1>4. CASE ~At(o, "waiting") /\ DropResult(o)
  <2> USE <1>4 DEF DropResult, DeliverResult
  <2>1. ~Sealed(o)
    BY DEF Sealed
  <2>2. PresenceTypeOK' /\ OthersPrompts(o)
    BY <1>1 DEF PresenceTypeOK, OthersPrompts
  <2>3. OnePrompt'
    BY <1>1 DEF OnePrompt, PresenceTypeOK
  <2>4. Staged(o)'
    BY <1>1, <1>2, <2>1 DEF OpInv, Staged, At, Kind, Untouched, PresenceTypeOK
  <2> QED BY <1>2, <2>1, <2>2, <2>3, <2>4, PromptOnly
<1>5. CASE Release(o)
  <2> USE <1>5 DEF Release
  <2>1. Sealed(o) => Sealed(o)'
    BY <1>1, <1>2 DEF Sealed, PresenceTypeOK
  <2>2. PresenceTypeOK' /\ OthersPrompts(o)
    BY <1>1 DEF PresenceTypeOK, OthersPrompts
  <2>3. OnePrompt'
    BY <1>1, NoneAssumption DEF OnePrompt, PresenceTypeOK
  <2>4. Staged(o)'
    BY <1>1, <1>2, <2>1 DEF OpInv, Staged, At, Kind, Untouched, PresenceTypeOK
  <2> QED BY <1>2, <2>1, <2>2, <2>3, <2>4, PromptOnly
<1> QED BY <1>3, <1>4, <1>5 DEF PromptStep

LEMMA PresenceTimeoutStep ==
  ASSUME IInv, NEW o \in Ops, PresenceTimeout(o)
  PROVE  Step(o)
BY StatusFacts, FinishStep DEF PresenceTimeout

LEMMA AskPresenceStep ==
  ASSUME IInv, NEW o \in Ops, AskPresence(o)
  PROVE  Step(o)
<1>1. TypeOK /\ PresenceTypeOK /\ OnePrompt /\ OpInv(o)
  BY DEF IInv, TypeOK
<1>2. CASE PresenceBusy /\ Finish(o, "OperationDenied")
  BY <1>2, StatusFacts, FinishStep DEF AskPresence, PresenceBusy
<1>3. CASE ConfirmPresence(o) /\ Goto(o, "waiting")
  <2>1. /\ Moved(o) /\ SameRequest(o) /\ SameWork(o)
        /\ op'[o].stage = "waiting" /\ op'[o].status = op[o].status
        /\ op'[o].cred = op[o].cred
    BY <1>1, <1>3, StatusFacts, GotoFacts
  <2>2. op[o].stage = "asking" /\ ~Sealed(o) /\ Untouched
    BY DEF AskPresence, At, Sealed
  <2>3. PresenceTypeOK' /\ OthersPrompts(o) /\ prompt'[o] = "running"
    BY <1>1, <1>3 DEF PresenceTypeOK, OthersPrompts, ConfirmPresence
  <2>4. OnePrompt'
    BY <1>1, <1>3, NoneAssumption DEF OnePrompt, PresenceTypeOK, ConfirmPresence
  <2>5. TypeOK'
    BY <1>1, <2>1, <2>2, <2>3 DEF TypeOK, Moved, Untouched
  <2>6. Staged(o)'
    BY <1>1, <2>1, <2>2, <2>3
       DEF OpInv, Staged, At, Kind, IsRPIDAllowed, SameRequest, Untouched
  <2>7. Matched(o)' /\ Reading(o)' /\ KeyGranted(o)'
    BY <1>1, <2>1, <2>2
       DEF OpInv, Matched, Reading, Reads, KeyGranted, Kind, SameRequest, SameWork, Untouched
  <2>8. SignedGranted(o)'
    BY <1>1, <2>1, <2>2 DEF OpInv, Staged, SignedGranted, Signed, At
  <2>9. Kept(o) /\ KeysKept(o) /\ StorageGranted'
    BY <2>2, NotSealedKept DEF KeysKept, Untouched, IInv, StorageGranted
  <2>10. assertionState' \in {assertionState, None, o} /\ (assertionState' = o => IsState(o)')
    BY <2>2, <2>9, StateOfKept DEF Untouched
  <2> QED BY <2>1, <2>3, <2>4, <2>5, <2>6, <2>7, <2>8, <2>9, <2>10 DEF Step, OpInv
<1> QED BY <1>2, <1>3 DEF AskPresence

LEMMA ReceiveResultStep ==
  ASSUME IInv, NEW o \in Ops, ReceiveResult(o)
  PROVE  Step(o)
<1>1. TypeOK /\ PresenceTypeOK /\ OnePrompt /\ OpInv(o)
  BY DEF IInv, TypeOK
<1>2. op[o].stage = "waiting" /\ ~Sealed(o) /\ Untouched
  BY DEF ReceiveResult, At, Sealed
<1>3. PresenceTypeOK' /\ OthersPrompts(o) /\ prompt'[o] = "clearing" /\ verdict' = verdict
  BY <1>1 DEF PresenceTypeOK, OthersPrompts, ReceiveResult, DeliverResult
<1>4. OnePrompt'
  BY <1>1 DEF OnePrompt, PresenceTypeOK, ReceiveResult, DeliverResult
<1>5. Kept(o) /\ KeysKept(o) /\ StorageGranted'
  BY <1>2, NotSealedKept DEF KeysKept, Untouched, IInv, StorageGranted
<1>6. assertionState' \in {assertionState, None, o} /\ (assertionState' = o => IsState(o)')
  BY <1>2, <1>5, StateOfKept DEF Untouched
<1>7. CASE \E s \in Statuses \ {"Success"} : Finish(o, s)
  <2>1. Moved(o) /\ OpInv(o)'
    BY <1>2, <1>5, <1>7, FinishInv DEF Untouched
  <2>2. TypeOK'
    BY <1>1, <1>2, <1>3, <2>1 DEF TypeOK, Moved, Untouched
  <2> QED BY <1>3, <1>4, <1>5, <1>6, <2>1, <2>2 DEF Step
<1>8. CASE Goto(o, "granted") /\ ~op[o].ended /\ verdict[o] = "ok"
  <2>1. /\ Moved(o) /\ SameRequest(o) /\ SameWork(o)
        /\ op'[o].stage = "granted" /\ op'[o].status = op[o].status
        /\ op'[o].cred = op[o].cred
    BY <1>1, <1>8, StatusFacts, GotoFacts
  <2>2. TypeOK'
    BY <1>1, <1>2, <1>3, <2>1 DEF TypeOK, Moved, Untouched
  <2>3. Sealed(o)'
    BY <1>1, <1>2, <1>3, <1>8, <2>1
       DEF OpInv, Staged, Sealed, SameRequest, IsRPIDAllowed
  <2>4. Staged(o)'
    BY <1>1, <1>2, <2>1, <2>3 DEF OpInv, Staged, At, Kind, SameRequest, Untouched
  <2>5. Matched(o)' /\ Reading(o)' /\ KeyGranted(o)'
    BY <1>1, <1>2, <2>1
       DEF OpInv, Matched, Reading, Reads, KeyGranted, Kind, SameRequest, SameWork, Untouched
  <2>6. SignedGranted(o)'
    BY <1>1, <1>2, <2>1 DEF OpInv, Staged, SignedGranted, Signed, At
  <2> QED BY <1>3, <1>4, <1>5, <1>6, <2>1, <2>2, <2>4, <2>5, <2>6 DEF Step, OpInv
<1> QED BY <1>7, <1>8, StatusFacts DEF ReceiveResult

-----------------------------------------------------------------------------
(* The commands.                                                           *)

\* An operation's request, once it has one.
LEMMA RequestFacts ==
  ASSUME IInv, NEW o \in Ops, op[o].req.kind # "none"
  PROVE  /\ op[o].req \in Requests
         /\ op[o].req.rp \in RPs /\ op[o].req.user \in Users
         /\ op[o].req.kind \in {"make", "get", "next", "info", "bad"}
<1>1. op[o].req \in Requests \cup {NoRequest}
  BY DEF IInv, TypeOK, Op
<1>2. NoRequest.kind = "none"
  BY DEF NoRequest
<1>3. op[o].req \in Requests
  BY <1>1, <1>2
<1> QED BY <1>3, RequestsAssumption DEF Request

\* Going on to another stage before the request is granted.
LEMMA EarlyGotoStep ==
  ASSUME IInv, NEW o \in Ops, op[o].stage \in {"called", "matching"},
         NEW s \in {"matching", "asking"}, Moved(o), SameRequest(o),
         op'[o].stage = s, op'[o].status = op[o].status,
         s = "matching" => Kind(o, "get"),
         s = "asking" => op[o].req.kind \in {"make", "get"},
         IsRPIDAllowed(op[o].req.rp), Matched(o)',
         Untouched, UNCHANGED presenceVars
  PROVE  Step(o)
<1>1. OpInv(o) /\ ~Sealed(o)
  BY DEF IInv, Sealed
<1>2. Kept(o)
  BY <1>1, NotSealedKept
<1>3. Staged(o)'
  BY <1>1 DEF OpInv, Staged, KeyGranted, At, Kind, SameRequest, Untouched,
              presenceVars, IsRPIDAllowed
<1>4. Reading(o)' /\ KeyGranted(o)'
  BY <1>1 DEF OpInv, Reading, Reads, KeyGranted, Kind, Untouched
<1>5. SignedGranted(o)'
  BY <1>1 DEF OpInv, Staged, SignedGranted, Signed, At
<1> QED BY <1>2, <1>3, <1>4, <1>5, QuietStep DEF OpInv

LEMMA MakeCredentialStep ==
  ASSUME IInv, NEW o \in Ops, MakeCredential(o)
  PROVE  Step(o)
<1> DEFINE r == op[o].req
<1>1. TypeOK /\ op[o].stage = "called" /\ r.kind = "make"
  BY DEF MakeCredential, At, Kind, IInv
<1>2. MakeRefusal(r) \in Statuses \ {"Success"}
  BY StatusFacts DEF MakeRefusal
<1>3. CASE MakeRefusal(r) # "none" /\ Finish(o, MakeRefusal(r))
  BY <1>2, <1>3, FinishStep DEF MakeCredential
<1>4. CASE Finish(o, "CredentialExcluded")
  BY <1>4, StatusFacts, FinishStep DEF MakeCredential
<1>5. CASE MakeRefusal(r) = "none" /\ Goto(o, "asking")
  <2>1. /\ Moved(o) /\ SameRequest(o)
        /\ op'[o].stage = "asking" /\ op'[o].status = op[o].status
    BY <1>1, <1>5, StatusFacts, GotoFacts
  <2>2. IsRPIDAllowed(r.rp)
    BY <1>5 DEF MakeRefusal
  <2>3. Matched(o)'
    BY <1>1, <2>1 DEF Matched, Kind, SameRequest
  <2> QED BY <1>1, <2>1, <2>2, <2>3, EarlyGotoStep DEF MakeCredential
<1> QED BY <1>3, <1>4, <1>5 DEF MakeCredential

\* RegisterKey and SaveCredential go on with a granted registration.
LEMMA MakeGotoInv ==
  ASSUME IInv, NEW o \in Ops, NEW s \in {"saving", "signing"}, Goto(o, s),
         op[o].stage \in {"granted", "saving"}, Kind(o, "make"),
         keys'[o] = op[o].req.rp, UNCHANGED presenceVars
  PROVE  Moved(o) /\ Kept(o) /\ OpInv(o)'
<1>1. TypeOK /\ OpInv(o) /\ Sealed(o)
  BY DEF IInv, OpInv, Staged
<1>2. /\ Moved(o) /\ SameRequest(o) /\ SameWork(o)
      /\ op'[o].stage = s /\ op'[o].status = op[o].status
  BY <1>1, StatusFacts, GotoFacts
<1>3. Kept(o) /\ Sealed(o)'
  BY <1>1, <1>2, KeptIf DEF SameWork, presenceVars, Kept
<1>4. Staged(o)'
  BY <1>1, <1>2, <1>3 DEF OpInv, Staged, At, Kind, SameRequest
<1>5. Matched(o)' /\ Reading(o)' /\ KeyGranted(o)'
  BY <1>2, <1>3 DEF Matched, Reading, Reads, KeyGranted, Kind, SameRequest
<1>6. SignedGranted(o)'
  BY <1>1, <1>2 DEF OpInv, Staged, SignedGranted, Signed, At
<1> QED BY <1>2, <1>3, <1>4, <1>5, <1>6 DEF OpInv

LEMMA RegisterKeyStep ==
  ASSUME IInv, NEW o \in Ops, RegisterKey(o)
  PROVE  Step(o)
<1> DEFINE r == op[o].req
<1>1. TypeOK /\ OpInv(o) /\ op[o].stage = "granted" /\ Kind(o, "make")
  BY DEF RegisterKey, At, IInv
<1>2. CASE Finish(o, "Other") /\ UNCHANGED keys
  BY <1>2, StatusFacts, FinishStep DEF RegisterKey, Untouched
<1>3. CASE /\ keys' = [keys EXCEPT ![o] = r.rp]
           /\ Goto(o, IF r.rk THEN "saving" ELSE "signing")
  <2>1. keys[o] = None /\ r.rp \in RPs /\ o \in Ids
    BY <1>1, RequestFacts DEF OpInv, Staged, At, Kind, Ids
  <2>2. /\ keys' \in [Ids -> RPs \cup {None}]
        /\ keys'[o] = r.rp /\ \A i \in Ids : i # o => keys'[i] = keys[i]
    BY <1>1, <1>3, <2>1 DEF TypeOK
  <2>3. UNCHANGED <<storage, assertionState, nextIndex, presenceVars>>
    BY DEF RegisterKey
  <2>4. Moved(o) /\ Kept(o) /\ OpInv(o)'
    <3>1. CASE r.rk
      BY <1>1, <1>3, <2>2, <2>3, <3>1, MakeGotoInv
    <3>2. CASE ~r.rk
      BY <1>1, <1>3, <2>2, <2>3, <3>2, MakeGotoInv
    <3> QED BY <3>1, <3>2
  <2>5. TypeOK' /\ OnePrompt' /\ OthersPrompts(o)
    BY <1>1, <2>2, <2>3, <2>4
       DEF TypeOK, PresenceTypeOK, Moved, presenceVars, OthersPrompts, OnePrompt, IInv
  <2>6. KeysKept(o)
    BY <2>1, <2>2 DEF KeysKept, Ids
  <2>7. StorageGranted'
    <3>1. ASSUME NEW c \in storage PROVE keys'[c.id] = keys[c.id]
      BY <1>1, <2>1, <2>2, NamesAssumption
         DEF TypeOK, Credential, IInv, StorageGranted
    <3> QED BY <2>3, <3>1 DEF IInv, StorageGranted
  <2>8. assertionState' \in {assertionState, None, o} /\ (assertionState' = o => IsState(o)')
    BY <2>3, <2>4, StateOfKept
  <2> QED BY <2>4, <2>5, <2>6, <2>7, <2>8 DEF Step
<1> QED BY <1>2, <1>3 DEF RegisterKey

LEMMA SaveCredentialStep ==
  ASSUME IInv, NEW o \in Ops, SaveCredential(o)
  PROVE  Step(o)
<1> DEFINE r == op[o].req
           new == [id |-> o, rp |-> r.rp, user |-> r.user]
           kept == {c \in storage : ~(c.rp = r.rp /\ c.user = r.user)}
<1>1. TypeOK /\ OpInv(o) /\ op[o].stage = "saving"
  BY DEF SaveCredential, At, IInv
<1>2. /\ Kind(o, "make") /\ keys[o] = r.rp /\ Sealed(o)
      /\ r.rp \in RPs /\ r.user \in Users /\ r.rp \in AllowedRPs
  BY <1>1, RequestFacts DEF OpInv, Staged, At, Kind, Sealed
<1>3. storage' = kept \cup {new}
      /\ UNCHANGED <<keys, assertionState, nextIndex, presenceVars>>
  BY DEF SaveCredential
<1>4. Moved(o) /\ Kept(o) /\ OpInv(o)'
  BY <1>1, <1>2, <1>3, MakeGotoInv DEF SaveCredential
<1>5. new \in Credential /\ new.id = o /\ new.rp = r.rp /\ new.user = r.user
  BY <1>2 DEF Credential, Ids
<1>6. TypeOK' /\ OnePrompt' /\ OthersPrompts(o) /\ KeysKept(o)
  BY <1>1, <1>3, <1>4, <1>5
     DEF TypeOK, PresenceTypeOK, Moved, presenceVars, OthersPrompts, OnePrompt,
         KeysKept, IInv
<1>7. IsFiniteSet(storage')
  <2>1. IsFiniteSet(kept)
    BY FS_Subset DEF IInv, StorageGranted
  <2> QED BY <1>3, <2>1, FS_AddElement
<1>8. StorageGranted'
  <2> HIDE DEF new
  <2>1. \A c \in storage' : c = new \/ (c \in storage /\ ~(c.rp = r.rp /\ c.user = r.user))
    BY <1>3
  <2> QED BY <1>2, <1>3, <1>5, <1>7, <2>1 DEF IInv, StorageGranted
<1>9. assertionState' \in {assertionState, None, o} /\ (assertionState' = o => IsState(o)')
  BY <1>3, <1>4, StateOfKept
<1> QED BY <1>4, <1>6, <1>8, <1>9 DEF Step

LEMMA AttestStep ==
  ASSUME IInv, NEW o \in Ops, Attest(o)
  PROVE  Step(o)
<1>1. CASE Finish(o, "Other")
  BY <1>1, StatusFacts, FinishStep DEF Attest
<1>2. CASE Respond(o, o, o)
  <2>1. op[o].stage = "signing" /\ Kind(o, "make") /\ OpInv(o)
    BY DEF Attest, At, IInv
  <2>2. Sealed(o) /\ keys[o] = op[o].req.rp
    BY <2>1 DEF OpInv, Staged, At, Kind
  <2> QED BY <1>2, <2>1, <2>2, RespondStep DEF Attest, Kind, Ids
<1> QED BY <1>1, <1>2 DEF Attest

LEMMA GetAssertionStep ==
  ASSUME IInv, NEW o \in Ops, GetAssertion(o)
  PROVE  Step(o)
<1> DEFINE r == op[o].req
<1>1. /\ TypeOK /\ OpInv(o) /\ op[o].stage = "called" /\ r.kind = "get" /\ ~Sealed(o)
      /\ UNCHANGED <<keys, storage, nextIndex, presenceVars>>
  BY DEF GetAssertion, At, Kind, IInv, Sealed
<1>2. Kept(o)
  BY <1>1, NotSealedKept
<1>3. assertionState' \in {assertionState, None}
  BY DEF GetAssertion
<1>4. Moved(o) /\ OpInv(o)'
  <2>1. CASE \E s \in Statuses \ {"Success"} : Finish(o, s)
    BY <1>1, <1>2, <2>1, FinishInv
  <2>2. CASE IsRPIDAllowed(r.rp) /\ Goto(o, "matching")
    <3>1. /\ Moved(o) /\ SameRequest(o)
          /\ op'[o].stage = "matching" /\ op'[o].status = op[o].status
      BY <1>1, <2>2, StatusFacts, GotoFacts
    <3>2. Staged(o)'
      BY <1>1, <2>2, <3>1
         DEF OpInv, Staged, At, Kind, SameRequest, presenceVars, IsRPIDAllowed
    <3>3. Matched(o)' /\ Reading(o)' /\ KeyGranted(o)'
      BY <1>1, <3>1 DEF OpInv, Matched, Reading, Reads, KeyGranted, Kind, SameRequest
    <3>4. SignedGranted(o)'
      BY <1>1, <3>1 DEF OpInv, Staged, SignedGranted, Signed, At
    <3> QED BY <3>1, <3>2, <3>3, <3>4 DEF OpInv
  <2> QED BY <2>1, <2>2, StatusFacts DEF GetAssertion
<1>5. TypeOK' /\ OnePrompt' /\ OthersPrompts(o) /\ KeysKept(o)
  BY <1>1, <1>3, <1>4
     DEF TypeOK, PresenceTypeOK, Moved, presenceVars, OthersPrompts, OnePrompt,
         KeysKept, IInv
<1>6. StorageGranted'
  BY <1>1 DEF IInv, StorageGranted
<1>7. assertionState' = o => IsState(o)'
  BY <1>2, <1>3, StateOfKept
<1> QED BY <1>2, <1>3, <1>4, <1>5, <1>6, <1>7 DEF Step

\* A listing of a set of credentials is a sequence that is as long as the
\* set is large.
LEMMA ListingFacts ==
  ASSUME NEW S, S \subseteq Credential, IsFiniteSet(S), S # {},
         NEW s \in Listings(S)
  PROVE  s \in Seq(Credential) /\ Len(s) > 0
<1>1. Cardinality(S) \in Nat /\ Cardinality(S) # 0
  BY FS_CardinalityType, FS_EmptySet
<1>2. s \in [1 .. Cardinality(S) -> S]
  BY DEF Listings
<1>3. s \in [1 .. Cardinality(S) -> Credential]
  BY <1>2
<1> HIDE DEF Listings
<1>4. s \in Seq(Credential)
  BY <1>1, <1>3
<1>5. Len(s) = Cardinality(S)
  BY <1>1, <1>2, <1>4
<1> QED BY <1>1, <1>4, <1>5

LEMMA MatchStep ==
  ASSUME IInv, NEW o \in Ops, Match(o)
  PROVE  Step(o)
<1> DEFINE r == op[o].req
<1>1. /\ TypeOK /\ OpInv(o) /\ op[o].stage = "matching"
      /\ Untouched /\ UNCHANGED presenceVars /\ op[o] \in Op
  BY DEF Match, At, IInv, TypeOK
<1>2. r.kind = "get" /\ IsRPIDAllowed(r.rp)
  BY <1>1 DEF OpInv, Staged, At, Kind
<1>3. CASE Finish(o, "NoCredentials")
  BY <1>1, <1>3, StatusFacts, FinishStep
<1>4. ASSUME r.list # {}, NEW i \in Ids,
             op' = [op EXCEPT ![o] = [@ EXCEPT !.stage = "asking", !.cred = i]]
      PROVE  Step(o)
  <2> DEFINE q == [op[o] EXCEPT !.stage = "asking", !.cred = i]
  <2>1. /\ q \in Op /\ q.stage = "asking" /\ q.cred = i /\ q.status = op[o].status
        /\ q.req = r /\ q.ended = op[o].ended /\ q.early = op[o].early
    BY <1>1 DEF Op, Stages
  <2>2. op' = [op EXCEPT ![o] = q]
    BY <1>4
  <2> HIDE DEF q
  <2>3. Moved(o) /\ op'[o] = q
    BY <1>1, <2>1, <2>2, Update
  <2>4. Matched(o)'
    BY <1>4, <2>1, <2>3 DEF Matched
  <2> QED BY <1>1, <1>2, <2>1, <2>3, <2>4, EarlyGotoStep DEF SameRequest
<1>5. ASSUME r.list = {}, NEW s \in Seq(Credential), Len(s) > 0,
             op' = [op EXCEPT ![o] = [@ EXCEPT !.stage = "asking", !.creds = s]]
      PROVE  Step(o)
  <2> DEFINE q == [op[o] EXCEPT !.stage = "asking", !.creds = s]
  <2>1. /\ q \in Op /\ q.stage = "asking" /\ q.creds = s /\ q.status = op[o].status
        /\ q.req = r /\ q.ended = op[o].ended /\ q.early = op[o].early
    BY <1>1, <1>5 DEF Op, Stages
  <2>2. op' = [op EXCEPT ![o] = q]
    BY <1>5
  <2> HIDE DEF q
  <2>3. Moved(o) /\ op'[o] = q
    BY <1>1, <2>1, <2>2, Update
  <2>4. Matched(o)'
    BY <1>5, <2>1, <2>3 DEF Matched
  <2> QED BY <1>1, <1>2, <2>1, <2>3, <2>4, EarlyGotoStep DEF SameRequest
<1>6. CASE r.list # {} /\ \E i \in Signable(r) :
             op' = [op EXCEPT ![o] = [@ EXCEPT !.stage = "asking", !.cred = i]]
  <2>1. r \in Requests
    BY <1>2, RequestFacts
  <2>2. Signable(r) \subseteq Ids
    BY <2>1, RequestsAssumption DEF Signable, Request
  <2> QED BY <1>4, <1>6, <2>2
<1>7. ASSUME r.list = {},
             NEW valid \in SUBSET {c \in storage : c.rp = r.rp /\ keys[c.id] = r.rp},
             valid # {},
             NEW s \in Listings(valid),
             op' = [op EXCEPT ![o] = [@ EXCEPT !.stage = "asking", !.creds = s]]
      PROVE  Step(o)
  <2>1. valid \subseteq storage /\ valid \subseteq Credential
    BY <1>1, <1>7 DEF TypeOK
  <2>2. IsFiniteSet(valid)
    BY <2>1, FS_Subset DEF IInv, StorageGranted
  <2>3. s \in Seq(Credential) /\ Len(s) > 0
    BY <1>7, <2>1, <2>2, ListingFacts
  <2> QED BY <1>5, <1>7, <2>3
<1> QED BY <1>3, <1>6, <1>7 DEF Match

LEMMA PublishStateStep ==
  ASSUME IInv, NEW o \in Ops, PublishState(o)
  PROVE  Step(o)
<1>1. /\ TypeOK /\ OpInv(o) /\ op[o].stage = "granted" /\ Kind(o, "get")
      /\ UNCHANGED <<keys, storage, presenceVars>> /\ Goto(o, "signing")
  BY DEF PublishState, At, IInv
<1>2. Sealed(o)
  BY <1>1 DEF OpInv, Staged, At
<1>3. /\ Moved(o) /\ SameRequest(o) /\ SameWork(o)
      /\ op'[o].stage = "signing" /\ op'[o].status = op[o].status
      /\ op'[o].cred = op[o].cred
  BY <1>1, StatusFacts, GotoFacts
<1>4. Kept(o) /\ Sealed(o)'
  BY <1>1, <1>2, <1>3, KeptIf DEF SameWork, presenceVars, Kept
<1>5. Staged(o)' /\ Matched(o)' /\ Reading(o)' /\ KeyGranted(o)'
  BY <1>1, <1>2, <1>3, <1>4
     DEF OpInv, Staged, Matched, Reading, Reads, KeyGranted, At, Kind, SameRequest, SameWork
<1>6. SignedGranted(o)'
  BY <1>1, <1>3 DEF OpInv, Staged, SignedGranted, Signed, At
<1>7. /\ assertionState' \in {assertionState, o}
      /\ nextIndex' \in [Ops -> Nat]
      /\ assertionState' # assertionState => Len(op[o].creds) > 1
  BY <1>1 DEF PublishState, TypeOK
<1>8. assertionState' = o => IsState(o)'
  <2>1. CASE assertionState' = assertionState
    BY <1>4, <2>1, StateOfKept
  <2>2. CASE assertionState' # assertionState
    BY <1>1, <1>3, <1>4, <1>7, <2>2 DEF IsState, Kind, SameRequest, SameWork
  <2> QED BY <2>1, <2>2
<1>9. TypeOK' /\ OnePrompt' /\ OthersPrompts(o) /\ KeysKept(o)
  BY <1>1, <1>3, <1>7
     DEF TypeOK, PresenceTypeOK, Moved, presenceVars, OthersPrompts, OnePrompt,
         KeysKept, IInv
<1>10. StorageGranted'
  BY <1>1 DEF IInv, StorageGranted
<1> QED BY <1>3, <1>4, <1>5, <1>6, <1>7, <1>8, <1>9, <1>10 DEF Step, OpInv

LEMMA SignAssertionStep ==
  ASSUME IInv, NEW o \in Ops, SignAssertion(o)
  PROVE  Step(o)
<1> DEFINE cred == IF op[o].req.list # {} THEN op[o].cred ELSE op[o].creds[1].id
<1>1. CASE Finish(o, "Other")
  BY <1>1, StatusFacts, FinishStep DEF SignAssertion
<1>2. CASE keys[cred] = op[o].req.rp /\ Respond(o, cred, o)
  <2>1. op[o].stage = "signing" /\ Kind(o, "get") /\ OpInv(o) /\ op[o] \in Op
    BY DEF SignAssertion, At, IInv, TypeOK
  <2>2. Sealed(o)
    BY <2>1 DEF OpInv, Staged, At, Kind
  <2>3. cred \in Ids
    <3>1. CASE op[o].req.list # {}
      BY <2>1, <3>1 DEF OpInv, Matched
    <3>2. CASE op[o].req.list = {}
      <4>1. op[o].creds \in Seq(Credential) /\ Len(op[o].creds) > 0
        BY <2>1, <3>2 DEF OpInv, Matched, Op
      <4>2. op[o].creds[1] \in Credential
        BY <4>1
      <4> QED BY <3>2, <4>2 DEF Credential
    <3> QED BY <3>1, <3>2
  <2> QED BY <1>2, <2>1, <2>2, <2>3, RespondStep DEF SignAssertion, Kind
<1> QED BY <1>1, <1>2 DEF SignAssertion

\* A step of GetNextAssertion that goes on, on a granted sign-in once it
\* has loaded one.
LEMMA NextOnward ==
  ASSUME IInv, NEW o \in Ops, Kind(o, "next"), op[o].stage \in {"called"} \cup NextStages,
         Moved(o), SameRequest(o),
         op'[o].creds = op[o].creds, op'[o].status = op[o].status,
         op'[o].stage \in NextStages \cup {"signing", "panicked"},
         op'[o].stage \notin {"found", "panicked"} =>
           \E f \in Ops : op'[o].from = f /\ IsState(f),
         op'[o].stage = "signing" => op'[o].cred \in Ids,
         nextIndex' \in [Ops -> Nat],
         UNCHANGED <<keys, storage, assertionState, presenceVars>>
  PROVE  Step(o)
<1>1. TypeOK /\ OpInv(o) /\ ~Sealed(o)
  BY DEF IInv, Sealed, NextStages
<1>2. Kept(o)
  BY <1>1, NotSealedKept
<1>3. OthersPrompts(o) /\ KeysKept(o) /\ StorageGranted' /\ OnePrompt'
  BY DEF OthersPrompts, KeysKept, presenceVars, IInv, StorageGranted, OnePrompt
<1>4. ASSUME NEW f \in Ops, IsState(f) PROVE IsState(f)'
  BY <1>2, <1>3, <1>4, AllKept DEF Kept
<1>5. Reading(o)'
  BY <1>4 DEF Reading, Reads, At, NextStages
<1>6. Staged(o)'
  BY <1>1 DEF OpInv, Staged, At, Kind, SameRequest, presenceVars, NextStages
<1>7. Matched(o)' /\ KeyGranted(o)'
  BY <1>1 DEF OpInv, Matched, KeyGranted, Kind, SameRequest
<1>8. SignedGranted(o)'
  BY <1>1 DEF OpInv, Staged, SignedGranted, Signed, At, NextStages
<1>9. TypeOK'
  BY <1>1 DEF TypeOK, PresenceTypeOK, Moved, presenceVars
<1>10. assertionState' \in {assertionState, None, o} /\ (assertionState' = o => IsState(o)')
  BY <1>2, StateOfKept
<1> QED BY <1>2, <1>3, <1>5, <1>6, <1>7, <1>8, <1>9, <1>10 DEF Step, OpInv

\* What GetNextAssertion works on when it has loaded a state.
LEMMA ReadsState ==
  ASSUME IInv, NEW o \in Ops, op[o].stage \in NextStages \ {"found"}
  PROVE  Kind(o, "next") /\ op[o].from \in Ops /\ IsState(op[o].from)
<1>1. Kind(o, "next")
  BY DEF IInv, OpInv, Staged, NextStages
<1> QED BY <1>1 DEF IInv, OpInv, Reading, Reads, NextStages

\* The steps that write more than the stage.
LEMMA LoadFacts ==
  ASSUME TypeOK, NEW o \in Ops, NEW f \in Ops, NEW alone \in BOOLEAN,
         op' = [op EXCEPT ![o] = [@ EXCEPT !.stage = "loaded", !.from = f, !.alone = alone]]
  PROVE  /\ Moved(o) /\ SameRequest(o)
         /\ op'[o].creds = op[o].creds /\ op'[o].status = op[o].status
         /\ op'[o].stage = "loaded" /\ op'[o].from = f /\ op'[o].alone = alone
<1> DEFINE r == [op[o] EXCEPT !.stage = "loaded", !.from = f, !.alone = alone]
<1>1. op[o] \in Op
  BY DEF TypeOK
<1>2. /\ r \in Op /\ r.stage = "loaded" /\ r.status = op[o].status
      /\ r.req = op[o].req /\ r.ended = op[o].ended /\ r.early = op[o].early
      /\ r.creds = op[o].creds /\ r.from = f /\ r.alone = alone
  BY <1>1 DEF Op, Stages, NextStages
<1>3. op' = [op EXCEPT ![o] = r]
  OBVIOUS
<1> HIDE DEF r
<1>4. Moved(o) /\ op'[o] = r
  BY <1>2, <1>3, Update
<1> QED BY <1>2, <1>4 DEF SameRequest

LEMMA IndexFacts ==
  ASSUME TypeOK, NEW o \in Ops, NEW s \in Stages, NEW n \in Nat,
         op' = [op EXCEPT ![o] = [@ EXCEPT !.stage = s, !.index = n]]
  PROVE  /\ Moved(o) /\ SameRequest(o)
         /\ op'[o].creds = op[o].creds /\ op'[o].status = op[o].status
         /\ op'[o].from = op[o].from /\ op'[o].alone = op[o].alone
         /\ op'[o].stage = s /\ op'[o].index = n
<1> DEFINE r == [op[o] EXCEPT !.stage = s, !.index = n]
<1>1. op[o] \in Op
  BY DEF TypeOK
<1>2. /\ r \in Op /\ r.stage = s /\ r.status = op[o].status
      /\ r.req = op[o].req /\ r.ended = op[o].ended /\ r.early = op[o].early
      /\ r.creds = op[o].creds /\ r.from = op[o].from /\ r.alone = op[o].alone
      /\ r.index = n
  BY <1>1 DEF Op
<1>3. op' = [op EXCEPT ![o] = r]
  OBVIOUS
<1> HIDE DEF r
<1>4. Moved(o) /\ op'[o] = r
  BY <1>2, <1>3, Update
<1> QED BY <1>2, <1>4 DEF SameRequest

LEMMA ReadFacts ==
  ASSUME IInv, NEW o \in Ops, ReadIndex(o)
  PROVE  /\ Moved(o) /\ SameRequest(o)
         /\ op'[o].creds = op[o].creds /\ op'[o].status = op[o].status
         /\ op'[o].from = op[o].from /\ op'[o].alone = op[o].alone
         /\ op'[o].stage = "advancing" /\ op'[o].index = nextIndex[op[o].from]
<1>1. TypeOK /\ op[o].from \in Ops
  BY ReadsState DEF ReadIndex, At, NextStages, IInv
<1>2. PICK n \in Nat : n = nextIndex[op[o].from]
  BY <1>1 DEF TypeOK
<1>3. op' = [op EXCEPT ![o] = [@ EXCEPT !.stage = "advancing", !.index = n]]
  BY <1>2 DEF ReadIndex
<1>4. "advancing" \in Stages
  BY DEF Stages, NextStages
<1>5. /\ Moved(o) /\ SameRequest(o)
      /\ op'[o].creds = op[o].creds /\ op'[o].status = op[o].status
      /\ op'[o].from = op[o].from /\ op'[o].alone = op[o].alone
      /\ op'[o].stage = "advancing" /\ op'[o].index = n
  BY ONLY o \in Ops, n \in Nat, <1>1, <1>3, <1>4, IndexFacts
<1> QED BY <1>2, <1>3, <1>5

LEMMA AdvanceFacts ==
  ASSUME IInv, NEW o \in Ops, AdvanceIndex(o)
  PROVE  /\ Moved(o) /\ SameRequest(o)
         /\ op'[o].creds = op[o].creds /\ op'[o].status = op[o].status
         /\ op'[o].from = op[o].from /\ op'[o].alone = op[o].alone
         /\ op'[o].stage = "checking" /\ op'[o].index = op[o].index + 1
         /\ op'[o].index \in Nat
         /\ nextIndex' = [nextIndex EXCEPT ![op[o].from] = op'[o].index]
<1>1. TypeOK
  BY DEF IInv
<1>2. PICK n \in Nat : n = op[o].index + 1
  BY <1>1 DEF TypeOK, Op
<1>3. /\ op' = [op EXCEPT ![o] = [@ EXCEPT !.stage = "checking", !.index = n]]
      /\ nextIndex' = [nextIndex EXCEPT ![op[o].from] = n]
  BY <1>2 DEF AdvanceIndex
<1>4. "checking" \in Stages
  BY DEF Stages, NextStages
<1>5. /\ Moved(o) /\ SameRequest(o)
      /\ op'[o].creds = op[o].creds /\ op'[o].status = op[o].status
      /\ op'[o].from = op[o].from /\ op'[o].alone = op[o].alone
      /\ op'[o].stage = "checking" /\ op'[o].index = n
  BY ONLY o \in Ops, n \in Nat, <1>1, <1>3, <1>4, IndexFacts
<1> QED BY <1>2, <1>3, <1>5

\* PickCredential takes the credential at the index, or panics past the end.
LEMMA PickFacts ==
  ASSUME IInv, NEW o \in Ops, NEW f \in Ops, op[o].from = f, PickCredential(o)
  PROVE  /\ Moved(o) /\ SameRequest(o)
         /\ op'[o].creds = op[o].creds /\ op'[o].status = op[o].status
         /\ op'[o].from = f /\ op'[o].alone = op[o].alone
         /\ \/ /\ op'[o].stage = "panicked"
               /\ ~(nextIndex[f] < Len(op[f].creds))
            \/ /\ op'[o].stage = "signing"
               /\ op'[o].index = nextIndex[f]
               /\ nextIndex[f] < Len(op[f].creds)
               /\ op'[o].cred \in Ids
               /\ op'[o].cred = op[f].creds[nextIndex[f] + 1].id
<1>1. TypeOK /\ op[o] \in Op
  BY DEF IInv, TypeOK
<1>2. PICK n \in Nat : n = nextIndex[f]
  BY <1>1 DEF TypeOK
<1>3. PICK s \in Seq(Credential) : s = op[f].creds
  BY <1>1 DEF TypeOK, Op
<1>4. CASE n >= Len(s)
  <2>1. Goto(o, "panicked")
    BY <1>2, <1>3, <1>4 DEF PickCredential, Panic
  <2>2. /\ Moved(o) /\ SameRequest(o) /\ SameWork(o)
        /\ op'[o].stage = "panicked" /\ op'[o].status = op[o].status
    BY <1>1, <2>1, StatusFacts, GotoFacts
  <2> QED BY <1>2, <1>3, <1>4, <2>2 DEF SameWork
<1>5. CASE ~(n >= Len(s))
  <2>1. PICK c \in Ids : c = s[n + 1].id
    <3>1. s[n + 1] \in Credential
      BY ONLY <1>5, n \in Nat, s \in Seq(Credential)
    <3> QED BY ONLY <3>1 DEF Credential
  <2> DEFINE r == [op[o] EXCEPT !.stage = "signing", !.index = n, !.cred = c]
  <2>2. op' = [op EXCEPT ![o] = r]
    BY <1>2, <1>3, <1>5, <2>1 DEF PickCredential, Panic
  <2>3. /\ r \in Op /\ r.stage = "signing" /\ r.status = op[o].status
        /\ r.req = op[o].req /\ r.ended = op[o].ended /\ r.early = op[o].early
        /\ r.creds = op[o].creds /\ r.from = op[o].from /\ r.alone = op[o].alone
        /\ r.index = n /\ r.cred = c
    BY <1>1 DEF Op, Stages
  <2> HIDE DEF r
  <2>4. Moved(o) /\ op'[o] = r
    BY <1>1, <2>2, <2>3, Update
  <2>5. n < Len(s)
    BY <1>5
  <2> QED BY <1>2, <1>3, <2>1, <2>3, <2>4, <2>5 DEF SameRequest
<1> QED BY <1>4, <1>5

LEMMA CheckStateStep ==
  ASSUME IInv, NEW o \in Ops, CheckState(o)
  PROVE  Step(o)
<1>1. /\ TypeOK /\ op[o].stage = "called" /\ Kind(o, "next")
      /\ Untouched /\ UNCHANGED presenceVars
  BY DEF CheckState, At, IInv
<1>2. CASE Finish(o, "NotAllowed")
  BY <1>1, <1>2, StatusFacts, FinishStep
<1>3. CASE Goto(o, "found")
  <2>1. /\ Moved(o) /\ SameRequest(o) /\ SameWork(o)
        /\ op'[o].stage = "found" /\ op'[o].status = op[o].status
    BY <1>1, <1>3, StatusFacts, GotoFacts
  <2> QED BY <1>1, <2>1, NextOnward DEF SameWork, Untouched, NextStages, TypeOK
<1> QED BY <1>2, <1>3 DEF CheckState

LEMMA LoadStateStep ==
  ASSUME IInv, NEW o \in Ops, LoadState(o)
  PROVE  Step(o)
<1>1. /\ TypeOK /\ op[o].stage = "found" /\ Kind(o, "next")
      /\ Untouched /\ UNCHANGED presenceVars
  BY DEF LoadState, At, IInv, OpInv, Staged, NextStages
<1>2. CASE assertionState = None
  <2>1. Goto(o, "panicked")
    BY <1>2 DEF LoadState, Panic
  <2>2. /\ Moved(o) /\ SameRequest(o) /\ SameWork(o)
        /\ op'[o].stage = "panicked" /\ op'[o].status = op[o].status
    BY <1>1, <2>1, StatusFacts, GotoFacts
  <2> QED BY <1>1, <2>2, NextOnward DEF SameWork, Untouched, NextStages, TypeOK
<1>3. CASE assertionState # None
  <2>1. PICK f \in Ops : f = assertionState
    BY <1>1, <1>3 DEF TypeOK
  <2>2. PICK alone \in BOOLEAN : alone = (Inside(f) = {})
    OBVIOUS
  <2>3. op' = [op EXCEPT ![o] = [@ EXCEPT !.stage = "loaded", !.from = f, !.alone = alone]]
    BY <1>3, <2>1, <2>2 DEF LoadState
  <2>4. /\ Moved(o) /\ SameRequest(o)
        /\ op'[o].creds = op[o].creds /\ op'[o].status = op[o].status
        /\ op'[o].stage = "loaded" /\ op'[o].from = f
    BY <1>1, <2>3, LoadFacts
  <2>5. IsState(f)
    BY <1>3, <2>1 DEF IInv, StateGranted
  <2> QED BY <1>1, <2>4, <2>5, NextOnward DEF Untouched, NextStages, TypeOK
<1> QED BY <1>2, <1>3

LEMMA ReadIndexStep ==
  ASSUME IInv, NEW o \in Ops, ReadIndex(o)
  PROVE  Step(o)
<1>1. TypeOK /\ op[o].stage = "loaded" /\ Untouched /\ UNCHANGED presenceVars
  BY DEF ReadIndex, At, IInv
<1>2. Kind(o, "next") /\ op[o].from \in Ops /\ IsState(op[o].from)
  BY <1>1, ReadsState DEF NextStages
<1> QED BY <1>1, <1>2, ReadFacts, NextOnward DEF Untouched, NextStages, TypeOK

LEMMA AdvanceIndexStep ==
  ASSUME IInv, NEW o \in Ops, AdvanceIndex(o)
  PROVE  Step(o)
<1>1. /\ TypeOK /\ op[o].stage = "advancing"
      /\ UNCHANGED <<keys, storage, assertionState, presenceVars>>
  BY DEF AdvanceIndex, At, IInv
<1>2. Kind(o, "next") /\ op[o].from \in Ops /\ IsState(op[o].from)
  BY <1>1, ReadsState DEF NextStages
<1>3. nextIndex' \in [Ops -> Nat]
  BY <1>1, AdvanceFacts DEF TypeOK
<1> QED BY <1>1, <1>2, <1>3, AdvanceFacts, NextOnward DEF NextStages

LEMMA CheckIndexStep ==
  ASSUME IInv, NEW o \in Ops, CheckIndex(o)
  PROVE  Step(o)
<1>1. /\ TypeOK /\ op[o].stage = "checking" /\ Untouched /\ UNCHANGED presenceVars
  BY DEF CheckIndex, At, IInv
<1>2. Kind(o, "next") /\ op[o].from \in Ops /\ IsState(op[o].from)
  BY <1>1, ReadsState DEF NextStages
<1>3. PICK s \in {"dropping", "picking"} : Goto(o, s)
  BY DEF CheckIndex
<1>4. /\ Moved(o) /\ SameRequest(o) /\ SameWork(o)
      /\ op'[o].stage = s /\ op'[o].status = op[o].status
  BY <1>1, <1>3, StatusFacts, GotoFacts
<1> QED BY <1>1, <1>2, <1>4, NextOnward DEF SameWork, Untouched, NextStages, TypeOK

LEMMA DropStateStep ==
  ASSUME IInv, NEW o \in Ops, DropState(o)
  PROVE  Step(o)
<1>1. /\ TypeOK /\ OpInv(o) /\ op[o].stage = "dropping" /\ ~Sealed(o)
      /\ UNCHANGED <<keys, storage, nextIndex, presenceVars>>
      /\ assertionState' = None /\ Finish(o, "NotAllowed")
  BY DEF DropState, At, IInv, Sealed
<1>2. Kept(o)
  BY <1>1, NotSealedKept
<1>3. OthersPrompts(o) /\ KeysKept(o) /\ StorageGranted' /\ OnePrompt'
  BY <1>1 DEF OthersPrompts, KeysKept, presenceVars, IInv, StorageGranted, OnePrompt
<1>4. Moved(o) /\ OpInv(o)'
  BY <1>1, <1>2, StatusFacts, FinishInv
<1>5. TypeOK'
  BY <1>1, <1>4 DEF TypeOK, PresenceTypeOK, Moved, presenceVars
<1> QED BY <1>1, <1>2, <1>3, <1>4, <1>5, NoneAssumption DEF Step

LEMMA PickCredentialStep ==
  ASSUME IInv, NEW o \in Ops, PickCredential(o)
  PROVE  Step(o)
<1>1. /\ TypeOK /\ op[o].stage = "picking" /\ Untouched /\ UNCHANGED presenceVars
  BY DEF PickCredential, At, IInv
<1>2. Kind(o, "next") /\ op[o].from \in Ops /\ IsState(op[o].from)
  BY <1>1, ReadsState DEF NextStages
<1>3. PICK f \in Ops : f = op[o].from
  BY <1>2
<1>4. /\ Moved(o) /\ SameRequest(o)
      /\ op'[o].creds = op[o].creds /\ op'[o].status = op[o].status
      /\ op'[o].from = f /\ op'[o].stage \in {"panicked", "signing"}
      /\ op'[o].stage = "signing" => op'[o].cred \in Ids
  BY <1>3, PickFacts
<1> QED BY <1>1, <1>2, <1>3, <1>4, NextOnward DEF Untouched, NextStages, TypeOK

LEMMA SignNextStep ==
  ASSUME IInv, NEW o \in Ops, SignNext(o)
  PROVE  Step(o)
<1>1. /\ TypeOK /\ OpInv(o) /\ op[o].stage = "signing" /\ Kind(o, "next")
      /\ Untouched /\ UNCHANGED presenceVars
  BY DEF SignNext, At, IInv
<1>2. CASE Finish(o, "Other")
  BY <1>1, <1>2, StatusFacts, FinishStep
<1>3. ASSUME ~Finish(o, "Other")
      PROVE  Step(o)
  <2>1. PICK f \in Ops : f = op[o].from
    BY <1>1 DEF OpInv, Reading, Reads
  <2>2. PICK cred \in Ids : cred = op[o].cred
    BY <1>1 DEF OpInv, Reading, Reads, At
  <2>3. Sealed(f) /\ op[f].req.kind = "get"
    BY <1>1, <2>1 DEF OpInv, Reading, Reads, IsState, Kind
  <2>4. keys[cred] = op[f].req.rp /\ Respond(o, cred, f)
    BY <1>3, <2>1, <2>2 DEF SignNext
  <2> QED BY <1>1, <2>3, <2>4, RespondStep DEF Kind
<1> QED BY <1>2, <1>3

-----------------------------------------------------------------------------
(* The invariant.                                                          *)

LEMMA InitIInv == Init => IInv
<1> SUFFICES ASSUME Init PROVE IInv
  OBVIOUS
<1>1. IdleOp \in Op /\ NoRequest.kind = "none"
  BY DEF IdleOp, NoRequest, Op, Stages, Statuses
<1>2. \A o \in Ops : op[o] = IdleOp /\ prompt[o] = "none" /\ verdict[o] = "none"
  BY DEF Init, PresenceInit
<1>3. \A o \in Ops : keys[o] = None
  BY NamesAssumption DEF Init, OldIds, Ids
<1>4. ASSUME NEW c \in OldCreds
      PROVE  c \in Credential /\ c.rp \in AllowedRPs /\ keys[c.id] = c.rp
  <2>1. c.rp \in AllowedRPs /\ c \in Credential /\ c.id \in Ids
    BY OldCredsAssumption, NamesAssumption DEF Credential, Ids, OldIds
  <2>2. \E d \in OldCreds : d.id = c.id
    OBVIOUS
  <2>3. (CHOOSE d \in OldCreds : d.id = c.id) = c
    BY OldCredsAssumption
  <2>4. keys[c.id] = (CHOOSE d \in OldCreds : d.id = c.id).rp
    BY <2>1, <2>2 DEF Init
  <2> QED BY <2>1, <2>3, <2>4
<1>5. keys \in [Ids -> RPs \cup {None}]
  <2>1. ASSUME NEW i \in Ids, \E c \in OldCreds : c.id = i
        PROVE  (CHOOSE c \in OldCreds : c.id = i).rp \in RPs
    BY <1>4, <2>1 DEF Credential
  <2> QED BY <2>1 DEF Init
<1>6. TypeOK
  BY <1>1, <1>4, <1>5 DEF Init, TypeOK, PresenceInit, PresenceTypeOK
<1>7. OnePrompt
  BY NoneAssumption DEF Init, PresenceInit, OnePrompt
<1>8. ASSUME NEW o \in Ops PROVE OpInv(o)
  <2>1. /\ op[o].stage = "unused" /\ op[o].status = "none" /\ op[o].early = FALSE
        /\ op[o].req.kind = "none" /\ prompt[o] = "none" /\ keys[o] = None
    BY <1>1, <1>2, <1>3 DEF IdleOp
  <2> QED BY <2>1 DEF OpInv, Staged, Matched, Reading, Reads, SignedGranted, Signed,
                     KeyGranted, At, Kind
<1>9. StateGranted
  BY DEF Init, StateGranted
<1>10. StorageGranted
  BY <1>4, OldCredsAssumption DEF Init, StorageGranted
<1> QED BY <1>6, <1>7, <1>8, <1>9, <1>10 DEF IInv

\* Every step of an operation or of its prompt is one Step.
LEMMA OpStep ==
  ASSUME IInv, NEW o \in Ops,
         \/ \E q \in Requests : HandleCommand(o, q)
         \/ EndContext(o)
         \/ Handle(o)
         \/ ReceiveResult(o)
         \/ PromptStep(o)
  PROVE  Step(o)
<1>1. CASE \E q \in Requests : HandleCommand(o, q)
  BY <1>1, HandleCommandStep
<1>2. CASE EndContext(o)
  BY <1>2, EndContextStep
<1>3. CASE Handle(o)
  BY <1>3, MakeCredentialStep, RegisterKeyStep, SaveCredentialStep, AttestStep,
     GetAssertionStep, MatchStep, PublishStateStep, SignAssertionStep,
     CheckStateStep, LoadStateStep, ReadIndexStep, AdvanceIndexStep, CheckIndexStep,
     DropStateStep, PickCredentialStep, SignNextStep, AskPresenceStep,
     PresenceTimeoutStep DEF Handle
<1>4. CASE ReceiveResult(o)
  BY <1>4, ReceiveResultStep
<1>5. CASE PromptStep(o)
  BY <1>5, PromptSteps
<1> QED BY <1>1, <1>2, <1>3, <1>4, <1>5

LEMMA NextIInv == IInv /\ [Next]_vars => IInv'
<1> SUFFICES ASSUME IInv, [Next]_vars PROVE IInv'
  OBVIOUS
<1>1. CASE UNCHANGED vars
  BY <1>1 DEF vars, presenceVars, IInv, TypeOK, PresenceTypeOK, OnePrompt, OpInv,
              Staged, Matched, Reading, Reads, SignedGranted, KeyGranted, StateGranted,
              StorageGranted, Sealed, IsState, At, Kind, Signed, IsRPIDAllowed
<1>2. ASSUME NEW o \in Ops, Step(o) PROVE IInv'
  BY <1>2, StepKeepsIInv
<1> QED BY <1>1, <1>2, OpStep DEF Next

\* The invariant that the theorems below are read off.
THEOREM Invariance == Spec => []IInv
BY InitIInv, NextIInv, PTL DEF Spec

-----------------------------------------------------------------------------
(* The properties.                                                         *)

\* Every variable keeps its type.
THEOREM TypeCorrect == Spec => []TypeOK
<1>1. IInv => TypeOK
  BY DEF IInv
<1> QED BY <1>1, Invariance, PTL

\* At most one fingerprint prompt is up, and ConfirmPresence's gate is held
\* exactly as long as it is.
THEOREM OnlyOnePrompt == Spec => []OnePrompt
<1>1. IInv => OnePrompt
  BY DEF IInv
<1> QED BY <1>1, Invariance, PTL

\* Every response that claims user verification was granted by a matching
\* finger for the request whose client data hash is signed.
THEOREM SignaturesVerified == Spec => []UserVerified
<1>1. ASSUME IInv PROVE UserVerified
  <2> SUFFICES ASSUME NEW o \in Ops, Signed(o)
               PROVE  LET from == op[o].from
                      IN /\ from \in Ops
                         /\ verdict[from] = "ok"
                         /\ op[from].req.kind = IF Kind(o, "make") THEN "make" ELSE "get"
                         /\ op[from].req.rp \in AllowedRPs
                         /\ keys[op[o].cred] = op[from].req.rp
    BY DEF UserVerified
  <2>1. SignedGranted(o)
    BY <1>1 DEF IInv, OpInv
  <2> QED BY <2>1 DEF SignedGranted, Sealed
<1> QED BY <1>1, Invariance, PTL

\* An operation whose context ended before the finger matched leaves no
\* key, no credential, no state for GetNextAssertion and no signature.
THEOREM AbortsLeaveNothing == Spec => []AbortedLeavesNothing
<1>1. ASSUME IInv PROVE AbortedLeavesNothing
  <2> SUFFICES ASSUME NEW o \in Ops, op[o].early
               PROVE  /\ ~(Signed(o) /\ op[o].from = o)
                      /\ keys[o] = None
                      /\ assertionState # o
                      /\ \A c \in storage : c.id # o
    BY DEF AbortedLeavesNothing
  <2>1. OpInv(o) /\ ~Sealed(o) /\ ~IsState(o)
    BY <1>1 DEF IInv, Sealed, IsState
  <2>2. ~(Signed(o) /\ op[o].from = o)
    BY <2>1 DEF OpInv, SignedGranted
  <2>3. keys[o] = None
    BY <2>1 DEF OpInv, KeyGranted
  <2>4. assertionState # o
    BY <1>1, <2>1, NoneAssumption DEF IInv, StateGranted
  <2>5. ASSUME NEW c \in storage, c.id = o PROVE FALSE
    BY <1>1, <2>3, <2>5, NamesAssumption DEF IInv, StorageGranted
  <2> QED BY <2>2, <2>3, <2>4, <2>5
<1> QED BY <1>1, Invariance, PTL

\* One discoverable credential per account, with a key of its RP, loaded at
\* start or granted by a matching finger.
THEOREM StorageStaysSound == Spec => []StorageSound
<1>1. ASSUME IInv PROVE StorageSound
  <2>1. ASSUME NEW c \in storage, c.id \in Ops PROVE verdict[c.id] = "ok"
    <3>1. PICK p \in Ops : p = c.id
      BY <2>1
    <3>2. keys[p] # None
      BY <1>1, <3>1, NamesAssumption DEF IInv, StorageGranted
    <3>3. Sealed(p)
      BY <1>1, <3>2 DEF IInv, OpInv, KeyGranted
    <3> QED BY <3>1, <3>3 DEF Sealed
  <2> QED BY <1>1, <2>1 DEF StorageSound, IInv, StorageGranted
<1> QED BY <1>1, Invariance, PTL

-----------------------------------------------------------------------------
(* The refinement of the abstract consent.                                 *)

ConsentOf(o) ==
  IF op[o].early THEN "withdrawn" ELSE IF verdict[o] = "ok" THEN "given" ELSE "open"
HasKey(o) == keys[o] # None
SignedFor(o) == IF Signed(o) THEN op[o].from ELSE None

\* A prompt whose verdict is still to come has none yet.
Undecided ==
  \A o \in Ops : prompt[o] \in {"none", "running"} => verdict[o] = "none"

LEMMA UndecidedInvariant == Spec => []Undecided
<1>1. Init => Undecided
  BY DEF Init, PresenceInit, Undecided
<1>2. IInv /\ Undecided /\ [Next]_vars => Undecided'
  <2> SUFFICES ASSUME IInv, Undecided, [Next]_vars PROVE Undecided'
    OBVIOUS
  <2>1. CASE UNCHANGED presenceVars
    BY <2>1 DEF presenceVars, Undecided
  <2>2. ASSUME NEW o \in Ops, AskPresence(o) PROVE Undecided'
    BY <2>2 DEF IInv, TypeOK, PresenceTypeOK, Undecided, AskPresence, ConfirmPresence,
                PresenceBusy, presenceVars, OpInv, Staged, At
  <2>3. ASSUME NEW o \in Ops, ReceiveResult(o) \/ PromptStep(o) PROVE Undecided'
    BY <2>3 DEF IInv, TypeOK, PresenceTypeOK, Undecided, ReceiveResult, DeliverResult,
                PromptStep, FingerprintResult, DropResult, Release
  <2>4. ASSUME NEW o \in Ops, Handle(o), ~AskPresence(o) PROVE UNCHANGED presenceVars
    BY <2>4 DEF Handle, MakeCredential, RegisterKey, SaveCredential, Attest, GetAssertion,
                Match, PublishState, SignAssertion, CheckState, LoadState, ReadIndex,
                AdvanceIndex, CheckIndex, DropState, PickCredential, SignNext,
                PresenceTimeout
  <2>5. ASSUME NEW o \in Ops, (\E r \in Requests : HandleCommand(o, r)) \/ EndContext(o)
        PROVE  UNCHANGED presenceVars
    BY <2>5 DEF HandleCommand, EndContext
  <2>6. UNCHANGED vars => UNCHANGED presenceVars
    BY DEF vars
  <2> QED BY <2>1, <2>2, <2>3, <2>4, <2>5, <2>6 DEF Next
<1> QED BY <1>1, <1>2, Invariance, PTL DEF Spec

\* Where a step of o leaves consents and keys alone, it signs a response on
\* a given consent or is not seen at all.
LEMMA SignRefines ==
  ASSUME IInv, IInv', NEW o \in Ops, Step(o), ~At(o, "done"),
         op'[o].early = op[o].early, verdict'[o] = verdict[o], keys'[o] = keys[o]
  PROVE  [Consent!Next]_(Consent!vars)
<1>1. ~Signed(o)
  BY DEF IInv, OpInv, Staged, Signed
<1>2. ASSUME NEW p \in Ops
      PROVE  ConsentOf(p)' = ConsentOf(p) /\ HasKey(p)' = HasKey(p)
  BY DEF Step, Moved, OthersPrompts, KeysKept, ConsentOf, HasKey
<1>3. ASSUME NEW p \in Ops, p # o PROVE SignedFor(p)' = SignedFor(p)
  BY <1>3 DEF Step, Moved, SignedFor, Signed
<1>4. SignedFor(o) = None
  BY <1>1 DEF SignedFor
<1>5. UNCHANGED <<[p \in Ops |-> ConsentOf(p)], [p \in Ops |-> HasKey(p)]>>
  BY <1>2
<1>6. CASE ~Signed(o)'
  <2>1. ASSUME NEW p \in Ops PROVE SignedFor(p)' = SignedFor(p)
    BY <1>3, <1>4, <1>6 DEF SignedFor
  <2>2. UNCHANGED [p \in Ops |-> SignedFor(p)]
    BY <2>1
  <2> QED BY <1>5, <2>2 DEF Consent!vars, ConsentOf, HasKey, SignedFor
<1>7. CASE Signed(o)'
  <2>1. PICK by \in Ops : by = op'[o].from /\ Sealed(by)'
    BY <1>7 DEF IInv, OpInv, SignedGranted
  <2>2. ConsentOf(by) = "given"
    BY <1>2, <2>1 DEF Sealed, ConsentOf
  <2>3. [p \in Ops |-> SignedFor(p)]' = [[p \in Ops |-> SignedFor(p)] EXCEPT ![o] = by]
    BY <1>3, <1>7, <2>1 DEF SignedFor
  <2>4. Consent!Sign(o, by)
    BY <1>4, <1>5, <2>2, <2>3 DEF Consent!Sign, ConsentOf, HasKey, SignedFor
  <2> QED BY <2>4 DEF Consent!Next
<1> QED BY <1>6, <1>7

\* None of the ways to move an operation touches its request, when its
\* context ended or what it has read of an assertion state.
Keeps(o) ==
  /\ op'[o].req = op[o].req /\ op'[o].early = op[o].early
  /\ op'[o].index = op[o].index /\ op'[o].alone = op[o].alone

LEMMA GotoKeeps ==
  ASSUME IInv, NEW o \in Ops, NEW s, Goto(o, s)
  PROVE  Keeps(o) /\ op'[o].stage = s /\ op'[o].from = op[o].from
<1> DEFINE r == [op[o] EXCEPT !.stage = s]
<1>1. op \in [Ops -> Op]
  BY DEF IInv, TypeOK
<1>2. /\ r.early = op[o].early /\ r.req = op[o].req /\ r.from = op[o].from
      /\ r.index = op[o].index /\ r.alone = op[o].alone /\ r.stage = s
  BY <1>1 DEF Op
<1>3. op' = [op EXCEPT ![o] = r]
  BY DEF Goto
<1> HIDE DEF r
<1> QED BY <1>1, <1>2, <1>3 DEF Keeps

LEMMA FinishKeeps ==
  ASSUME IInv, NEW o \in Ops, NEW s, Finish(o, s)
  PROVE  Keeps(o) /\ op'[o].stage = "done" /\ op'[o].from = op[o].from
<1> DEFINE r == [op[o] EXCEPT !.stage = "done", !.status = s]
<1>1. op \in [Ops -> Op]
  BY DEF IInv, TypeOK
<1>2. /\ r.early = op[o].early /\ r.req = op[o].req /\ r.from = op[o].from
      /\ r.index = op[o].index /\ r.alone = op[o].alone /\ r.stage = "done"
  BY <1>1 DEF Op
<1>3. op' = [op EXCEPT ![o] = r]
  BY DEF Finish
<1> HIDE DEF r
<1> QED BY <1>1, <1>2, <1>3 DEF Keeps

LEMMA RespondKeeps ==
  ASSUME IInv, NEW o \in Ops, NEW c, NEW f, Respond(o, c, f)
  PROVE  Keeps(o) /\ op'[o].stage = "done" /\ op'[o].from = f
<1> DEFINE r == [op[o] EXCEPT !.stage = "done", !.status = "Success", !.cred = c, !.from = f]
<1>1. op \in [Ops -> Op]
  BY DEF IInv, TypeOK
<1>2. /\ r.early = op[o].early /\ r.req = op[o].req /\ r.from = f
      /\ r.index = op[o].index /\ r.alone = op[o].alone /\ r.stage = "done"
  BY <1>1 DEF Op
<1>3. op' = [op EXCEPT ![o] = r]
  BY DEF Respond
<1> HIDE DEF r
<1> QED BY <1>1, <1>2, <1>3 DEF Keeps

LEMMA HandleCommandKeeps ==
  ASSUME IInv, NEW o \in Ops, NEW q \in Requests, HandleCommand(o, q)
  PROVE  /\ At(o, "unused") /\ op'[o].stage \in {"called", "done"}
         /\ op'[o].early = op[o].early /\ op'[o].from = op[o].from
         /\ op'[o].stage = "done" => q.kind \in {"info", "bad"} /\ op'[o].req = q
<1> DEFINE r == [op[o] EXCEPT
               !.req = q,
               !.stage = IF q.kind \in {"info", "bad"} THEN "done" ELSE "called",
               !.status = CASE q.kind = "info" -> "Success"
                            [] q.kind = "bad" -> "Invalid"
                            [] OTHER -> "none"]
<1>1. op \in [Ops -> Op]
  BY DEF IInv, TypeOK
<1>2. /\ r.early = op[o].early /\ r.from = op[o].from /\ r.req = q
      /\ r.stage = IF q.kind \in {"info", "bad"} THEN "done" ELSE "called"
  BY <1>1 DEF Op
<1>3. op' = [op EXCEPT ![o] = r]
  BY DEF HandleCommand
<1>4. At(o, "unused")
  BY DEF HandleCommand
<1> HIDE DEF r
<1> QED BY <1>1, <1>2, <1>3, <1>4

LEMMA MatchKeeps ==
  ASSUME IInv, NEW o \in Ops, Match(o)
  PROVE  At(o, "matching") /\ Keeps(o) /\ op'[o].stage \in {"asking", "done"}
<1>1. op \in [Ops -> Op]
  BY DEF IInv, TypeOK
<1>2. At(o, "matching")
  BY DEF Match
<1>3. ASSUME NEW i, op' = [op EXCEPT ![o] = [@ EXCEPT !.stage = "asking", !.cred = i]]
      PROVE  Keeps(o) /\ op'[o].stage = "asking"
  <2> DEFINE r == [op[o] EXCEPT !.stage = "asking", !.cred = i]
  <2>1. /\ r.early = op[o].early /\ r.req = op[o].req /\ r.stage = "asking"
        /\ r.index = op[o].index /\ r.alone = op[o].alone
    BY <1>1 DEF Op
  <2>2. op' = [op EXCEPT ![o] = r]
    BY <1>3
  <2> HIDE DEF r
  <2> QED BY <1>1, <2>1, <2>2 DEF Keeps
<1>4. ASSUME NEW c, op' = [op EXCEPT ![o] = [@ EXCEPT !.stage = "asking", !.creds = c]]
      PROVE  Keeps(o) /\ op'[o].stage = "asking"
  <2> DEFINE r == [op[o] EXCEPT !.stage = "asking", !.creds = c]
  <2>1. /\ r.early = op[o].early /\ r.req = op[o].req /\ r.stage = "asking"
        /\ r.index = op[o].index /\ r.alone = op[o].alone
    BY <1>1 DEF Op
  <2>2. op' = [op EXCEPT ![o] = r]
    BY <1>4
  <2> HIDE DEF r
  <2> QED BY <1>1, <2>1, <2>2 DEF Keeps
<1>5. \/ \E i : op' = [op EXCEPT ![o] = [@ EXCEPT !.stage = "asking", !.cred = i]]
      \/ \E c : op' = [op EXCEPT ![o] = [@ EXCEPT !.stage = "asking", !.creds = c]]
      \/ Finish(o, "NoCredentials")
  BY DEF Match
<1> QED BY <1>2, <1>3, <1>4, <1>5, FinishKeeps

\* A step of GetNextAssertion on the assertion state.
NextStep(o) ==
  \/ CheckState(o) \/ LoadState(o) \/ ReadIndex(o) \/ AdvanceIndex(o)
  \/ CheckIndex(o) \/ DropState(o) \/ PickCredential(o)

LEMMA NextStepKeeps ==
  ASSUME IInv, NEW o \in Ops, NextStep(o)
  PROVE  ~At(o, "done") /\ op'[o].early = op[o].early
<1>1. TypeOK
  BY DEF IInv
<1>2. CASE CheckState(o) \/ CheckIndex(o) \/ DropState(o)
  BY <1>2, GotoKeeps, FinishKeeps DEF CheckState, CheckIndex, DropState, At, Keeps
<1>3. CASE LoadState(o)
  BY <1>1, <1>3, LoadFacts, GotoKeeps DEF LoadState, Panic, At, Keeps, SameRequest, TypeOK
<1>4. CASE ReadIndex(o)
  BY <1>4, ReadFacts DEF ReadIndex, At, SameRequest
<1>5. CASE AdvanceIndex(o)
  BY <1>5, AdvanceFacts DEF AdvanceIndex, At, SameRequest
<1>6. CASE PickCredential(o)
  <2>1. At(o, "picking") /\ op[o].from \in Ops
    BY <1>6, ReadsState DEF PickCredential, At, NextStages
  <2> QED BY <1>6, <2>1, PickFacts DEF At, SameRequest
<1> QED BY <1>2, <1>3, <1>4, <1>5, <1>6 DEF NextStep

\* A step of the handler of o.
LEMMA HandleRefines ==
  ASSUME IInv, IInv', NEW o \in Ops, Step(o),
         Handle(o) \/ ReceiveResult(o) \/ \E r \in Requests : HandleCommand(o, r)
  PROVE  [Consent!Next]_(Consent!vars)
<1>1. op[o] \in Op /\ op \in [Ops -> Op]
  BY DEF IInv, TypeOK
<1>2. ~At(o, "done") /\ op'[o].early = op[o].early
  <2>1. CASE MakeCredential(o) \/ RegisterKey(o) \/ SaveCredential(o) \/ Attest(o)
    BY <2>1, GotoKeeps, FinishKeeps, RespondKeeps
       DEF MakeCredential, RegisterKey, SaveCredential, Attest, At, Keeps
  <2>2. CASE GetAssertion(o) \/ PublishState(o) \/ SignAssertion(o)
    BY <2>2, GotoKeeps, FinishKeeps, RespondKeeps
       DEF GetAssertion, PublishState, SignAssertion, At, Keeps
  <2>3. CASE SignNext(o)
    BY <2>3, FinishKeeps, RespondKeeps DEF SignNext, At, Keeps
  <2>4. CASE AskPresence(o) \/ PresenceTimeout(o) \/ ReceiveResult(o)
    BY <2>4, GotoKeeps, FinishKeeps DEF AskPresence, PresenceTimeout, ReceiveResult, At, Keeps
  <2> QED BY <2>1, <2>2, <2>3, <2>4, HandleCommandKeeps, MatchKeeps, NextStepKeeps
          DEF Handle, NextStep, At, Keeps
<1>3. verdict'[o] = verdict[o]
  BY DEF Handle, MakeCredential, RegisterKey, SaveCredential, Attest, GetAssertion,
         Match, PublishState, SignAssertion, CheckState, LoadState, ReadIndex,
                AdvanceIndex, CheckIndex, DropState, PickCredential, SignNext,
         AskPresence, PresenceTimeout, ReceiveResult, HandleCommand, ConfirmPresence,
         PresenceBusy, DeliverResult, presenceVars
<1>4. CASE keys'[o] = keys[o]
  BY <1>2, <1>3, <1>4, SignRefines
<1>5. CASE keys'[o] # keys[o]
  <2>1. RegisterKey(o) /\ keys' = [keys EXCEPT ![o] = op[o].req.rp]
    BY <1>5 DEF Handle, MakeCredential, RegisterKey, SaveCredential, Attest, GetAssertion,
                Match, PublishState, SignAssertion, CheckState, LoadState, ReadIndex,
                AdvanceIndex, CheckIndex, DropState, PickCredential, SignNext,
                AskPresence, PresenceTimeout, ReceiveResult, HandleCommand, Untouched
  <2>2. ConsentOf(o) = "given" /\ ~HasKey(o)
    BY <2>1 DEF RegisterKey, IInv, OpInv, Staged, Sealed, At, ConsentOf, HasKey
  <2>3. Goto(o, IF op[o].req.rk THEN "saving" ELSE "signing")
    BY <1>5, <2>1 DEF RegisterKey
  <2>4. ~Signed(o) /\ ~Signed(o)'
    <3>1. ~At(o, "done")'
      BY <1>1, <2>3 DEF Goto, At, Op
    <3> QED BY <1>2, <3>1 DEF IInv, OpInv, Staged, Signed, At
  <2>5. ASSUME NEW p \in Ops PROVE ConsentOf(p)' = ConsentOf(p) /\ SignedFor(p)' = SignedFor(p)
    BY <1>2, <1>3, <2>4 DEF Step, Moved, OthersPrompts, ConsentOf, SignedFor, Signed
  <2>6. HasKey(o)' /\ \A p \in Ops : p # o => HasKey(p)' = HasKey(p)
    BY <1>5, <2>1, <2>2 DEF IInv, TypeOK, Ids, HasKey
  <2>7. UNCHANGED <<[p \in Ops |-> ConsentOf(p)], [p \in Ops |-> SignedFor(p)]>>
    BY <2>5
  <2>8. [p \in Ops |-> HasKey(p)]' = [[p \in Ops |-> HasKey(p)] EXCEPT ![o] = TRUE]
    BY <2>6 DEF HasKey
  <2>9. Consent!MakeKey(o)
    BY <2>2, <2>7, <2>8 DEF Consent!MakeKey, ConsentOf, HasKey, SignedFor
  <2> QED BY <2>9 DEF Consent!Next
<1> QED BY <1>4, <1>5

\* The verdict decides an operation's consent unless its context has ended.
LEMMA DecideRefines ==
  ASSUME IInv, Undecided, NEW o \in Ops, Step(o), EndContext(o) \/ PromptStep(o)
  PROVE  [Consent!Next]_(Consent!vars)
<1>1. op \in [Ops -> Op] /\ verdict \in [Ops -> {"none", "ok", "failed"}]
  BY DEF IInv, TypeOK, PresenceTypeOK
<1>2. ASSUME NEW p \in Ops PROVE HasKey(p)' = HasKey(p) /\ SignedFor(p)' = SignedFor(p)
  <2>1. keys' = keys
    BY DEF EndContext, PromptStep, Untouched
  <2>2. op'[p].status = op[p].status /\ op'[p].req = op[p].req /\ op'[p].from = op[p].from
    <3> DEFINE r == [op[o] EXCEPT !.ended = TRUE,
                                  !.early = prompt[o] \in {"none", "running"}]
    <3>1. r.status = op[o].status /\ r.req = op[o].req /\ r.from = op[o].from
      BY <1>1 DEF Op
    <3>2. op' = op \/ op' = [op EXCEPT ![o] = r]
      BY DEF EndContext, PromptStep
    <3> HIDE DEF r
    <3> QED BY <1>1, <3>1, <3>2
  <2> QED BY <2>1, <2>2 DEF HasKey, SignedFor, Signed
<1>3. UNCHANGED <<[p \in Ops |-> HasKey(p)], [p \in Ops |-> SignedFor(p)]>>
  BY <1>2
<1>4. ASSUME NEW p \in Ops, p # o PROVE ConsentOf(p)' = ConsentOf(p)
  BY <1>4 DEF Step, Moved, OthersPrompts, ConsentOf
<1>5. ConsentOf(o)' # ConsentOf(o) =>
        ConsentOf(o) = "open" /\ ConsentOf(o)' \in {"given", "withdrawn"}
  <2>1. CASE EndContext(o)
    <3>1. ~op[o].early
      BY <2>1 DEF EndContext, IInv, OpInv, Staged
    <3>2. op'[o].early = (prompt[o] \in {"none", "running"}) /\ verdict' = verdict
      BY <1>1, <2>1 DEF EndContext, presenceVars, Op
    <3> QED BY <3>1, <3>2 DEF Undecided, ConsentOf
  <2>2. CASE PromptStep(o)
    <3>1. op' = op
      BY <2>2 DEF PromptStep
    <3>2. verdict'[o] = verdict[o] \/ verdict[o] = "none"
      BY <2>2 DEF PromptStep, FingerprintResult, DropResult, DeliverResult, Release, Undecided
    <3> QED BY <3>1, <3>2 DEF ConsentOf
  <2> QED BY <2>1, <2>2
<1>6. CASE ConsentOf(o)' = ConsentOf(o)
  <2>1. UNCHANGED [p \in Ops |-> ConsentOf(p)]
    BY <1>4, <1>6
  <2> QED BY <1>3, <2>1 DEF Consent!vars, ConsentOf, HasKey, SignedFor
<1>7. ASSUME NEW c \in {"given", "withdrawn"}, ConsentOf(o)' = c, ConsentOf(o) = "open"
      PROVE  [Consent!Next]_(Consent!vars)
  <2>1. [p \in Ops |-> ConsentOf(p)]' = [[p \in Ops |-> ConsentOf(p)] EXCEPT ![o] = c]
    BY <1>4, <1>7
  <2>2. Consent!Decide(o, c)
    BY <1>3, <1>7, <2>1 DEF Consent!Decide, ConsentOf, HasKey, SignedFor
  <2> QED BY <2>2 DEF Consent!Next, Consent!Give, Consent!Withdraw
<1> QED BY <1>5, <1>6, <1>7

\* The command handler keeps the promise of UserConsent: a consent is
\* decided once, and only a given one makes a key or has a response signed.
THEOREM ConsentImplemented == Spec => ImplementsConsent
<1>1. Init => Consent!Init
  <2> SUFFICES ASSUME Init PROVE Consent!Init
    OBVIOUS
  <2>1. ASSUME NEW o \in Ops
        PROVE  ConsentOf(o) = "open" /\ ~HasKey(o) /\ SignedFor(o) = None
    <3>1. op[o].status = "none" /\ op[o].early = FALSE /\ verdict[o] = "none"
      BY DEF Init, PresenceInit, IdleOp
    <3>2. keys[o] = None
      BY NamesAssumption DEF Init, OldIds, Ids
    <3> QED BY <3>1, <3>2 DEF ConsentOf, HasKey, SignedFor, Signed
  <2> QED BY <2>1 DEF Consent!Init, ConsentOf, HasKey, SignedFor
<1>2. ASSUME IInv, IInv', Undecided, [Next]_vars PROVE [Consent!Next]_(Consent!vars)
  <2>1. CASE UNCHANGED vars
    BY <2>1 DEF vars, presenceVars, Consent!vars, Signed
  <2>2. ASSUME NEW o \in Ops,
               Handle(o) \/ ReceiveResult(o) \/ \E r \in Requests : HandleCommand(o, r)
        PROVE  [Consent!Next]_(Consent!vars)
    <3>1. Step(o)
      BY <1>2, <2>2, OpStep
    <3> QED BY <1>2, <2>2, <3>1, HandleRefines
  <2>3. ASSUME NEW o \in Ops, EndContext(o) \/ PromptStep(o)
        PROVE  [Consent!Next]_(Consent!vars)
    <3>1. Step(o)
      BY <1>2, <2>3, OpStep
    <3> QED BY <1>2, <2>3, <3>1, DecideRefines
  <2> QED BY <1>2, <2>1, <2>2, <2>3 DEF Next
<1> QED BY <1>1, <1>2, Invariance, UndecidedInvariant, PTL
        DEF Spec, ImplementsConsent, Consent!Spec

-----------------------------------------------------------------------------
(* GetNextAssertion goes through a list in order.                          *)

\* An operation has no list before it has loaded one, and one that it works
\* on stays a granted sign-in's.
FromGranted(o) ==
  /\ op[o].stage \in {"unused", "called", "found"} => op[o].from = None
  /\ Kind(o, "next") /\ op[o].from # None => op[o].from \in Ops /\ IsState(op[o].from)

\* A call that has picked its credential.
Ready(p) == At(p, "signing") \/ op[p].status = "Success"

\* At most one call is at work on the index, and it knows the index.
InsideOrdered(f) ==
  /\ \A p, q \in Inside(f) : p = q
  /\ \A p \in Inside(f) : ~At(p, "loaded") => op[p].index = nextIndex[f]
  /\ \A p \in Inside(f) : At(p, "picking") => nextIndex[f] < Len(op[f].creds)

\* Those that have written it have one each, and the credential there.
TakenOrdered(f) ==
  /\ \A p, q \in Taken(f) : op[p].index = op[q].index => p = q
  /\ {op[p].index : p \in Taken(f)} = 1 .. nextIndex[f]
  /\ \A p \in Taken(f) : ~At(p, "panicked") /\ (Ready(p) => Got(p, f))

\* The strengthening of NextInOrder and RangePanicNeedsOverlap, for one list.
Ordered(f) ==
  (\A p \in Calls(f) : op[p].alone) => InsideOrdered(f) /\ TakenOrdered(f)

OrderInv == \A o \in Ops : FromGranted(o) /\ Ordered(o)

\* o does not work on a list before or after the step.
Elsewhere(o) ==
  /\ ~Kind(o, "next") \/ op[o].from = None
  /\ ~Kind(o, "next")' \/ op'[o].from = None
  /\ op'[o].stage \in {"unused", "called", "found"} => op'[o].from = None

\* o has nothing to do with the index, or not any more.
Stays(o) ==
  /\ op'[o].from = op[o].from /\ op'[o].req = op[o].req
  /\ op'[o].index = op[o].index /\ op'[o].alone = op[o].alone
  /\ \/ op'[o].stage = op[o].stage
     \/ op[o].stage \in {"signing", "dropping"} /\ At(o, "done")'
  /\ Ready(o)' => Ready(o) /\ op'[o].cred = op[o].cred

Loads(o) ==
  /\ assertionState \in Ops
  /\ At(o, "found") /\ Kind(o, "next")
  /\ op'[o].req = op[o].req /\ op'[o].status # "Success"
  /\ op'[o].stage = "loaded" /\ op'[o].from = assertionState
  /\ op'[o].alone = (Inside(assertionState) = {})
  /\ UNCHANGED nextIndex

\* o works on the index of f's list.
OnList(o, f) ==
  /\ Kind(o, "next") /\ op[o].from = f /\ op[o].status # "Success"
  /\ op'[o].from = f /\ op'[o].req = op[o].req
  /\ op'[o].alone = op[o].alone /\ op'[o].status # "Success"

ReadsIndex(o, f) ==
  /\ OnList(o, f)
  /\ At(o, "loaded") /\ op'[o].stage = "advancing"
  /\ op'[o].index = nextIndex[f]
  /\ UNCHANGED nextIndex

WritesIndex(o, f) ==
  /\ OnList(o, f)
  /\ At(o, "advancing") /\ op'[o].stage = "checking"
  /\ op'[o].index = op[o].index + 1
  /\ nextIndex' = [nextIndex EXCEPT ![f] = op'[o].index]

ChecksIndex(o, f) ==
  /\ OnList(o, f)
  /\ At(o, "checking")
  /\ \/ op'[o].stage = "dropping"
     \/ op'[o].stage = "picking" /\ nextIndex[f] < Len(op[f].creds)
  /\ op'[o].index = op[o].index
  /\ UNCHANGED nextIndex

Picks(o, f) ==
  /\ OnList(o, f)
  /\ At(o, "picking")
  /\ \/ op'[o].stage = "panicked" /\ ~(nextIndex[f] < Len(op[f].creds))
     \/ /\ op'[o].stage = "signing"
        /\ op'[o].index = nextIndex[f]
        /\ nextIndex[f] < Len(op[f].creds)
        /\ op'[o].cred = op[f].creds[nextIndex[f] + 1].id
  /\ UNCHANGED nextIndex

\* Only PublishState starts an index anew.
IndexKept(o) ==
  \/ UNCHANGED nextIndex
  \/ At(o, "granted") /\ nextIndex' = [nextIndex EXCEPT ![o] = 0]

Turn(o) ==
  \/ (Elsewhere(o) \/ Stays(o)) /\ IndexKept(o)
  \/ Loads(o)
  \/ \E f \in Ops : ReadsIndex(o, f) \/ WritesIndex(o, f) \/ ChecksIndex(o, f) \/ Picks(o, f)

LEMMA NextStepTurn ==
  ASSUME IInv, NEW o \in Ops, FromGranted(o), NextStep(o)
  PROVE  Turn(o)
<1>1. TypeOK /\ OpInv(o)
  BY DEF IInv
<1>2. op[o].status # "Success"
  BY <1>1 DEF NextStep, CheckState, LoadState, ReadIndex, AdvanceIndex, CheckIndex,
              DropState, PickCredential, OpInv, Staged, At
<1>3. CASE CheckState(o)
  <2>1. Kind(o, "next") /\ op[o].from = None /\ UNCHANGED nextIndex
    BY <1>3 DEF CheckState, FromGranted, At, Untouched
  <2>2. op'[o].from = op[o].from
    BY <1>3, GotoKeeps, FinishKeeps DEF CheckState
  <2> QED BY <2>1, <2>2 DEF Turn, Elsewhere, IndexKept
<1>4. CASE LoadState(o) /\ assertionState = None
  <2>1. op[o].from = None /\ UNCHANGED nextIndex /\ Goto(o, "panicked")
    BY <1>4 DEF LoadState, FromGranted, At, Untouched, Panic
  <2>2. op'[o].from = op[o].from
    BY <2>1, GotoKeeps
  <2> QED BY <2>1, <2>2 DEF Turn, Elsewhere, IndexKept
<1>5. CASE LoadState(o) /\ assertionState # None
  <2>1. PICK f \in Ops : f = assertionState
    BY <1>1, <1>5 DEF TypeOK
  <2>2. PICK alone \in BOOLEAN : alone = (Inside(f) = {})
    OBVIOUS
  <2>3. op' = [op EXCEPT ![o] = [@ EXCEPT !.stage = "loaded", !.from = f, !.alone = alone]]
    BY <1>5, <2>1, <2>2 DEF LoadState
  <2>4. /\ SameRequest(o) /\ op'[o].status = op[o].status
        /\ op'[o].stage = "loaded" /\ op'[o].from = f /\ op'[o].alone = alone
    BY <1>1, <2>3, LoadFacts
  <2>5. At(o, "found") /\ Kind(o, "next") /\ UNCHANGED nextIndex
    BY <1>1, <1>5 DEF LoadState, Untouched, OpInv, Staged, At
  <2> QED BY <1>2, <2>1, <2>2, <2>4, <2>5 DEF Turn, Loads, SameRequest
<1>6. ASSUME op[o].stage \in NextStages \ {"found"}
      PROVE  Kind(o, "next") /\ \E f \in Ops : f = op[o].from
  BY <1>6, ReadsState
<1>7. CASE ReadIndex(o)
  <2>1. At(o, "loaded") /\ UNCHANGED nextIndex
    BY <1>7 DEF ReadIndex, Untouched
  <2>2. PICK f \in Ops : f = op[o].from /\ Kind(o, "next")
    BY <1>6, <2>1 DEF At, NextStages
  <2>3. ReadsIndex(o, f)
    BY <1>2, <1>7, <2>1, <2>2, ReadFacts DEF ReadsIndex, OnList, SameRequest
  <2> QED BY <2>3 DEF Turn
<1>8. CASE AdvanceIndex(o)
  <2>1. At(o, "advancing")
    BY <1>8 DEF AdvanceIndex
  <2>2. PICK f \in Ops : f = op[o].from /\ Kind(o, "next")
    BY <1>6, <2>1 DEF At, NextStages
  <2>3. WritesIndex(o, f)
    BY <1>2, <1>8, <2>1, <2>2, AdvanceFacts DEF WritesIndex, OnList, SameRequest
  <2> QED BY <2>3 DEF Turn
<1>9. CASE CheckIndex(o)
  <2>1. At(o, "checking") /\ UNCHANGED nextIndex
    BY <1>9 DEF CheckIndex, Untouched
  <2>2. PICK f \in Ops : f = op[o].from /\ Kind(o, "next")
    BY <1>6, <2>1 DEF At, NextStages
  <2>3. PICK s \in {"dropping", "picking"} :
          Goto(o, s) /\ (s = "picking" => nextIndex[f] < Len(op[f].creds))
    <3>1. nextIndex[f] \in Nat /\ Len(op[f].creds) \in Nat
      BY <1>1 DEF TypeOK, Op
    <3> QED BY <1>9, <2>2, <3>1 DEF CheckIndex
  <2>4. /\ SameRequest(o) /\ SameWork(o)
        /\ op'[o].stage = s /\ op'[o].status = op[o].status
    BY <1>1, <2>3, StatusFacts, GotoFacts
  <2>5. ChecksIndex(o, f)
    BY <1>2, <2>1, <2>2, <2>3, <2>4 DEF ChecksIndex, OnList, SameRequest, SameWork
  <2> QED BY <2>5 DEF Turn
<1>10. CASE DropState(o)
  <2>1. At(o, "dropping") /\ UNCHANGED nextIndex /\ Finish(o, "NotAllowed")
    BY <1>10 DEF DropState
  <2>2. /\ SameRequest(o) /\ SameWork(o)
        /\ op'[o].stage = "done" /\ op'[o].status = "NotAllowed"
    BY <1>1, <2>1, StatusFacts, FinishFacts
  <2>3. Stays(o)
    BY <2>1, <2>2 DEF Stays, SameRequest, SameWork, Ready, At
  <2> QED BY <2>1, <2>3 DEF Turn, IndexKept
<1>11. CASE PickCredential(o)
  <2>1. At(o, "picking") /\ UNCHANGED nextIndex
    BY <1>11 DEF PickCredential, Untouched
  <2>2. PICK f \in Ops : f = op[o].from /\ Kind(o, "next")
    BY <1>6, <2>1 DEF At, NextStages
  <2>3. Picks(o, f)
    BY <1>2, <1>11, <2>1, <2>2, PickFacts DEF Picks, OnList, SameRequest
  <2> QED BY <2>3 DEF Turn
<1> QED BY <1>3, <1>4, <1>5, <1>7, <1>8, <1>9, <1>10, <1>11 DEF NextStep

LEMMA HandleTurn ==
  ASSUME IInv, NEW o \in Ops, FromGranted(o), Handle(o) \/ ReceiveResult(o)
  PROVE  Turn(o)
<1>1. Staged(o) /\ TypeOK
  BY DEF IInv, OpInv
<1>2. ASSUME ~Kind(o, "next"), Keeps(o), IndexKept(o),
             op'[o].stage \notin {"unused", "called", "found"}
      PROVE  Turn(o)
  BY <1>2 DEF Keeps, Kind, Turn, Elsewhere
<1>3. CASE MakeCredential(o) \/ RegisterKey(o) \/ Attest(o)
  <2>1. ~Kind(o, "next") /\ Keeps(o) /\ op'[o].stage \notin {"unused", "called", "found"}
    BY <1>3, GotoKeeps, FinishKeeps, RespondKeeps
       DEF MakeCredential, RegisterKey, Attest, Kind
  <2>2. UNCHANGED nextIndex
    BY <1>3 DEF MakeCredential, RegisterKey, Attest, Untouched
  <2> QED BY <1>2, <2>1, <2>2 DEF IndexKept
<1>4. CASE SaveCredential(o) \/ AskPresence(o) \/ PresenceTimeout(o) \/ ReceiveResult(o)
  <2>1. ~Kind(o, "next")
    BY <1>1, <1>4 DEF SaveCredential, AskPresence, PresenceTimeout, ReceiveResult, Staged, Kind, At
  <2>2. Keeps(o) /\ op'[o].stage \notin {"unused", "called", "found"}
    BY <1>4, GotoKeeps, FinishKeeps
       DEF SaveCredential, AskPresence, PresenceTimeout, ReceiveResult
  <2>3. UNCHANGED nextIndex
    BY <1>4 DEF SaveCredential, AskPresence, PresenceTimeout, ReceiveResult, Untouched
  <2> QED BY <1>2, <2>1, <2>2, <2>3 DEF IndexKept
<1>5. CASE GetAssertion(o) \/ SignAssertion(o)
  <2>1. ~Kind(o, "next") /\ Keeps(o) /\ op'[o].stage \notin {"unused", "called", "found"}
    BY <1>5, GotoKeeps, FinishKeeps, RespondKeeps DEF GetAssertion, SignAssertion, Kind
  <2>2. UNCHANGED nextIndex
    BY <1>5 DEF GetAssertion, SignAssertion, Untouched
  <2> QED BY <1>2, <2>1, <2>2 DEF IndexKept
<1>6. CASE Match(o)
  <2>1. ~Kind(o, "next") /\ Keeps(o) /\ op'[o].stage \notin {"unused", "called", "found"}
    BY <1>1, <1>6, MatchKeeps DEF Staged, Kind, At
  <2>2. UNCHANGED nextIndex
    BY <1>6 DEF Match, Untouched
  <2> QED BY <1>2, <2>1, <2>2 DEF IndexKept
<1>7. CASE PublishState(o)
  <2>1. ~Kind(o, "next") /\ Keeps(o) /\ op'[o].stage \notin {"unused", "called", "found"}
    BY <1>7, GotoKeeps DEF PublishState, Kind
  <2>2. IndexKept(o)
    BY <1>7 DEF PublishState, IndexKept
  <2> QED BY <1>2, <2>1, <2>2
<1>8. CASE SignNext(o)
  <2>1. At(o, "signing") /\ UNCHANGED nextIndex
    BY <1>8 DEF SignNext, Untouched
  <2>2. CASE Finish(o, "Other")
    <3>1. /\ SameRequest(o) /\ SameWork(o)
          /\ op'[o].stage = "done" /\ op'[o].status = "Other"
      BY <1>1, <2>2, StatusFacts, FinishFacts
    <3> QED BY <2>1, <3>1 DEF Turn, Stays, IndexKept, SameRequest, SameWork, Ready, At
  <2>3. ASSUME NEW f, f = op[o].from, NEW c, c = op[o].cred, Respond(o, c, f)
        PROVE  Turn(o)
    <3>1. Keeps(o) /\ op'[o].stage = "done" /\ op'[o].from = f
      BY <2>3, RespondKeeps
    <3>2. op'[o].cred = c
      BY <1>1, <2>3 DEF Respond, TypeOK, Op
    <3> QED BY <2>1, <2>3, <3>1, <3>2 DEF Turn, Stays, IndexKept, Keeps, Ready, At
  <2> QED BY <1>8, <2>2, <2>3 DEF SignNext
<1> QED BY <1>3, <1>4, <1>5, <1>6, <1>7, <1>8, NextStepTurn DEF Handle, NextStep

LEMMA OpTurn ==
  ASSUME IInv, NEW o \in Ops, FromGranted(o),
         \/ \E q \in Requests : HandleCommand(o, q)
         \/ EndContext(o)
         \/ Handle(o)
         \/ ReceiveResult(o)
         \/ PromptStep(o)
  PROVE  Turn(o)
<1>1. CASE Handle(o) \/ ReceiveResult(o)
  BY <1>1, HandleTurn
<1>2. CASE PromptStep(o)
  BY <1>2 DEF PromptStep, Untouched, Turn, Stays, IndexKept, Ready, At
<1>3. CASE EndContext(o)
  <2> DEFINE early == prompt[o] \in {"none", "running"}
             r == [op[o] EXCEPT !.ended = TRUE, !.early = early]
  <2>1. op \in [Ops -> Op]
    BY DEF IInv, TypeOK
  <2>2. op' = [op EXCEPT ![o] = r] /\ UNCHANGED nextIndex
    BY <1>3 DEF EndContext, Untouched
  <2> HIDE DEF early
  <2>3. /\ r.req = op[o].req /\ r.stage = op[o].stage /\ r.from = op[o].from
        /\ r.index = op[o].index /\ r.alone = op[o].alone
        /\ r.status = op[o].status /\ r.cred = op[o].cred
    BY <2>1 DEF Op
  <2> HIDE DEF r
  <2> QED BY <2>1, <2>2, <2>3 DEF Turn, Stays, IndexKept, Ready, At
<1>4. CASE \E q \in Requests : HandleCommand(o, q)
  <2>1. PICK q \in Requests : HandleCommand(o, q)
    BY <1>4
  <2>2. op[o].from = None /\ op'[o].from = None
    BY <2>1, HandleCommandKeeps DEF FromGranted, At
  <2>3. UNCHANGED nextIndex
    BY <2>1 DEF HandleCommand, Untouched
  <2> QED BY <2>2, <2>3 DEF Turn, Elsewhere, IndexKept
<1> QED BY <1>1, <1>2, <1>3, <1>4

LEMMA CallIsNext ==
  ASSUME IInv, NEW p \in Ops, NEW f \in Ops, p \in Calls(f), FromGranted(p)
  PROVE  Kind(p, "next") /\ op[p].from = f /\ IsState(f)
<1>1. Kind(p, "next") /\ op[p].from = f
  BY DEF Calls, Taken, Inside, IInv, OpInv, Staged
<1> QED BY <1>1, NoneAssumption DEF FromGranted

\* Of an operation that a step leaves alone nothing changes.
LEMMA OthersCalls ==
  ASSUME NEW o \in Ops, Moved(o), NEW p \in Ops, p # o, NEW f
  PROVE  /\ op'[p] = op[p]
         /\ p \in Taken(f)' <=> p \in Taken(f)
         /\ p \in Inside(f)' <=> p \in Inside(f)
         /\ p \in Calls(f)' <=> p \in Calls(f)
BY DEF Moved, Taken, Inside, Calls, Kind

LEMMA TurnKeepsFrom ==
  ASSUME IInv, NEW o \in Ops, Step(o), Turn(o), OrderInv, NEW p \in Ops
  PROVE  FromGranted(p)'
<1>1. FromGranted(p)
  BY DEF OrderInv
<1>2. \A f \in Ops : IsState(f) => IsState(f)'
  BY AllKept DEF Step, Kept
<1>3. CASE p # o
  <2>1. op'[p] = op[p]
    BY <1>3 DEF Step, Moved
  <2> QED BY <1>1, <1>2, <2>1 DEF FromGranted, Kind
<1>4. CASE p = o /\ Elsewhere(o)
  BY <1>4 DEF Elsewhere, FromGranted
<1>5. CASE p = o /\ Stays(o)
  BY <1>1, <1>2, <1>5 DEF Stays, FromGranted, Kind, At
<1>6. CASE p = o /\ Loads(o)
  <2>1. IsState(assertionState)
    BY <1>6, NoneAssumption DEF Loads, IInv, StateGranted
  <2> QED BY <1>2, <1>6, <2>1 DEF Loads, FromGranted
<1>7. ASSUME NEW f \in Ops, p = o,
             ReadsIndex(o, f) \/ WritesIndex(o, f) \/ ChecksIndex(o, f) \/ Picks(o, f)
      PROVE  FromGranted(p)'
  <2>1. OnList(o, f) /\ op'[o].stage \notin {"unused", "called", "found"}
    BY <1>7 DEF ReadsIndex, WritesIndex, ChecksIndex, Picks
  <2>2. IsState(f)'
    BY <1>1, <1>2, <1>7, <2>1, NoneAssumption DEF FromGranted, OnList
  <2> QED BY <1>7, <2>1, <2>2 DEF FromGranted, OnList
<1> QED BY <1>3, <1>4, <1>5, <1>6, <1>7 DEF Turn

\* Those that have written the index stay in order if their credentials do.
LEMMA TakenSame ==
  ASSUME NEW f, TakenOrdered(f), Taken(f)' = Taken(f), nextIndex'[f] = nextIndex[f],
         \A p \in Taken(f) :
           /\ op'[p].index = op[p].index
           /\ ~At(p, "panicked")'
           /\ Ready(p)' => Got(p, f)'
  PROVE  TakenOrdered(f)'
<1>1. {op'[p].index : p \in Taken(f)} = {op[p].index : p \in Taken(f)}
  OBVIOUS
<1> QED BY <1>1 DEF TakenOrdered

\* The credential that a call has got stays the one it has got.
LEMMA GotSame ==
  ASSUME NEW f, NEW p, Got(p, f), op'[f].creds = op[f].creds,
         op'[p].index = op[p].index, op'[p].cred = op[p].cred
  PROVE  Got(p, f)'
BY DEF Got

\* A step of an operation that is elsewhere or has nothing to do with the
\* index.
LEMMA QuietTurnOrdered ==
  ASSUME IInv, IInv', NEW o \in Ops, Step(o), OrderInv,
         Elsewhere(o) \/ Stays(o), IndexKept(o), NEW f \in Ops
  PROVE  Ordered(f)'
<1>1. Ordered(f) /\ \A p \in Ops : FromGranted(p)
  BY DEF OrderInv
<1>2. ASSUME NEW p \in Ops, p # o
      PROVE  /\ op'[p] = op[p]
             /\ p \in Taken(f)' <=> p \in Taken(f)
             /\ p \in Inside(f)' <=> p \in Inside(f)
  BY <1>2, OthersCalls DEF Step
<1>3. /\ o \in Taken(f)' <=> o \in Taken(f)
      /\ o \in Inside(f)' <=> o \in Inside(f)
      /\ o \in Calls(f) => Stays(o)
  <2>1. CASE Elsewhere(o)
    <3>1. op[o].stage \in {"loaded", "advancing", "checking", "picking"} => Kind(o, "next")
      BY DEF IInv, OpInv, Staged
    <3>2. op'[o].stage \in {"loaded", "advancing", "checking", "picking"} => Kind(o, "next")'
      BY DEF IInv, OpInv, Staged
    <3> QED BY <2>1, <3>1, <3>2, NoneAssumption DEF Elsewhere, Taken, Inside, Calls
  <2>2. CASE Stays(o)
    BY <2>2 DEF Stays, Taken, Inside, Kind, At
  <2> QED BY <2>1, <2>2
<1>4. Taken(f)' = Taken(f) /\ Inside(f)' = Inside(f)
  <2>1. Taken(f)' \subseteq Ops /\ Inside(f)' \subseteq Ops
    BY DEF Taken, Inside
  <2>2. Taken(f) \subseteq Ops /\ Inside(f) \subseteq Ops
    BY DEF Taken, Inside
  <2> QED BY <1>2, <1>3, <2>1, <2>2
<1>5. CASE Calls(f) = {}
  <2>1. Taken(f) = {} /\ Inside(f) = {}
    BY <1>5 DEF Calls
  <2>2. nextIndex'[f] = nextIndex[f] \/ nextIndex'[f] = 0
    BY DEF IndexKept, IInv, TypeOK
  <2>3. (\A p \in Calls(f) : op[p].alone) /\ 1 .. nextIndex[f] = {}
    BY <1>1, <1>5, <2>1 DEF Ordered, TakenOrdered
  <2>4. 1 .. 0 = {}
    OBVIOUS
  <2>5. {op'[p].index : p \in Taken(f)'} = 1 .. nextIndex'[f]
    BY <1>4, <2>1, <2>2, <2>3, <2>4
  <2> QED BY <1>4, <2>1, <2>5 DEF Ordered, InsideOrdered, TakenOrdered
<1>6. CASE Calls(f) # {}
  <2>1. PICK q \in Ops : q \in Calls(f)
    BY <1>6 DEF Calls, Taken, Inside
  <2>2. IsState(f)
    BY <1>1, <2>1, CallIsNext
  <2>3. op'[f].creds = op[f].creds
    BY <2>2, AllKept DEF Step, Kept
  <2>4. nextIndex'[f] = nextIndex[f]
    BY <2>2 DEF IndexKept, IInv, TypeOK, IsState, At
  <2>5. ASSUME NEW p \in Ops, p \in Calls(f)
        PROVE  /\ op'[p].index = op[p].index /\ op'[p].alone = op[p].alone
               /\ Ready(p)' => Ready(p) /\ op'[p].cred = op[p].cred
               /\ op'[p].stage = op[p].stage \/ At(p, "done")'
    BY <1>2, <1>3, <2>5 DEF Stays, Ready, At
  <2> SUFFICES ASSUME \A p \in Calls(f)' : op'[p].alone
               PROVE  InsideOrdered(f)' /\ TakenOrdered(f)'
    BY DEF Ordered
  <2>6. Calls(f)' = Calls(f) /\ Calls(f) \subseteq Ops
    BY <1>4 DEF Calls, Taken, Inside
  <2>7. InsideOrdered(f) /\ TakenOrdered(f)
    BY <1>1, <2>5, <2>6 DEF Ordered
  <2>8. Inside(f) \subseteq Calls(f) /\ Taken(f) \subseteq Calls(f)
    BY DEF Calls
  <2>9. ASSUME NEW p \in Ops, p \in Inside(f) PROVE op'[p].stage = op[p].stage
    BY <1>4, <2>5, <2>8, <2>9 DEF Inside, At
  <2>10. InsideOrdered(f)'
    BY <1>4, <2>3, <2>4, <2>5, <2>6, <2>7, <2>8, <2>9 DEF InsideOrdered, At
  <2>11. ASSUME NEW p \in Ops, p \in Taken(f)
         PROVE  /\ op'[p].index = op[p].index
                /\ ~At(p, "panicked")'
                /\ Ready(p)' => Got(p, f)'
    BY <2>3, <2>5, <2>7, <2>8, <2>11, GotSame DEF TakenOrdered, At
  <2>12. TakenOrdered(f)'
    BY <1>4, <2>4, <2>6, <2>7, <2>8, <2>11, TakenSame
  <2> QED BY <2>10, <2>12
<1> QED BY <1>5, <1>6

\* A list that o does not work on, before or after.
LEMMA OtherListOrdered ==
  ASSUME IInv, NEW o \in Ops, Step(o), OrderInv, NEW f \in Ops,
         o \notin Calls(f), o \notin Calls(f)', nextIndex'[f] = nextIndex[f]
  PROVE  Ordered(f)'
<1>1. Ordered(f) /\ \A p \in Ops : FromGranted(p)
  BY DEF OrderInv
<1>2. ASSUME NEW p \in Ops, p # o
      PROVE  /\ op'[p] = op[p]
             /\ p \in Taken(f)' <=> p \in Taken(f)
             /\ p \in Inside(f)' <=> p \in Inside(f)
  BY <1>2, OthersCalls DEF Step
<1>3. Taken(f)' = Taken(f) /\ Inside(f)' = Inside(f) /\ Calls(f)' = Calls(f)
  <2>1. Taken(f)' \subseteq Ops /\ Inside(f)' \subseteq Ops
    BY DEF Taken, Inside
  <2>2. Taken(f) \subseteq Ops /\ Inside(f) \subseteq Ops
    BY DEF Taken, Inside
  <2> QED BY <1>2, <2>1, <2>2 DEF Calls
<1>4. \A p \in Calls(f) : p \in Ops /\ op'[p] = op[p]
  BY <1>2 DEF Calls, Taken, Inside
<1> SUFFICES ASSUME \A p \in Calls(f)' : op'[p].alone
             PROVE  InsideOrdered(f)' /\ TakenOrdered(f)'
  BY DEF Ordered
<1>5. InsideOrdered(f) /\ TakenOrdered(f)
  BY <1>1, <1>3, <1>4 DEF Ordered
<1>6. ASSUME NEW p \in Calls(f) PROVE op'[f].creds = op[f].creds
  <2>1. IsState(f)
    BY <1>1, <1>4, <1>6, CallIsNext
  <2> QED BY <2>1, AllKept DEF Step, Kept
<1>7. InsideOrdered(f)'
  BY <1>3, <1>4, <1>5, <1>6 DEF InsideOrdered, At, Calls
<1>8. ASSUME NEW p \in Taken(f)
      PROVE  /\ op'[p].index = op[p].index
             /\ ~At(p, "panicked")'
             /\ Ready(p)' => Got(p, f)'
  BY <1>4, <1>5, <1>6, <1>8, GotSame DEF TakenOrdered, At, Ready, Calls
<1>9. TakenOrdered(f)'
  BY <1>3, <1>5, <1>8, TakenSame
<1> QED BY <1>7, <1>9

\* A call that loads the state joins those at work on its index.
LEMMA LoadsOrdered ==
  ASSUME IInv, NEW o \in Ops, Step(o), OrderInv, Loads(o), NEW f \in Ops
  PROVE  Ordered(f)'
<1>1. Ordered(f) /\ \A p \in Ops : FromGranted(p)
  BY DEF OrderInv
<1>2. /\ o \notin Taken(f) /\ o \notin Inside(f) /\ o \notin Taken(f)'
      /\ nextIndex'[f] = nextIndex[f]
  BY <1>1, NoneAssumption DEF Loads, Taken, Inside, At, FromGranted
<1>3. CASE f # assertionState
  <2>1. o \notin Inside(f)'
    BY <1>3 DEF Loads, Inside
  <2> QED BY <1>2, <2>1, OtherListOrdered DEF Calls
<1>4. CASE f = assertionState
  <2>1. ASSUME NEW p \in Ops, p # o
        PROVE  /\ op'[p] = op[p]
               /\ p \in Taken(f)' <=> p \in Taken(f)
               /\ p \in Inside(f)' <=> p \in Inside(f)
    BY <2>1, OthersCalls DEF Step
  <2>2. Taken(f)' = Taken(f) /\ Taken(f) \subseteq Ops
    BY <1>2, <2>1 DEF Taken
  <2>3. Inside(f)' = Inside(f) \cup {o} /\ Inside(f) \subseteq Ops
    <3>1. o \in Inside(f)'
      BY <1>4 DEF Loads, Inside
    <3>2. Inside(f) \subseteq Ops /\ Inside(f)' \subseteq Ops
      BY DEF Inside
    <3> QED BY <2>1, <3>1, <3>2
  <2>4. op'[o].alone = (Inside(f) = {}) /\ op'[o].stage = "loaded"
    BY <1>4 DEF Loads
  <2> SUFFICES ASSUME \A p \in Calls(f)' : op'[p].alone
               PROVE  InsideOrdered(f)' /\ TakenOrdered(f)'
    BY DEF Ordered
  <2>5. Inside(f) = {} /\ Inside(f)' = {o}
    BY <2>3, <2>4 DEF Calls
  <2>6. \A p \in Calls(f) : op[p].alone
    BY <1>2, <2>1, <2>2, <2>5 DEF Calls
  <2>7. TakenOrdered(f)
    BY <1>1, <2>6 DEF Ordered
  <2>8. InsideOrdered(f)'
    BY <2>4, <2>5 DEF InsideOrdered, At
  <2>9. op'[f].creds = op[f].creds
    <3>1. IsState(f)
      BY <1>4, NoneAssumption DEF IInv, StateGranted
    <3> QED BY <3>1, AllKept DEF Step, Kept
  <2>10. ASSUME NEW p \in Taken(f)
         PROVE  /\ op'[p].index = op[p].index
                /\ ~At(p, "panicked")'
                /\ Ready(p)' => Got(p, f)'
    BY <1>2, <2>1, <2>2, <2>7, <2>9, <2>10, GotSame DEF TakenOrdered, At, Ready
  <2>11. TakenOrdered(f)'
    BY <1>2, <2>2, <2>7, <2>10, TakenSame
  <2> QED BY <2>8, <2>11
<1> QED BY <1>3, <1>4

\* A step on the index of f's list, by one who is not the only one, or is:
\* then the list is in order, and the others leave it.
LEMMA AtWork ==
  ASSUME IInv, NEW o \in Ops, Step(o), OrderInv, NEW f \in Ops, OnList(o, f),
         op[o].stage \in {"loaded", "advancing", "checking", "picking"},
         op'[o].stage \in {"advancing", "checking", "dropping", "picking", "signing", "panicked"},
         \A p \in Calls(f)' : op'[p].alone
  PROVE  /\ InsideOrdered(f) /\ TakenOrdered(f)
         /\ Inside(f) = {o} /\ Inside(f)' \subseteq {o}
         /\ op'[f].creds = op[f].creds
         /\ \A p \in Ops : p # o => /\ op'[p] = op[p]
                                    /\ p \in Taken(f)' <=> p \in Taken(f)
<1>1. Ordered(f) /\ \A p \in Ops : FromGranted(p)
  BY DEF OrderInv
<1>2. ASSUME NEW p \in Ops, p # o
      PROVE  /\ op'[p] = op[p]
             /\ p \in Taken(f)' <=> p \in Taken(f)
             /\ p \in Inside(f)' <=> p \in Inside(f)
             /\ p \in Calls(f)' <=> p \in Calls(f)
  BY <1>2, OthersCalls DEF Step
<1>3. o \in Inside(f) /\ o \in Calls(f)
  BY DEF OnList, Inside, Calls
<1>4. o \in Calls(f)'
  BY DEF OnList, Taken, Inside, Calls, Kind
<1>5. op[o].alone
  BY <1>4 DEF OnList
<1>6. Calls(f) \subseteq Ops
  BY DEF Calls, Taken, Inside
<1>7. ASSUME NEW p \in Calls(f) PROVE op[p].alone
  BY <1>2, <1>5, <1>6, <1>7
<1>8. InsideOrdered(f) /\ TakenOrdered(f)
  BY <1>1, <1>7 DEF Ordered
<1>9. Inside(f) = {o}
  BY <1>3, <1>8 DEF InsideOrdered
<1>10. Inside(f)' \subseteq {o}
  <2>1. Inside(f)' \subseteq Ops
    BY DEF Inside
  <2> QED BY <1>2, <1>9, <2>1
<1>11. op'[f].creds = op[f].creds
  <2>1. IsState(f)
    BY <1>1, <1>3, CallIsNext
  <2> QED BY <2>1, AllKept DEF Step, Kept
<1> QED BY <1>2, <1>8, <1>9, <1>10, <1>11

LEMMA ReadsIndexOrdered ==
  ASSUME IInv, NEW o \in Ops, Step(o), OrderInv, NEW f \in Ops, ReadsIndex(o, f)
  PROVE  Ordered(f)'
<1> SUFFICES ASSUME \A p \in Calls(f)' : op'[p].alone
             PROVE  InsideOrdered(f)' /\ TakenOrdered(f)'
  BY DEF Ordered
<1>1. /\ OnList(o, f) /\ op[o].stage = "loaded" /\ op'[o].stage = "advancing"
      /\ op'[o].index = nextIndex[f] /\ nextIndex'[f] = nextIndex[f]
  BY DEF ReadsIndex, At
<1>2. /\ TakenOrdered(f) /\ Inside(f)' \subseteq {o} /\ op'[f].creds = op[f].creds
      /\ \A p \in Ops : p # o => /\ op'[p] = op[p]
                                 /\ p \in Taken(f)' <=> p \in Taken(f)
  BY <1>1, AtWork
<1>3. Taken(f)' = Taken(f) /\ Taken(f) \subseteq Ops /\ o \notin Taken(f)
  <2>1. o \notin Taken(f) /\ o \notin Taken(f)'
    BY <1>1 DEF Taken
  <2>2. Taken(f) \subseteq Ops /\ Taken(f)' \subseteq Ops
    BY DEF Taken
  <2> QED BY <1>2, <2>1, <2>2
<1>4. InsideOrdered(f)'
  BY <1>1, <1>2 DEF InsideOrdered, At
<1>5. ASSUME NEW p \in Taken(f)
      PROVE  /\ op'[p].index = op[p].index
             /\ ~At(p, "panicked")'
             /\ Ready(p)' => Got(p, f)'
  BY <1>2, <1>3, <1>5, GotSame DEF TakenOrdered, At, Ready
<1>6. TakenOrdered(f)'
  BY <1>1, <1>2, <1>3, <1>5, TakenSame
<1> QED BY <1>4, <1>6

\* The only call at work on the index writes the next one.
LEMMA WritesIndexOrdered ==
  ASSUME IInv, NEW o \in Ops, Step(o), OrderInv, NEW f \in Ops, WritesIndex(o, f)
  PROVE  Ordered(f)'
<1> SUFFICES ASSUME \A p \in Calls(f)' : op'[p].alone
             PROVE  InsideOrdered(f)' /\ TakenOrdered(f)'
  BY DEF Ordered
<1>1. /\ OnList(o, f) /\ op[o].stage = "advancing" /\ op'[o].stage = "checking"
      /\ op'[o].index = op[o].index + 1
      /\ nextIndex'[f] = op'[o].index
  BY DEF WritesIndex, At, IInv, TypeOK
<1>2. /\ InsideOrdered(f) /\ TakenOrdered(f)
      /\ Inside(f) = {o} /\ Inside(f)' \subseteq {o} /\ op'[f].creds = op[f].creds
      /\ \A p \in Ops : p # o => /\ op'[p] = op[p]
                                 /\ p \in Taken(f)' <=> p \in Taken(f)
  BY <1>1, AtWork
<1>3. PICK n \in Nat : n = nextIndex[f] /\ n = op[o].index
  BY <1>1, <1>2 DEF InsideOrdered, At, IInv, TypeOK
<1>4. op'[o].index = n + 1 /\ nextIndex'[f] = n + 1
  BY <1>1, <1>3
<1>5. Taken(f)' = Taken(f) \cup {o} /\ Taken(f) \subseteq Ops /\ o \notin Taken(f)
  <2>1. o \notin Taken(f) /\ o \in Taken(f)'
    BY <1>1 DEF Taken, OnList, Kind
  <2>2. Taken(f) \subseteq Ops /\ Taken(f)' \subseteq Ops
    BY DEF Taken
  <2> QED BY <1>2, <2>1, <2>2
<1>6. InsideOrdered(f)'
  BY <1>1, <1>2, <1>4 DEF InsideOrdered, At
<1>7. /\ {op[p].index : p \in Taken(f)} = 1 .. n
      /\ \A p, q \in Taken(f) : op[p].index = op[q].index => p = q
  BY <1>2, <1>3 DEF TakenOrdered
<1>8. \A p \in Taken(f) : op'[p] = op[p] /\ op[p].index \in 1 .. n
  BY <1>2, <1>5, <1>7
<1>9. \A p, q \in Taken(f)' : op'[p].index = op'[q].index => p = q
  BY <1>4, <1>5, <1>7, <1>8
<1>10. {op'[p].index : p \in Taken(f)'} = 1 .. nextIndex'[f]
  <2>1. {op'[p].index : p \in Taken(f)'} = {op[p].index : p \in Taken(f)} \cup {n + 1}
    BY <1>4, <1>5, <1>8
  <2>2. 1 .. (n + 1) = (1 .. n) \cup {n + 1}
    OBVIOUS
  <2> QED BY <1>4, <1>7, <2>1, <2>2
<1>11. ASSUME NEW p \in Taken(f)'
       PROVE  ~At(p, "panicked")' /\ (Ready(p)' => Got(p, f)')
  <2>1. CASE p = o
    BY <1>1, <2>1 DEF Ready, At, OnList
  <2>2. CASE p # o
    BY <1>2, <1>5, <1>8, <1>11, <2>2, GotSame DEF TakenOrdered, At, Ready
  <2> QED BY <2>1, <2>2
<1>12. TakenOrdered(f)'
  BY <1>9, <1>10, <1>11 DEF TakenOrdered
<1> QED BY <1>6, <1>12

LEMMA ChecksIndexOrdered ==
  ASSUME IInv, NEW o \in Ops, Step(o), OrderInv, NEW f \in Ops, ChecksIndex(o, f)
  PROVE  Ordered(f)'
<1> SUFFICES ASSUME \A p \in Calls(f)' : op'[p].alone
             PROVE  InsideOrdered(f)' /\ TakenOrdered(f)'
  BY DEF Ordered
<1>1. /\ OnList(o, f) /\ op[o].stage = "checking" /\ op'[o].stage \in {"dropping", "picking"}
      /\ op'[o].stage = "picking" => nextIndex[f] < Len(op[f].creds)
      /\ op'[o].index = op[o].index /\ nextIndex'[f] = nextIndex[f]
  BY DEF ChecksIndex, At
<1>2. /\ InsideOrdered(f) /\ TakenOrdered(f)
      /\ Inside(f) = {o} /\ Inside(f)' \subseteq {o} /\ op'[f].creds = op[f].creds
      /\ \A p \in Ops : p # o => /\ op'[p] = op[p]
                                 /\ p \in Taken(f)' <=> p \in Taken(f)
  BY <1>1, AtWork
<1>3. op[o].index = nextIndex[f]
  BY <1>1, <1>2 DEF InsideOrdered, At
<1>4. Taken(f)' = Taken(f) /\ Taken(f) \subseteq Ops
  <2>1. o \in Taken(f) /\ o \in Taken(f)'
    BY <1>1 DEF Taken, OnList, Kind
  <2>2. Taken(f) \subseteq Ops /\ Taken(f)' \subseteq Ops
    BY DEF Taken
  <2> QED BY <1>2, <2>1, <2>2
<1>5. InsideOrdered(f)'
  BY <1>1, <1>2, <1>3 DEF InsideOrdered, At
<1>6. ASSUME NEW p \in Taken(f)
      PROVE  /\ op'[p].index = op[p].index
             /\ ~At(p, "panicked")'
             /\ Ready(p)' => Got(p, f)'
  <2>1. CASE p = o
    BY <1>1, <2>1 DEF Ready, At, OnList
  <2>2. CASE p # o
    BY <1>2, <1>4, <1>6, <2>2, GotSame DEF TakenOrdered, At, Ready
  <2> QED BY <2>1, <2>2
<1>7. TakenOrdered(f)'
  BY <1>1, <1>2, <1>4, <1>6, TakenSame
<1> QED BY <1>5, <1>7

\* The only call at work on the index finds it as it was when it checked.
LEMMA PicksOrdered ==
  ASSUME IInv, NEW o \in Ops, Step(o), OrderInv, NEW f \in Ops, Picks(o, f)
  PROVE  Ordered(f)'
<1> SUFFICES ASSUME \A p \in Calls(f)' : op'[p].alone
             PROVE  InsideOrdered(f)' /\ TakenOrdered(f)'
  BY DEF Ordered
<1>1. /\ OnList(o, f) /\ op[o].stage = "picking" /\ op'[o].stage \in {"panicked", "signing"}
      /\ nextIndex'[f] = nextIndex[f]
  BY DEF Picks, At
<1>2. /\ InsideOrdered(f) /\ TakenOrdered(f)
      /\ Inside(f) = {o} /\ Inside(f)' \subseteq {o} /\ op'[f].creds = op[f].creds
      /\ \A p \in Ops : p # o => /\ op'[p] = op[p]
                                 /\ p \in Taken(f)' <=> p \in Taken(f)
  BY <1>1, AtWork
<1>3. op[o].index = nextIndex[f] /\ nextIndex[f] < Len(op[f].creds)
  BY <1>1, <1>2 DEF InsideOrdered, At
<1>4. /\ op'[o].stage = "signing" /\ op'[o].index = nextIndex[f]
      /\ op'[o].cred = op[f].creds[nextIndex[f] + 1].id
  BY <1>3 DEF Picks
<1>5. Taken(f)' = Taken(f) /\ Taken(f) \subseteq Ops
  <2>1. o \in Taken(f) /\ o \in Taken(f)'
    BY <1>1 DEF Taken, OnList, Kind
  <2>2. Taken(f) \subseteq Ops /\ Taken(f)' \subseteq Ops
    BY DEF Taken
  <2> QED BY <1>2, <2>1, <2>2
<1>6. InsideOrdered(f)'
  <2>1. o \notin Inside(f)'
    BY <1>4 DEF Inside
  <2> QED BY <1>2, <2>1 DEF InsideOrdered
<1>7. ASSUME NEW p \in Taken(f)
      PROVE  /\ op'[p].index = op[p].index
             /\ ~At(p, "panicked")'
             /\ Ready(p)' => Got(p, f)'
  <2>1. CASE p = o
    BY <1>2, <1>3, <1>4, <2>1 DEF Got, At
  <2>2. CASE p # o
    BY <1>2, <1>5, <1>7, <2>2, GotSame DEF TakenOrdered, At, Ready
  <2> QED BY <2>1, <2>2
<1>8. TakenOrdered(f)'
  BY <1>1, <1>2, <1>5, <1>7, TakenSame
<1> QED BY <1>6, <1>8

LEMMA TurnOrdered ==
  ASSUME IInv, IInv', NEW o \in Ops, Step(o), Turn(o), OrderInv, NEW f \in Ops
  PROVE  Ordered(f)'
<1>1. ASSUME NEW g \in Ops,
             ReadsIndex(o, g) \/ WritesIndex(o, g) \/ ChecksIndex(o, g) \/ Picks(o, g)
      PROVE  Ordered(f)'
  <2>1. CASE g = f
    BY <1>1, <2>1, ReadsIndexOrdered, WritesIndexOrdered, ChecksIndexOrdered, PicksOrdered
  <2>2. CASE g # f
    <3>1. OnList(o, g)
      BY <1>1 DEF ReadsIndex, WritesIndex, ChecksIndex, Picks
    <3>2. o \notin Calls(f) /\ o \notin Calls(f)'
      BY <2>2, <3>1 DEF OnList, Calls, Taken, Inside
    <3>3. nextIndex'[f] = nextIndex[f]
      BY <1>1, <2>2 DEF ReadsIndex, WritesIndex, ChecksIndex, Picks, IInv, TypeOK
    <3> QED BY <3>2, <3>3, OtherListOrdered
  <2> QED BY <2>1, <2>2
<1> QED BY <1>1, QuietTurnOrdered, LoadsOrdered DEF Turn

LEMMA OrderInvariant == Spec => []OrderInv
<1>1. Init => OrderInv
  <2> SUFFICES ASSUME Init, NEW o \in Ops PROVE FromGranted(o) /\ Ordered(o)
    BY DEF OrderInv
  <2>1. \A p \in Ops : op[p].stage = "unused" /\ op[p].from = None /\ op[p].req.kind = "none"
    BY DEF Init, IdleOp, NoRequest
  <2>2. Taken(o) = {} /\ Inside(o) = {} /\ nextIndex[o] = 0
    BY <2>1 DEF Taken, Inside, Kind, Init
  <2>3. 1 .. 0 = {}
    OBVIOUS
  <2> QED BY <2>1, <2>2, <2>3 DEF FromGranted, Ordered, InsideOrdered, TakenOrdered, Kind
<1>2. IInv /\ IInv' /\ OrderInv /\ [Next]_vars => OrderInv'
  <2> SUFFICES ASSUME IInv, IInv', OrderInv, [Next]_vars PROVE OrderInv'
    OBVIOUS
  <2>1. CASE UNCHANGED vars
    BY <2>1 DEF vars, presenceVars, OrderInv, FromGranted, Ordered, InsideOrdered, TakenOrdered,
                Calls, Taken, Inside, Ready, Got, IsState, Sealed, At, Kind
  <2>2. ASSUME NEW o \in Ops, Step(o), Turn(o), NEW f \in Ops
        PROVE  FromGranted(f)' /\ Ordered(f)'
    BY <2>2, TurnKeepsFrom, TurnOrdered
  <2>3. CASE Next
    <3>1. PICK o \in Ops :
            \/ \E q \in Requests : HandleCommand(o, q)
            \/ EndContext(o)
            \/ Handle(o)
            \/ ReceiveResult(o)
            \/ PromptStep(o)
      BY <2>3 DEF Next
    <3>2. Step(o) /\ Turn(o)
      BY <3>1, OpStep, OpTurn DEF OrderInv
    <3> QED BY <2>2, <3>2 DEF OrderInv
  <2> QED BY <2>1, <2>3
<1> QED BY <1>1, <1>2, Invariance, PTL DEF Spec

\* While the calls for one list do not overlap, GetNextAssertion returns
\* every credential of it but the first once and in order.
THEOREM NextReturnsInOrder == Spec => []NextInOrder
<1>1. OrderInv => NextInOrder
  BY DEF OrderInv, Ordered, TakenOrdered, Ready, NextInOrder
<1> QED BY <1>1, OrderInvariant, PTL

\* While the calls for one list do not overlap, none finds the index past
\* the list's end when it loads it again, and the daemon does not die of it.
THEOREM RangePanicsNeedOverlap == Spec => []RangePanicNeedsOverlap
<1>1. ASSUME OrderInv PROVE RangePanicNeedsOverlap
  <2> SUFFICES ASSUME NEW f \in Ops, \A p \in Calls(f) : op[p].alone,
                      NEW p \in Calls(f)
               PROVE  ~At(p, "panicked")
    BY DEF RangePanicNeedsOverlap
  <2>1. TakenOrdered(f)
    BY <1>1 DEF OrderInv, Ordered
  <2> QED BY <2>1 DEF TakenOrdered, Calls, Inside, At
<1> QED BY <1>1, OrderInvariant, PTL

=============================================================================
