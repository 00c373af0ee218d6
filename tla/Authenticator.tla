---------------------------- MODULE Authenticator ----------------------------
(***************************************************************************)
(* The CTAP2 command handler of ctap2/: authenticatorMakeCredential,       *)
(* authenticatorGetAssertion and authenticatorGetNextAssertion, each run   *)
(* by a goroutine of its own (fidohid calls HandleCommand from one per     *)
(* transaction), over the user-presence gate, the signer's keys and the    *)
(* list of discoverable credentials.                                       *)
(*                                                                         *)
(* Handler.assertionState and its currentIndex are read and written        *)
(* without a lock, so each load and each store of them is a step of its    *)
(* own.  A panic of a handler is recovered by nobody and ends the process, *)
(* and with it the behaviour.  A client data hash is named by the          *)
(* operation that carried it, a credential id by the operation that        *)
(* registered the key.  The signer may fail on any call (the TPM is        *)
(* reached over a device file that is opened per call).                    *)
(***************************************************************************)
EXTENDS UserPresence, Sequences, FiniteSets

CONSTANTS
  RPs,          \* relying-party ids
  AllowedRPs,   \* Handler.allowedRPIDs
  Users,        \* user handles
  OldCreds,     \* the discoverable credentials loaded at start
  Requests      \* the commands hosts send

OldIds == {c.id : c \in OldCreds}
Ids == OldIds \cup Ops

Credential == [id : Ids, rp : RPs, user : Users]

\* rk: the resident key option; list: the exclude or allow list; flaw: what
\* the handler refuses the request for (hmac-secret, a clientDataHash that
\* is not 32 bytes, no ES256).
Request ==
  [kind : {"make", "get", "next", "info", "bad"}, rp : RPs, user : Users,
   rk : BOOLEAN, list : SUBSET Ids, flaw : {"none", "hmac", "hash", "alg"}]

ASSUME RequestsAssumption == Requests \subseteq Request

ASSUME OldCredsAssumption ==
  /\ IsFiniteSet(OldCreds)
  /\ OldCreds \subseteq [id : OldIds, rp : AllowedRPs, user : Users]
  /\ \A c, d \in OldCreds :
       c.id = d.id \/ (c.rp = d.rp /\ c.user = d.user) => c = d

ASSUME NamesAssumption ==
  /\ AllowedRPs \subseteq RPs
  /\ None \notin RPs \cup Ids
  /\ OldIds \cap Ops = {}

VARIABLES
  op,             \* the operation's goroutine
  keys,           \* the RP a credential id's key was made for, or None
  storage,        \* CredentialStorage: the discoverable credentials
  assertionState, \* Handler.assertionState: the operation that made it, or None
  nextIndex       \* currentIndex of the assertion state each operation made

vars == <<op, keys, storage, assertionState, nextIndex, presenceVars>>

\* Where GetNextAssertion is: it has found a state, loaded it, read its
\* index, written it back, or found that past the end or within the list.
NextStages == {"found", "loaded", "advancing", "checking", "dropping", "picking"}

Stages == {"unused", "called", "matching", "asking", "waiting", "granted",
           "saving", "signing", "done", "panicked"} \cup NextStages

Statuses == {"none", "Success", "OperationDenied", "UnsupportedExtension",
             "InvalidParameter", "UnsupportedAlgorithm", "CredentialExcluded",
             "NoCredentials", "UserActionTimeout", "NotAllowed", "Other",
             "Invalid"}

NoRequest == [kind |-> "none"]

\* cred: the credential the response will be about.
\* creds: the matched discoverable credentials, in the order of the index.
\* from: the operation whose assertion state and client data hash is used.
\* index: the currentIndex GetNextAssertion last read, or wrote.
\* alone: no other GetNextAssertion was at work on the index when this one
\* loaded the state.  (History: only the properties look at it.)
\* ended: the context is done; early: it was done before the finger matched.
IdleOp ==
  [stage |-> "unused", req |-> NoRequest, cred |-> None, creds |-> <<>>,
   from |-> None, index |-> 0, alone |-> TRUE,
   ended |-> FALSE, early |-> FALSE, status |-> "none"]

Op ==
  [stage : Stages, req : Requests \cup {NoRequest}, cred : Ids \cup {None},
   creds : Seq(Credential), from : Ops \cup {None}, index : Nat,
   alone : BOOLEAN, ended : BOOLEAN, early : BOOLEAN,
   status : Statuses]

TypeOK ==
  /\ PresenceTypeOK
  /\ op \in [Ops -> Op]
  /\ keys \in [Ids -> RPs \cup {None}]
  /\ storage \in SUBSET Credential
  /\ assertionState \in Ops \cup {None}
  /\ nextIndex \in [Ops -> Nat]

Init ==
  /\ PresenceInit
  /\ op = [o \in Ops |-> IdleOp]
  /\ keys = [i \in Ids |-> IF \E c \in OldCreds : c.id = i
                            THEN (CHOOSE c \in OldCreds : c.id = i).rp
                            ELSE None]
  /\ storage = OldCreds
  /\ assertionState = None
  /\ nextIndex = [o \in Ops |-> 0]

-----------------------------------------------------------------------------
(* Steps common to the commands.                                           *)

IsRPIDAllowed(rp) == rp \in AllowedRPs

At(o, stage) == op[o].stage = stage
Kind(o, kind) == op[o].req.kind = kind

Goto(o, stage) == op' = [op EXCEPT ![o] = [@ EXCEPT !.stage = stage]]

\* A nil dereference or an index out of range.
Panic(o) == Goto(o, "panicked")

\* No goroutine has panicked.
Running == \A o \in Ops : ~At(o, "panicked")

\* The operations that have been called and have not returned.
UnderWay == {o \in Ops : op[o].stage \notin {"unused", "done"}}

\* Return from HandleCommand.
Finish(o, status) ==
  op' = [op EXCEPT ![o] = [@ EXCEPT !.stage = "done", !.status = status]]

Respond(o, cred, from) ==
  op' = [op EXCEPT ![o] = [@ EXCEPT !.stage = "done", !.status = "Success",
                                    !.cred = cred, !.from = from]]

Untouched == UNCHANGED <<keys, storage, assertionState, nextIndex>>

\* HandleCommand is called: commands without state are answered at once.
HandleCommand(o, r) ==
  /\ At(o, "unused")
  /\ op' = [op EXCEPT ![o] = [@ EXCEPT
               !.req = r,
               !.stage = IF r.kind \in {"info", "bad"} THEN "done" ELSE "called",
               !.status = CASE r.kind = "info" -> "Success"
                            [] r.kind = "bad" -> "Invalid"
                            [] OTHER -> "none"]]
  /\ Untouched
  /\ UNCHANGED presenceVars

\* The operation's context ends: the host cancels, or the time is up.
\* Also the context with a timeout that the wait for the finger derives.
\* (Only the select looks at it: an end after it, or of GetNextAssertion's
\* context, is seen by nobody and left out.)
EndContext(o) ==
  /\ op[o].stage \in {"called", "matching", "asking", "waiting"}
  /\ op[o].req.kind \in {"make", "get"}
  /\ ~op[o].ended
  /\ op' = [op EXCEPT ![o] = [@ EXCEPT !.ended = TRUE,
                                       !.early = prompt[o] \in {"none", "running"}]]
  /\ Untouched
  /\ UNCHANGED presenceVars

\* h.presence.ConfirmPresence.
AskPresence(o) ==
  /\ At(o, "asking")
  /\ \/ ConfirmPresence(o) /\ Goto(o, "waiting")
     \/ PresenceBusy /\ Finish(o, "OperationDenied")
  /\ Untouched

\* Mutated form: the context is not looked at once the result is there.
ReceiveResultOnly(o) ==
  /\ At(o, "waiting")
  /\ DeliverResult(o)
  /\ IF verdict[o] # "ok" THEN Finish(o, "OperationDenied")
     ELSE Goto(o, "granted")
  /\ Untouched

\* Mutated form: Result.OK is not looked at.
ReceiveAnyResult(o) ==
  /\ At(o, "waiting")
  /\ DeliverResult(o)
  /\ IF op[o].ended THEN Finish(o, "UserActionTimeout") ELSE Goto(o, "granted")
  /\ Untouched

\* select: the verdict arrives; an ended context overrides it.
ReceiveResult(o) ==
  /\ At(o, "waiting")
  /\ DeliverResult(o)
  /\ IF op[o].ended THEN Finish(o, "UserActionTimeout")
     ELSE IF verdict[o] # "ok" THEN Finish(o, "OperationDenied")
     ELSE Goto(o, "granted")
  /\ Untouched

\* select: the context is done.
PresenceTimeout(o) ==
  /\ At(o, "waiting")
  /\ op[o].ended
  /\ Finish(o, "UserActionTimeout")
  /\ Untouched
  /\ UNCHANGED presenceVars

-----------------------------------------------------------------------------
(* authenticatorMakeCredential.                                            *)

\* Refusals before the exclude list, in the code's order.
MakeRefusal(r) ==
  CASE ~IsRPIDAllowed(r.rp) -> "OperationDenied"
    [] r.flaw = "hmac" -> "UnsupportedExtension"
    [] r.flaw = "hash" -> "InvalidParameter"
    [] r.flaw = "alg" -> "UnsupportedAlgorithm"
    [] OTHER -> "none"

\* The listed ids the signer can sign with for this RP.
Signable(r) == {i \in r.list : keys[i] = r.rp}

MakeCredential(o) ==
  LET r == op[o].req
  IN /\ At(o, "called") /\ Kind(o, "make")
     /\ IF MakeRefusal(r) # "none" THEN Finish(o, MakeRefusal(r))
        ELSE \/ Signable(r) # {} /\ Finish(o, "CredentialExcluded")
             \/ Goto(o, "asking")  \* none is excluded, or the signer failed
     /\ Untouched
     /\ UNCHANGED presenceVars

\* Mutated form: the user is asked again when the signer fails.
RegisterKeyRetry(o) ==
  /\ At(o, "granted") /\ Kind(o, "make")
  /\ \/ /\ keys' = [keys EXCEPT ![o] = op[o].req.rp]
        /\ Goto(o, IF op[o].req.rk THEN "saving" ELSE "signing")
     \/ Goto(o, "asking") /\ UNCHANGED keys
  /\ UNCHANGED <<storage, assertionState, nextIndex, presenceVars>>

\* signer.RegisterKey: a new key bound to the RP.
RegisterKey(o) ==
  /\ At(o, "granted") /\ Kind(o, "make")
  /\ \/ /\ keys' = [keys EXCEPT ![o] = op[o].req.rp]
        /\ Goto(o, IF op[o].req.rk THEN "saving" ELSE "signing")
     \/ Finish(o, "Other") /\ UNCHANGED keys
  /\ UNCHANGED <<storage, assertionState, nextIndex, presenceVars>>

\* Mutated form: the credential is added next to the account's old one.
SaveAppends(o) ==
  /\ At(o, "saving")
  /\ storage' = storage \cup {[id |-> o, rp |-> op[o].req.rp, user |-> op[o].req.user]}
  /\ Goto(o, "signing")
  /\ UNCHANGED <<keys, assertionState, nextIndex, presenceVars>>

\* Mutated form: the credential is saved before it has its id.
SaveTooEarly(o) ==
  /\ At(o, "saving")
  /\ storage' = storage \cup {[id |-> None, rp |-> op[o].req.rp, user |-> op[o].req.user]}
  /\ Goto(o, "signing")
  /\ UNCHANGED <<keys, assertionState, nextIndex, presenceVars>>

\* storage.Save in memory: the account's credential is replaced, or the
\* new one added; an error from the disk changes nothing here and is
\* ignored.  CredentialStorage.tla models the file.
SaveCredential(o) ==
  LET r == op[o].req
  IN /\ At(o, "saving")
     /\ storage' = {c \in storage : ~(c.rp = r.rp /\ c.user = r.user)}
                     \cup {[id |-> o, rp |-> r.rp, user |-> r.user]}
     /\ Goto(o, "signing")
     /\ UNCHANGED <<keys, assertionState, nextIndex, presenceVars>>

\* The self-attestation and the response.
Attest(o) ==
  /\ At(o, "signing") /\ Kind(o, "make")
  /\ Respond(o, o, o) \/ Finish(o, "Other")
  /\ Untouched
  /\ UNCHANGED presenceVars

-----------------------------------------------------------------------------
(* authenticatorGetAssertion.                                              *)

\* The refusals before and after the old assertion state is dropped.
GetAssertion(o) ==
  LET r == op[o].req
  IN /\ At(o, "called") /\ Kind(o, "get")
     /\ \/ /\ ~IsRPIDAllowed(r.rp)
           /\ Finish(o, "OperationDenied")
           /\ UNCHANGED assertionState
        \/ /\ IsRPIDAllowed(r.rp)
           /\ r.flaw = "hmac"
           /\ Finish(o, "UnsupportedExtension")
           /\ UNCHANGED assertionState
        \/ /\ IsRPIDAllowed(r.rp)
           /\ r.flaw # "hmac"
           /\ assertionState' = None
           /\ IF r.flaw = "hash" THEN Finish(o, "InvalidParameter")
                                 ELSE Goto(o, "matching")
     /\ UNCHANGED <<keys, storage, nextIndex, presenceVars>>

\* Orders in which the storage may list a set of credentials.
Listings(S) ==
  {s \in [1 .. Cardinality(S) -> S] : \A c \in S : \E i \in DOMAIN s : s[i] = c}

\* With an allow list: the first id that signs (the order is the host's).
\* Without: the RP's discoverable credentials that sign.
Match(o) ==
  LET r == op[o].req
  IN /\ At(o, "matching")
     /\ \/ /\ r.list # {}
           /\ \E i \in Signable(r) :
                op' = [op EXCEPT ![o] = [@ EXCEPT !.stage = "asking", !.cred = i]]
        \/ /\ r.list = {}
           /\ \E valid \in SUBSET {c \in storage : c.rp = r.rp /\ keys[c.id] = r.rp} :
                /\ valid # {}
                /\ \E s \in Listings(valid) :
                     op' = [op EXCEPT ![o] = [@ EXCEPT !.stage = "asking", !.creds = s]]
        \/ Finish(o, "NoCredentials")  \* none, or the signer failed
     /\ Untouched
     /\ UNCHANGED presenceVars

\* With several discoverable credentials the rest is kept for
\* GetNextAssertion; it is published before the first response is signed.
PublishState(o) ==
  /\ At(o, "granted") /\ Kind(o, "get")
  /\ Goto(o, "signing")
  /\ IF Len(op[o].creds) > 1
     THEN assertionState' = o /\ nextIndex' = [nextIndex EXCEPT ![o] = 0]
     ELSE UNCHANGED <<assertionState, nextIndex>>
  /\ UNCHANGED <<keys, storage, presenceVars>>

\* buildNonResidentAssertionResponse or the first buildAssertionResponse.
SignAssertion(o) ==
  LET cred == IF op[o].req.list # {} THEN op[o].cred ELSE op[o].creds[1].id
  IN /\ At(o, "signing") /\ Kind(o, "get")
     /\ \/ keys[cred] = op[o].req.rp /\ Respond(o, cred, o)
        \/ Finish(o, "Other")
     /\ Untouched
     /\ UNCHANGED presenceVars

-----------------------------------------------------------------------------
(* authenticatorGetNextAssertion.                                          *)

\* The operations at work on the index of f's list.
Inside(f) ==
  {p \in Ops : op[p].stage \in {"loaded", "advancing", "checking", "picking"} /\ op[p].from = f}

\* The test of h.assertionState against nil.
CheckState(o) ==
  /\ At(o, "called") /\ Kind(o, "next")
  /\ IF assertionState = None THEN Finish(o, "NotAllowed") ELSE Goto(o, "found")
  /\ Untouched
  /\ UNCHANGED presenceVars

\* The second load of h.assertionState; what is nil now is dereferenced by
\* the next line.
LoadState(o) ==
  /\ At(o, "found")
  /\ IF assertionState = None THEN Panic(o)
     ELSE op' = [op EXCEPT ![o] = [@ EXCEPT !.stage = "loaded",
                                            !.from = assertionState,
                                            !.alone = Inside(assertionState) = {}]]
  /\ Untouched
  /\ UNCHANGED presenceVars

\* The first half of currentIndex++.
ReadIndex(o) ==
  /\ At(o, "loaded")
  /\ op' = [op EXCEPT ![o] = [@ EXCEPT !.stage = "advancing",
                                        !.index = nextIndex[op[o].from]]]
  /\ Untouched
  /\ UNCHANGED presenceVars

\* Mutated form: the index is not written back.
AdvanceIndexLost(o) ==
  /\ At(o, "advancing")
  /\ op' = [op EXCEPT ![o] = [@ EXCEPT !.stage = "checking",
                                        !.index = op[o].index + 1]]
  /\ Untouched
  /\ UNCHANGED presenceVars

\* The second half of currentIndex++.
AdvanceIndex(o) ==
  /\ At(o, "advancing")
  /\ op' = [op EXCEPT ![o] = [@ EXCEPT !.stage = "checking",
                                        !.index = op[o].index + 1]]
  /\ nextIndex' = [nextIndex EXCEPT ![op[o].from] = op[o].index + 1]
  /\ UNCHANGED <<keys, storage, assertionState, presenceVars>>

\* Mutated form: the test lets the index through that is one past the end.
CheckIndexOffByOne(o) ==
  /\ At(o, "checking")
  /\ Goto(o, IF nextIndex[op[o].from] > Len(op[op[o].from].creds)
             THEN "dropping" ELSE "picking")
  /\ Untouched
  /\ UNCHANGED presenceVars

\* The test against the list's length, of the index as it is by now.
CheckIndex(o) ==
  /\ At(o, "checking")
  /\ Goto(o, IF nextIndex[op[o].from] >= Len(op[op[o].from].creds)
             THEN "dropping" ELSE "picking")
  /\ Untouched
  /\ UNCHANGED presenceVars

\* Past the last credential whatever state is there is dropped.
DropState(o) ==
  /\ At(o, "dropping")
  /\ assertionState' = None
  /\ Finish(o, "NotAllowed")
  /\ UNCHANGED <<keys, storage, nextIndex, presenceVars>>

\* The credential at the index, which is loaded once more.
PickCredential(o) ==
  LET creds == op[op[o].from].creds
      index == nextIndex[op[o].from]
  IN /\ At(o, "picking")
     /\ IF index >= Len(creds) THEN Panic(o)
        ELSE op' = [op EXCEPT ![o] = [@ EXCEPT !.stage = "signing", !.index = index,
                                               !.cred = creds[index + 1].id]]
     /\ Untouched
     /\ UNCHANGED presenceVars

\* buildAssertionResponse for that credential.
SignNext(o) ==
  /\ At(o, "signing") /\ Kind(o, "next")
  /\ \/ /\ keys[op[o].cred] = op[op[o].from].req.rp
        /\ Respond(o, op[o].cred, op[o].from)
     \/ Finish(o, "Other")
  /\ Untouched
  /\ UNCHANGED presenceVars

-----------------------------------------------------------------------------

Handle(o) ==
  \/ MakeCredential(o) \/ RegisterKey(o) \/ SaveCredential(o) \/ Attest(o)
  \/ GetAssertion(o) \/ Match(o) \/ PublishState(o) \/ SignAssertion(o)
  \/ CheckState(o) \/ LoadState(o) \/ ReadIndex(o) \/ AdvanceIndex(o) \/ CheckIndex(o)
  \/ DropState(o) \/ PickCredential(o) \/ SignNext(o)
  \/ AskPresence(o) \/ PresenceTimeout(o)

PromptStep(o) ==
  \/ \E v \in {"ok", "failed"} :
       FingerprintResult(o, v) /\ Untouched /\ UNCHANGED op
  \/ ~At(o, "waiting") /\ DropResult(o) /\ Untouched /\ UNCHANGED op
  \/ Release(o) /\ Untouched /\ UNCHANGED op

Next ==
  /\ Running
  /\ \E o \in Ops :
       \/ \E r \in Requests : HandleCommand(o, r)
       \/ EndContext(o)
       \/ Handle(o)
       \/ ReceiveResult(o)
       \/ PromptStep(o)

Spec == Init /\ [][Next]_vars

\* What an operation waits for, when it is not its prompt: its handler's
\* own steps and, while it waits for the finger, the timeout.
Advance(o) ==
  /\ Running
  /\ Handle(o) \/ ReceiveResult(o) \/ (At(o, "waiting") /\ EndContext(o))

AdvancePrompt(o) == Running /\ PromptStep(o)

\* Goroutines are scheduled, signer calls return, fprintd-verify ends (its
\* context kills it after 30 s), the two-second timer fires and so does the
\* 30 s timeout of a waiting operation.  Nothing is assumed of the host, nor
\* of the order in which a select finds its branches ready.
OpFairness(o) == WF_vars(Advance(o)) /\ WF_vars(AdvancePrompt(o))

Fairness == \A o \in Ops : OpFairness(o)

FairSpec == Spec /\ Fairness

-----------------------------------------------------------------------------
(* Properties.                                                             *)

Signed(o) == op[o].status = "Success" /\ op[o].req.kind \in {"make", "get", "next"}

\* No signature without the user's finger: every response that claims user
\* verification is about a credential of an allowed RP, and was granted by
\* a fingerprint that matched for the very request whose client data hash
\* is signed.  For GetNextAssertion that is the request the assertion state
\* stems from, whatever operations of other channels overwrote or dropped
\* the state in between, and it must have asked for the same RP.
UserVerified ==
  \A o \in Ops : Signed(o) =>
    LET from == op[o].from
    IN /\ from \in Ops
       /\ verdict[from] = "ok"
       /\ op[from].req.kind = IF Kind(o, "make") THEN "make" ELSE "get"
       /\ op[from].req.rp \in AllowedRPs
       /\ keys[op[o].cred] = op[from].req.rp

\* An operation whose context ended before the finger matched (the host
\* cancelled it or its time was up) leaves nothing behind: no key, no
\* discoverable credential, no state for GetNextAssertion and no signature,
\* even if the user touches the sensor afterwards.
AbortedLeavesNothing ==
  \A o \in Ops : op[o].early =>
    /\ ~(Signed(o) /\ op[o].from = o)
    /\ keys[o] = None
    /\ assertionState # o
    /\ \A c \in storage : c.id # o

\* The list of discoverable credentials stays sound under concurrent
\* registrations: one credential per account, each with a key of its RP,
\* and each either loaded at start or granted by its user's finger.
StorageSound ==
  /\ \A c, d \in storage : c.rp = d.rp /\ c.user = d.user => c = d
  /\ \A c \in storage :
       /\ c.rp \in AllowedRPs
       /\ keys[c.id] = c.rp
       /\ c \in OldCreds \/ (c.id \in Ops /\ verdict[c.id] = "ok")

\* The calls of GetNextAssertion that have written the index of f's list,
\* and all that have loaded it.
Taken(f) ==
  {p \in Ops : Kind(p, "next") /\ op[p].from = f
                 /\ op[p].stage \notin {"loaded", "advancing"}}
Calls(f) == Taken(f) \cup Inside(f)

\* The credential that a call has got from f's list.
Got(p, f) ==
  /\ op[p].index < Len(op[f].creds)
  /\ op[p].cred = op[f].creds[op[p].index + 1].id

\* GetNextAssertion goes through the list: a host whose calls for one list
\* do not overlap gets every credential after the first once and in order,
\* none twice and none left out, although a call spends its index even when
\* its signature fails, and whatever other operations do to the shared
\* state.  (Overlapping calls may read the same index: a lost update.)
NextInOrder ==
  \A f \in Ops :
    (\A p \in Calls(f) : op[p].alone) =>
      /\ \A p, q \in Taken(f) : op[p].index = op[q].index => p = q
      /\ {op[p].index : p \in Taken(f)} = 1 .. nextIndex[f]
      /\ \A p \in Taken(f) : op[p].status = "Success" => Got(p, f)

\* The index, tested against the list's length, is within the list at its
\* next load too, and the daemon does not die of an index out of range, if
\* the calls for the list do not overlap, whatever other operations do to
\* the shared state.  (Nothing locks the two loads together: if calls
\* overlap, another one's increment may come between them.)
RangePanicNeedsOverlap ==
  \A f \in Ops :
    (\A p \in Calls(f) : op[p].alone) => \A p \in Calls(f) : ~At(p, "panicked")

\* What an operation's handler, and its prompt, need to take a step.
CanAdvance(o) ==
  \/ op[o].stage \in {"called", "signing"} /\ op[o].req.kind \in {"make", "get", "next"}
  \/ At(o, "granted") /\ op[o].req.kind \in {"make", "get"}
  \/ op[o].stage \in NextStages \ {"found"} /\ op[o].from \in Ops
  \/ op[o].stage \in {"found", "matching", "asking", "waiting", "saving"}

CanPrompt(o) ==
  prompt[o] \in {"running", "clearing"} \/ (prompt[o] = "offering" /\ ~At(o, "waiting"))

\* What the theorems assume of ENABLED: in a process that runs, the guards
\* above are all that a step needs.
GuardsEnable ==
  \A o \in Ops : Running =>
    /\ CanAdvance(o) => ENABLED <<Advance(o)>>_vars
    /\ CanPrompt(o) => ENABLED <<AdvancePrompt(o)>>_vars

\* Nobody waits for what cannot come: an operation that has begun can go on
\* by itself, whatever the others did to the state they share, and the
\* prompt that holds the gate can too once its operation does not wait for
\* it any more.
NeverStuck ==
  \A o \in Ops : Running =>
    /\ o \in UnderWay => ENABLED <<Advance(o)>>_vars
    /\ activeRequest = o /\ ~At(o, "waiting") => ENABLED <<AdvancePrompt(o)>>_vars

\* Every operation ends, and the gate does not stay closed: a prompt is
\* released whatever its operation does, so a cancelled operation blocks
\* the next ones only for a while.  Or the process has died of a panic.
OperationsEnd ==
  \A o \in Ops : At(o, "called") ~> At(o, "done") \/ ~Running

GateReopens ==
  \A o \in Ops : (activeRequest = o) ~> (activeRequest # o) \/ ~Running

-----------------------------------------------------------------------------
(* The refinement: what a prompt, a context and a response mean to the     *)
(* user.                                                                   *)

Consent ==
  INSTANCE UserConsent WITH
    consent <- [o \in Ops |-> IF op[o].early THEN "withdrawn"
                              ELSE IF verdict[o] = "ok" THEN "given" ELSE "open"],
    key <- [o \in Ops |-> keys[o] # None],
    signedFor <- [o \in Ops |-> IF Signed(o) THEN op[o].from ELSE None]

\* However operations, prompts and contexts interleave, an operation's
\* consent is decided once, by the finger or by the end of its context,
\* whichever comes first, and only a given consent makes a key or has a
\* response signed (HandleCommand with ConfirmPresence and its select).
ImplementsConsent == Consent!Spec

=============================================================================
