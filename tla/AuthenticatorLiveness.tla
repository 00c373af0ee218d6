------------------------ MODULE AuthenticatorLiveness ------------------------
(***************************************************************************)
(* Liveness of Authenticator, for any number of overlapping operations:    *)
(* every operation ends, and the user-presence gate reopens, unless a      *)
(* panic ends the process.  What ENABLED says of a single action is beyond *)
(* the provers: that the guards of an action are all it needs is the       *)
(* hypothesis GuardsEnable of the theorems.  That an operation never loses *)
(* such a guard, NobodyStuck, is proved.                                   *)
(***************************************************************************)
EXTENDS AuthenticatorProofs

\* The stages a handler may go on to from each stage it works in.
Later(s) ==
  CASE s = "called" -> {"matching", "asking", "found", "done"}
    [] s = "matching" -> {"asking", "done"}
    [] s = "asking" -> {"waiting", "done"}
    [] s = "waiting" -> {"granted", "done"}
    [] s = "granted" -> {"saving", "signing", "done"}
    [] s = "found" -> {"loaded", "panicked"}
    [] s = "loaded" -> {"advancing"}
    [] s = "advancing" -> {"checking"}
    [] s = "checking" -> {"dropping", "picking"}
    [] s = "dropping" -> {"done"}
    [] s = "picking" -> {"signing", "panicked"}
    [] s = "saving" -> {"signing"}
    [] s = "signing" -> {"done"}
    [] OTHER -> {}

Begun(o) == op[o].stage # "unused"

\* A handler's step goes on to a later stage.
GoesOn(o) == op'[o].stage \in Later(op[o].stage)

\* No step takes an operation back, nor revives its context.
Onward(o) ==
  \/ GoesOn(o)
  \/ op'[o].stage = op[o].stage /\ (op[o].ended => op'[o].ended)

\* GetNextAssertion takes its steps on the shared index one after another.
LEMMA NextGoesOn ==
  ASSUME IInv, NEW o \in Ops,
         CheckState(o) \/ LoadState(o) \/ ReadIndex(o) \/ AdvanceIndex(o)
           \/ CheckIndex(o) \/ DropState(o) \/ PickCredential(o)
  PROVE  GoesOn(o)
<1> USE DEF GoesOn, Later
<1>1. CASE CheckState(o)
  BY <1>1, GotoKeeps, FinishKeeps DEF CheckState, At
<1>2. CASE LoadState(o)
  <2>1. CASE assertionState = None
    BY <1>2, <2>1, GotoKeeps DEF LoadState, Panic, At
  <2>2. CASE assertionState # None
    <3>1. TypeOK /\ assertionState \in Ops
      BY <2>2 DEF IInv, TypeOK
    <3> DEFINE apart == Inside(assertionState) = {}
    <3>2. apart \in BOOLEAN
      OBVIOUS
    <3>3. op' = [op EXCEPT ![o] = [@ EXCEPT !.stage = "loaded", !.from = assertionState,
                                            !.alone = apart]]
      BY <1>2, <2>2 DEF LoadState
    <3> HIDE DEF apart
    <3>4. op'[o].stage = "loaded"
      BY <3>1, <3>2, <3>3, LoadFacts
    <3> QED BY <1>2, <3>4 DEF LoadState, At
  <2> QED BY <2>1, <2>2
<1>3. CASE ReadIndex(o)
  <2>1. op[o].stage = "loaded"
    BY <1>3 DEF ReadIndex, At
  <2>2. op'[o].stage = "advancing"
    BY <1>3, ReadFacts
  <2> QED BY <2>1, <2>2
<1>4. CASE AdvanceIndex(o)
  <2>1. op[o].stage = "advancing"
    BY <1>4 DEF AdvanceIndex, At
  <2>2. op'[o].stage = "checking"
    BY <1>4, AdvanceFacts
  <2> QED BY <2>1, <2>2
<1>5. CASE CheckIndex(o)
  BY <1>5, GotoKeeps DEF CheckIndex, At
<1>6. CASE DropState(o)
  BY <1>6, FinishKeeps DEF DropState, At
<1>7. CASE PickCredential(o)
  <2>1. At(o, "picking")
    BY <1>7 DEF PickCredential
  <2>2. op[o].from \in Ops
    BY <2>1, ReadsState DEF At, NextStages
  <2>3. op'[o].stage \in {"signing", "panicked"}
    BY <1>7, <2>2, PickFacts
  <2> QED BY <2>1, <2>3 DEF At
<1> QED BY <1>1, <1>2, <1>3, <1>4, <1>5, <1>6, <1>7

LEMMA HandleGoesOn ==
  ASSUME IInv, NEW o \in Ops, Handle(o) \/ ReceiveResult(o)
  PROVE  GoesOn(o)
<1> USE DEF GoesOn, Later
<1>1. Staged(o)
  BY DEF IInv, OpInv
<1>2. CASE MakeCredential(o)
  BY <1>2, GotoKeeps, FinishKeeps DEF MakeCredential, At
<1>3. CASE RegisterKey(o)
  BY <1>3, GotoKeeps, FinishKeeps DEF RegisterKey, At
<1>4. CASE SaveCredential(o)
  BY <1>4, GotoKeeps DEF SaveCredential, At
<1>5. CASE Attest(o)
  BY <1>5, FinishKeeps, RespondKeeps DEF Attest, At
<1>6. CASE GetAssertion(o)
  BY <1>6, GotoKeeps, FinishKeeps DEF GetAssertion, At
<1>7. CASE Match(o)
  BY <1>7, MatchKeeps DEF At
<1>8. CASE PublishState(o)
  BY <1>8, GotoKeeps DEF PublishState, At
<1>9. CASE SignAssertion(o)
  BY <1>9, FinishKeeps, RespondKeeps DEF SignAssertion, At
<1>10. CASE CheckState(o) \/ LoadState(o) \/ ReadIndex(o) \/ AdvanceIndex(o)
            \/ CheckIndex(o) \/ DropState(o) \/ PickCredential(o)
  BY <1>10, NextGoesOn
<1>12. CASE SignNext(o)
  BY <1>12, FinishKeeps, RespondKeeps DEF SignNext, At
<1>13. CASE AskPresence(o)
  BY <1>13, GotoKeeps, FinishKeeps DEF AskPresence, At
<1>14. CASE PresenceTimeout(o)
  BY <1>14, FinishKeeps DEF PresenceTimeout, At
<1>15. CASE ReceiveResult(o)
  BY <1>15, GotoKeeps, FinishKeeps DEF ReceiveResult, At
<1> QED BY <1>2, <1>3, <1>4, <1>5, <1>6, <1>7, <1>8, <1>9, <1>10, <1>12,
           <1>13, <1>14, <1>15 DEF Handle

LEMMA EndContextFacts ==
  ASSUME IInv, NEW o \in Ops, EndContext(o)
  PROVE  op'[o].stage = op[o].stage /\ ~op[o].ended /\ op'[o].ended
<1> DEFINE early == prompt[o] \in {"none", "running"}
           r == [op[o] EXCEPT !.ended = TRUE, !.early = early]
<1>1. op \in [Ops -> Op]
  BY DEF IInv, TypeOK
<1>2. op' = [op EXCEPT ![o] = r] /\ ~op[o].ended
  BY DEF EndContext
<1> HIDE DEF early
<1>3. r.stage = op[o].stage /\ r.ended = TRUE
  BY <1>1 DEF Op
<1> HIDE DEF r
<1> QED BY <1>1, <1>2, <1>3

LEMMA BegunOnward ==
  ASSUME IInv, [Next]_vars, NEW o \in Ops, Begun(o)
  PROVE  Onward(o)
<1>1. CASE op'[o] = op[o]
  BY <1>1 DEF Onward
<1>2. CASE op'[o] # op[o]
  <2>1. PICK p \in Ops :
          \/ \E q \in Requests : HandleCommand(p, q)
          \/ EndContext(p)
          \/ Handle(p)
          \/ ReceiveResult(p)
          \/ PromptStep(p)
    BY <1>2 DEF Next, vars
  <2>2. p = o
    BY <1>2, <2>1, OpStep DEF Step, Moved
  <2>3. ~PromptStep(p) /\ ~\E q \in Requests : HandleCommand(p, q)
    BY <1>2, <2>2 DEF PromptStep, HandleCommand, Begun, At
  <2> QED BY <2>1, <2>2, <2>3, HandleGoesOn, EndContextFacts DEF Onward
<1> QED BY <1>1, <1>2

\* A step of its own takes an operation on, or ends the context it waits
\* under.
LEMMA AdvanceOnward ==
  ASSUME IInv, NEW o \in Ops, Advance(o)
  PROVE  \/ GoesOn(o)
         \/ At(o, "waiting") /\ At(o, "waiting")' /\ ~op[o].ended /\ op'[o].ended
BY HandleGoesOn, EndContextFacts DEF Advance, At

-----------------------------------------------------------------------------
(* Nobody is ever stuck.                                                   *)

\* Whatever the others did to the gate and to the assertion state, the
\* handler has a step for the stage its operation is in, and the prompt that
\* holds the gate one for its own.
LEMMA CanGoOn ==
  ASSUME IInv, Running, NEW o \in Ops
  PROVE  /\ o \in UnderWay => CanAdvance(o)
         /\ activeRequest = o /\ ~At(o, "waiting") => CanPrompt(o)
<1>1. o \in UnderWay => CanAdvance(o)
  <2>1. op[o].stage \in Stages /\ op[o].stage # "panicked"
    BY DEF IInv, TypeOK, Op, Running, At
  <2>2. Staged(o)
    BY DEF IInv, OpInv
  <2>3. op[o].stage \in NextStages \ {"found"} => op[o].from \in Ops
    BY ReadsState
  <2> QED BY <2>1, <2>2, <2>3 DEF Stages, NextStages, Staged, CanAdvance, UnderWay, At
<1>2. activeRequest = o => prompt[o] \in {"running", "offering", "clearing"}
  BY DEF IInv, OnePrompt
<1> QED BY <1>1, <1>2 DEF CanPrompt

\* No interleaving of operations, prompts and contexts leaves an operation
\* without a step of its own to take, or the gate with a prompt that cannot
\* give it up.
THEOREM NobodyStuck == Spec /\ []GuardsEnable => []NeverStuck
<1>1. IInv /\ GuardsEnable => NeverStuck
  BY CanGoOn DEF GuardsEnable, NeverStuck
<1> QED BY <1>1, Invariance, PTL

-----------------------------------------------------------------------------
(* Every operation ends.                                                   *)

Called(o) == At(o, "called")
Matching(o) == At(o, "matching")
Asking(o) == At(o, "asking")
Waiting(o) == At(o, "waiting") /\ ~op[o].ended
WaitingEnded(o) == At(o, "waiting") /\ op[o].ended
Granted(o) == At(o, "granted")
Found(o) == At(o, "found")
Loaded(o) == At(o, "loaded")
Advancing(o) == At(o, "advancing")
Checking(o) == At(o, "checking")
Dropping(o) == At(o, "dropping")
Picking(o) == At(o, "picking")
Saving(o) == At(o, "saving")
Signing(o) == At(o, "signing")
Done(o) == At(o, "done")

LEMMA OnTheWay ==
  ASSUME IInv, [Next]_vars, NEW o \in Ops
  PROVE  /\ Called(o) => Called(o)' \/ Matching(o)' \/ Asking(o)' \/ Found(o)' \/ Done(o)'
         /\ Matching(o) => Matching(o)' \/ Asking(o)' \/ Done(o)'
         /\ Asking(o) => Asking(o)' \/ Waiting(o)' \/ WaitingEnded(o)' \/ Done(o)'
         /\ Waiting(o) => Waiting(o)' \/ WaitingEnded(o)' \/ Granted(o)' \/ Done(o)'
         /\ WaitingEnded(o) => WaitingEnded(o)' \/ Granted(o)' \/ Done(o)'
         /\ Granted(o) => Granted(o)' \/ Saving(o)' \/ Signing(o)' \/ Done(o)'
         /\ Found(o) => Found(o)' \/ Loaded(o)' \/ ~Running'
         /\ Loaded(o) => Loaded(o)' \/ Advancing(o)'
         /\ Advancing(o) => Advancing(o)' \/ Checking(o)'
         /\ Checking(o) => Checking(o)' \/ Dropping(o)' \/ Picking(o)'
         /\ Dropping(o) => Dropping(o)' \/ Done(o)'
         /\ Picking(o) => Picking(o)' \/ Signing(o)' \/ ~Running'
         /\ Saving(o) => Saving(o)' \/ Signing(o)'
         /\ Signing(o) => Signing(o)' \/ Done(o)'
<1>1. Begun(o) => Onward(o)
  BY BegunOnward
<1>2. At(o, "panicked")' => ~Running'
  BY DEF Running
<1> QED BY <1>1, <1>2 DEF Onward, GoesOn, Later, Begun, At, Called, Matching, Asking, Waiting,
                          WaitingEnded, Granted, Found, Loaded, Advancing, Checking,
                          Dropping, Picking, Saving, Signing, Done

LEMMA OwnSteps ==
  ASSUME IInv, NEW o \in Ops, Advance(o)
  PROVE  /\ Called(o) => ~Called(o)'
         /\ Matching(o) => ~Matching(o)'
         /\ Asking(o) => ~Asking(o)'
         /\ Waiting(o) => ~Waiting(o)'
         /\ WaitingEnded(o) => ~WaitingEnded(o)'
         /\ Granted(o) => ~Granted(o)'
         /\ Found(o) => ~Found(o)'
         /\ Loaded(o) => ~Loaded(o)'
         /\ Advancing(o) => ~Advancing(o)'
         /\ Checking(o) => ~Checking(o)'
         /\ Dropping(o) => ~Dropping(o)'
         /\ Picking(o) => ~Picking(o)'
         /\ Saving(o) => ~Saving(o)'
         /\ Signing(o) => ~Signing(o)'
<1>1. \/ GoesOn(o)
      \/ At(o, "waiting") /\ At(o, "waiting")' /\ ~op[o].ended /\ op'[o].ended
  BY AdvanceOnward
<1> QED BY <1>1 DEF GoesOn, Later, At, Called, Matching, Asking, Waiting,
                    WaitingEnded, Granted, Found, Loaded, Advancing, Checking,
                    Dropping, Picking, Saving, Signing

\* Every operation that was called ends, unless the process dies: neither
\* its prompt, nor the host, nor any other operation has to help it.
THEOREM OperationsTerminate == FairSpec /\ []GuardsEnable => OperationsEnd
<1>1. ASSUME NEW o \in Ops
      PROVE  Spec /\ OpFairness(o) /\ []NeverStuck => (At(o, "called") ~> At(o, "done") \/ ~Running)
  <2>1. IInv /\ [Next]_vars =>
          /\ Called(o) => Called(o)' \/ Matching(o)' \/ Asking(o)' \/ Found(o)' \/ Done(o)'
          /\ Matching(o) => Matching(o)' \/ Asking(o)' \/ Done(o)'
          /\ Asking(o) => Asking(o)' \/ Waiting(o)' \/ WaitingEnded(o)' \/ Done(o)'
          /\ Waiting(o) => Waiting(o)' \/ WaitingEnded(o)' \/ Granted(o)' \/ Done(o)'
          /\ WaitingEnded(o) => WaitingEnded(o)' \/ Granted(o)' \/ Done(o)'
          /\ Granted(o) => Granted(o)' \/ Saving(o)' \/ Signing(o)' \/ Done(o)'
          /\ Found(o) => Found(o)' \/ Loaded(o)' \/ ~Running'
          /\ Loaded(o) => Loaded(o)' \/ Advancing(o)'
          /\ Advancing(o) => Advancing(o)' \/ Checking(o)'
          /\ Checking(o) => Checking(o)' \/ Dropping(o)' \/ Picking(o)'
          /\ Dropping(o) => Dropping(o)' \/ Done(o)'
          /\ Picking(o) => Picking(o)' \/ Signing(o)' \/ ~Running'
          /\ Saving(o) => Saving(o)' \/ Signing(o)'
          /\ Signing(o) => Signing(o)' \/ Done(o)'
    BY OnTheWay
  <2>2. IInv /\ <<Advance(o)>>_vars =>
          /\ Called(o) => ~Called(o)'
          /\ Matching(o) => ~Matching(o)'
          /\ Asking(o) => ~Asking(o)'
          /\ Waiting(o) => ~Waiting(o)'
          /\ WaitingEnded(o) => ~WaitingEnded(o)'
          /\ Granted(o) => ~Granted(o)'
          /\ Found(o) => ~Found(o)'
          /\ Loaded(o) => ~Loaded(o)'
          /\ Advancing(o) => ~Advancing(o)'
          /\ Checking(o) => ~Checking(o)'
          /\ Dropping(o) => ~Dropping(o)'
          /\ Picking(o) => ~Picking(o)'
          /\ Saving(o) => ~Saving(o)'
          /\ Signing(o) => ~Signing(o)'
    BY OwnSteps
  <2>3. NeverStuck =>
          (Called(o) \/ Matching(o) \/ Asking(o) \/ Waiting(o) \/ WaitingEnded(o)
             \/ Granted(o) \/ Found(o) \/ Loaded(o) \/ Advancing(o) \/ Checking(o)
             \/ Dropping(o) \/ Picking(o) \/ Saving(o) \/ Signing(o) =>
             ~Running \/ ENABLED <<Advance(o)>>_vars)
    BY DEF NeverStuck, UnderWay, At, Called, Matching, Asking, Waiting, WaitingEnded, Granted,
           Found, Loaded, Advancing, Checking, Dropping, Picking, Saving, Signing
  <2>4. (At(o, "called") <=> Called(o)) /\ (At(o, "done") <=> Done(o))
    BY DEF Called, Done
  <2> QED BY <2>1, <2>2, <2>3, <2>4, Invariance, PTL DEF Spec, OpFairness
<1>2. FairSpec => Spec /\ \A o \in Ops : OpFairness(o)
  BY DEF FairSpec, Fairness
<1>3. Spec /\ (\A o \in Ops : OpFairness(o)) /\ []NeverStuck => OperationsEnd
  BY <1>1 DEF OperationsEnd
<1> QED BY <1>2, <1>3, NobodyStuck, PTL

-----------------------------------------------------------------------------
(* The gate reopens.                                                       *)

\* An operation that holds the gate and waits for the finger, with or
\* without a live context; and its prompt once nobody waits for it.
Holds(o) == activeRequest = o
HoldsWaiting(o) == Holds(o) /\ Waiting(o)
HoldsEnded(o) == Holds(o) /\ WaitingEnded(o)
Prompting(o) == Holds(o) /\ ~At(o, "waiting") /\ prompt[o] = "running"
Offering(o) == Holds(o) /\ ~At(o, "waiting") /\ prompt[o] = "offering"
ClearingGate(o) == Holds(o) /\ ~At(o, "waiting") /\ prompt[o] = "clearing"

\* The prompt of the gate's holder only goes on, until it gives up the gate.
LEMMA PromptOnward ==
  ASSUME IInv, [Next]_vars, NEW o \in Ops, Holds(o)
  PROVE  \/ prompt'[o] = prompt[o]
         \/ prompt[o] = "running" /\ prompt'[o] = "offering"
         \/ prompt[o] = "offering" /\ prompt'[o] = "clearing"
         \/ ~Holds(o)'
<1>1. /\ prompt[o] \in {"running", "offering", "clearing"} /\ o # None
      /\ prompt \in [Ops -> {"none", "running", "offering", "clearing", "done"}]
  BY NoneAssumption DEF IInv, OnePrompt, Holds, TypeOK, PresenceTypeOK
<1>2. CASE UNCHANGED vars
  BY <1>2 DEF vars, presenceVars
<1>3. ASSUME NEW p \in Ops, UNCHANGED presenceVars
      PROVE  prompt'[o] = prompt[o]
  BY <1>3 DEF presenceVars
<1>4. ASSUME NEW p \in Ops, (\E q \in Requests : HandleCommand(p, q)) \/ EndContext(p)
      PROVE  prompt'[o] = prompt[o]
  BY <1>4 DEF HandleCommand, EndContext, presenceVars
<1>5. ASSUME NEW p \in Ops, Handle(p)
      PROVE  prompt'[o] = prompt[o]
  BY <1>1, <1>5 DEF Handle, MakeCredential, RegisterKey, SaveCredential, Attest, GetAssertion,
              Match, PublishState, SignAssertion, CheckState, LoadState,
              ReadIndex, AdvanceIndex, CheckIndex, DropState, PickCredential, SignNext,
              AskPresence, PresenceTimeout, ConfirmPresence, PresenceBusy, presenceVars, Holds
<1>6. ASSUME NEW p \in Ops, ReceiveResult(p) \/ PromptStep(p)
      PROVE  \/ prompt'[o] = prompt[o]
             \/ prompt[o] = "running" /\ prompt'[o] = "offering"
             \/ prompt[o] = "offering" /\ prompt'[o] = "clearing"
             \/ ~Holds(o)'
  BY <1>1, <1>6 DEF ReceiveResult, PromptStep, FingerprintResult, DropResult, DeliverResult,
                    Release, Holds
<1> QED BY <1>2, <1>4, <1>5, <1>6 DEF Next

LEMMA GateOnTheWay ==
  ASSUME IInv, [Next]_vars, NEW o \in Ops
  PROVE  /\ HoldsWaiting(o) => \/ HoldsWaiting(o)' \/ HoldsEnded(o)' \/ Prompting(o)'
                               \/ Offering(o)' \/ ClearingGate(o)' \/ ~Holds(o)'
         /\ HoldsEnded(o) => \/ HoldsEnded(o)' \/ Prompting(o)' \/ Offering(o)'
                             \/ ClearingGate(o)' \/ ~Holds(o)'
         /\ Prompting(o) => Prompting(o)' \/ Offering(o)' \/ ~Holds(o)'
         /\ Offering(o) => Offering(o)' \/ ClearingGate(o)' \/ ~Holds(o)'
         /\ ClearingGate(o) => ClearingGate(o)' \/ ~Holds(o)'
<1>1. Holds(o) => prompt[o] \in {"running", "offering", "clearing"}
  BY DEF IInv, OnePrompt, Holds
<1>2. Holds(o) => op[o].stage \notin {"unused", "called", "matching", "asking"}
  BY <1>1 DEF IInv, OpInv, Staged
<1>3. Holds(o) => Onward(o)
  BY <1>2, BegunOnward DEF Begun
<1>4. Holds(o) =>
        \/ prompt'[o] = prompt[o]
        \/ prompt[o] = "running" /\ prompt'[o] = "offering"
        \/ prompt[o] = "offering" /\ prompt'[o] = "clearing"
        \/ ~Holds(o)'
  BY PromptOnward
<1>5. Holds(o) /\ ~At(o, "waiting") => ~At(o, "waiting")'
  BY <1>2, <1>3 DEF Onward, GoesOn, Later, At
<1>6. Holds(o) /\ WaitingEnded(o) => WaitingEnded(o)' \/ ~At(o, "waiting")'
  BY <1>3 DEF Onward, GoesOn, Later, At, WaitingEnded
<1> QED BY <1>1, <1>4, <1>5, <1>6
        DEF HoldsWaiting, HoldsEnded, Prompting, Offering, ClearingGate, Waiting, WaitingEnded

LEMMA PromptOwnSteps ==
  ASSUME IInv, NEW o \in Ops, AdvancePrompt(o)
  PROVE  /\ Prompting(o) => ~Prompting(o)'
         /\ Offering(o) => ~Offering(o)'
         /\ ClearingGate(o) => ~ClearingGate(o)'
<1>1. prompt \in [Ops -> {"none", "running", "offering", "clearing", "done"}]
  BY DEF IInv, TypeOK, PresenceTypeOK
<1> QED BY <1>1 DEF AdvancePrompt, PromptStep, FingerprintResult, DropResult, DeliverResult,
                    Release, Prompting, Offering, ClearingGate

\* Whoever holds the gate gives it up: a cancelled or abandoned operation
\* blocks the others only for a while, unless the process dies.
THEOREM GateAlwaysReopens == FairSpec /\ []GuardsEnable => GateReopens
<1>1. ASSUME NEW o \in Ops
      PROVE  Spec /\ OpFairness(o) /\ []NeverStuck =>
               ((activeRequest = o) ~> (activeRequest # o) \/ ~Running)
  <2>1. IInv /\ [Next]_vars =>
          /\ HoldsWaiting(o) => \/ HoldsWaiting(o)' \/ HoldsEnded(o)' \/ Prompting(o)'
                                \/ Offering(o)' \/ ClearingGate(o)' \/ ~Holds(o)'
          /\ HoldsEnded(o) => \/ HoldsEnded(o)' \/ Prompting(o)' \/ Offering(o)'
                              \/ ClearingGate(o)' \/ ~Holds(o)'
          /\ Prompting(o) => Prompting(o)' \/ Offering(o)' \/ ~Holds(o)'
          /\ Offering(o) => Offering(o)' \/ ClearingGate(o)' \/ ~Holds(o)'
          /\ ClearingGate(o) => ClearingGate(o)' \/ ~Holds(o)'
    BY GateOnTheWay
  <2>2. IInv /\ <<AdvancePrompt(o)>>_vars =>
          /\ Prompting(o) => ~Prompting(o)'
          /\ Offering(o) => ~Offering(o)'
          /\ ClearingGate(o) => ~ClearingGate(o)'
    BY PromptOwnSteps
  <2>3. IInv /\ <<Advance(o)>>_vars =>
          /\ HoldsWaiting(o) => ~HoldsWaiting(o)'
          /\ HoldsEnded(o) => ~HoldsEnded(o)'
    BY OwnSteps DEF HoldsWaiting, HoldsEnded
  <2>4. NeverStuck =>
          /\ HoldsWaiting(o) \/ HoldsEnded(o) => ~Running \/ ENABLED <<Advance(o)>>_vars
          /\ Prompting(o) \/ Offering(o) \/ ClearingGate(o) =>
               ~Running \/ ENABLED <<AdvancePrompt(o)>>_vars
    BY DEF NeverStuck, UnderWay, Holds, HoldsWaiting, HoldsEnded, Prompting, Offering, ClearingGate,
           Waiting, WaitingEnded, At
  <2>5. IInv => (Holds(o) => \/ HoldsWaiting(o) \/ HoldsEnded(o) \/ Prompting(o)
                             \/ Offering(o) \/ ClearingGate(o))
    BY DEF IInv, OnePrompt, Holds, HoldsWaiting, HoldsEnded, Prompting, Offering,
           ClearingGate, Waiting, WaitingEnded
  <2>6. (activeRequest = o <=> Holds(o)) /\ (activeRequest # o <=> ~Holds(o))
    BY DEF Holds
  <2> QED BY <2>1, <2>2, <2>3, <2>4, <2>5, <2>6, Invariance, PTL DEF Spec, OpFairness
<1>2. FairSpec => Spec /\ \A o \in Ops : OpFairness(o)
  BY DEF FairSpec, Fairness
<1>3. Spec /\ (\A o \in Ops : OpFairness(o)) /\ []NeverStuck => GateReopens
  BY <1>1 DEF GateReopens
<1> QED BY <1>2, <1>3, NobodyStuck, PTL

=============================================================================
