---------------------------- MODULE UserPresence ----------------------------
(***************************************************************************)
(* The user-presence gate of userpresence/userpresence.go: at most one     *)
(* fingerprint prompt at a time.  ConfirmPresence starts a goroutine that  *)
(* runs fprintd-verify under its own 30 s timeout, offers the verdict on   *)
(* an unbuffered channel for at most two seconds and then releases the     *)
(* gate.  The caller's context does not reach the goroutine.               *)
(*                                                                         *)
(* A request is named by the operation that asked for it.  The module has  *)
(* the steps of the gate; Authenticator.tla composes them with the         *)
(* operations that ask.                                                    *)
(***************************************************************************)
EXTENDS Integers

CONSTANTS
  Ops,   \* operations, one per call of HandleCommand (a bound on them)
  None   \* Go's nil

ASSUME NoneAssumption == None \notin Ops

VARIABLES
  activeRequest, \* UserPresence.activeRequest
  prompt,        \* the goroutine promptFingerprint of each request
  verdict        \* what fprintd-verify said

presenceVars == <<activeRequest, prompt, verdict>>

PresenceTypeOK ==
  /\ activeRequest \in Ops \cup {None}
  /\ prompt \in [Ops -> {"none", "running", "offering", "clearing", "done"}]
  /\ verdict \in [Ops -> {"none", "ok", "failed"}]

PresenceInit ==
  /\ activeRequest = None
  /\ prompt = [o \in Ops |-> "none"]
  /\ verdict = [o \in Ops |-> "none"]

-----------------------------------------------------------------------------

\* Mutated form: the test for a request in progress is missing.
ConfirmPresenceAlways(o) ==
  /\ activeRequest' = o
  /\ prompt' = [prompt EXCEPT ![o] = "running"]
  /\ UNCHANGED verdict

\* ConfirmPresence: register the request and start the prompt.
ConfirmPresence(o) ==
  /\ activeRequest = None
  /\ activeRequest' = o
  /\ prompt' = [prompt EXCEPT ![o] = "running"]
  /\ UNCHANGED verdict

\* ConfirmPresence refused: "other request already in progress".
PresenceBusy ==
  /\ activeRequest # None
  /\ UNCHANGED presenceVars

\* fprintd-verify ends: it matched, it did not, it could not start, or it
\* was killed by the request's timeout.
FingerprintResult(o, v) ==
  /\ prompt[o] = "running"
  /\ prompt' = [prompt EXCEPT ![o] = "offering"]
  /\ verdict' = [verdict EXCEPT ![o] = v]
  /\ UNCHANGED activeRequest

\* sendResult hands the verdict over; the receiver is at its select.
DeliverResult(o) ==
  /\ prompt[o] = "offering"
  /\ prompt' = [prompt EXCEPT ![o] = "clearing"]
  /\ UNCHANGED <<activeRequest, verdict>>

\* Mutated form: the offer has no time limit.
DropNever(o) == o \notin Ops

\* sendResult drops the verdict: nobody received it within two seconds.
\* (Its caller adds that no receiver is waiting.)
DropResult(o) == DeliverResult(o)

\* sendResult releases the gate.
Release(o) ==
  /\ prompt[o] = "clearing"
  /\ prompt' = [prompt EXCEPT ![o] = "done"]
  /\ activeRequest' = None
  /\ UNCHANGED verdict

-----------------------------------------------------------------------------

\* At most one fingerprint prompt is up, and the gate is held exactly as
\* long as one is: a request in progress is never forgotten (which would
\* put two prompts on the sensor at once), and the gate is never held by a
\* goroutine that has ended.
OnePrompt ==
  \A o \in Ops :
    prompt[o] \in {"running", "offering", "clearing"} <=> activeRequest = o

=============================================================================
