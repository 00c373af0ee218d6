---------------------------- MODULE UserConsent ----------------------------
(***************************************************************************)
(* What the command handler of ctap2/ promises to the user, without its    *)
(* goroutines, prompts, timeouts and shared state: for every operation the *)
(* user's consent is open until it is given or withdrawn, once and for     *)
(* all, and only an operation whose consent was given makes a key or has   *)
(* responses signed.  Authenticator.tla implements it.                     *)
(***************************************************************************)

CONSTANTS Ops, None

VARIABLES
  consent,   \* of each operation: "open", "given" or "withdrawn"
  key,       \* the operation has made a key
  signedFor  \* the operation whose consent each signed response used

vars == <<consent, key, signedFor>>

Init ==
  /\ consent = [o \in Ops |-> "open"]
  /\ key = [o \in Ops |-> FALSE]
  /\ signedFor = [o \in Ops |-> None]

Decide(o, c) ==
  /\ consent[o] = "open"
  /\ consent' = [consent EXCEPT ![o] = c]
  /\ UNCHANGED <<key, signedFor>>

Give(o) == Decide(o, "given")
Withdraw(o) == Decide(o, "withdrawn")

MakeKey(o) ==
  /\ consent[o] = "given" /\ ~key[o]
  /\ key' = [key EXCEPT ![o] = TRUE]
  /\ UNCHANGED <<consent, signedFor>>

\* One response of operation o, signed on the consent given to operation by.
Sign(o, by) ==
  /\ signedFor[o] = None /\ consent[by] = "given"
  /\ signedFor' = [signedFor EXCEPT ![o] = by]
  /\ UNCHANGED <<consent, key>>

Next ==
  \E o \in Ops :
    Give(o) \/ Withdraw(o) \/ MakeKey(o) \/ \E by \in Ops : Sign(o, by)

Spec == Init /\ [][Next]_vars

=============================================================================
