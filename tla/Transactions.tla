---------------------------- MODULE Transactions ----------------------------
(***************************************************************************)
(* What the transport of fidohid/ promises about the transactions of its   *)
(* hosts, without packets, goroutines and timers: a transaction belongs to *)
(* one channel, it is answered at most once, and it ends without an answer *)
(* only after it was aborted; a new message aborts no transaction of       *)
(* another channel, and nothing aborts two transactions of one channel at  *)
(* once.  CtapHid.tla implements it.                                       *)
(***************************************************************************)

CONSTANTS Ids, Channels, None

VARIABLES
  state,  \* of each transaction: "idle", "open", "aborted", "answered" or "dropped"
  chan    \* the channel of each transaction that has begun

vars == <<state, chan>>

Init ==
  /\ state = [t \in Ids |-> "idle"]
  /\ chan = [t \in Ids |-> None]

\* Sets of transactions that one step may abort.
Abortable(S) ==
  /\ \A t \in S : state[t] = "open"
  /\ \A t, u \in S : chan[t] = chan[u] => t = u

Aborted(S) == [t \in Ids |-> IF t \in S THEN "aborted" ELSE state[t]]

\* A message begins transaction t on channel c, and may end the patience
\* with an earlier one of that channel.
Begin(t, c) ==
  /\ state[t] = "idle"
  /\ \E S \in SUBSET {u \in Ids : chan[u] = c} :
       Abortable(S) /\ state' = [Aborted(S) EXCEPT ![t] = "open"]
  /\ chan' = [chan EXCEPT ![t] = c]

Abort ==
  /\ \E S \in SUBSET Ids : Abortable(S) /\ state' = Aborted(S)
  /\ UNCHANGED chan

\* An answer may still come after the abort: whichever is there first.
Answer(t) ==
  /\ state[t] \in {"open", "aborted"}
  /\ state' = [state EXCEPT ![t] = "answered"]
  /\ UNCHANGED chan

Drop(t) ==
  /\ state[t] = "aborted"
  /\ state' = [state EXCEPT ![t] = "dropped"]
  /\ UNCHANGED chan

Next ==
  \/ Abort
  \/ \E t \in Ids : Answer(t) \/ Drop(t) \/ \E c \in Channels : Begin(t, c)

Spec == Init /\ [][Next]_vars

=============================================================================
