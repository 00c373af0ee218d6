------------------------------ MODULE CtapHid ------------------------------
(***************************************************************************)
(* The CTAPHID transport of fidohid/fidohid.go: the run loop that handles  *)
(* the host's packets, the per-channel assembly of messages, and one       *)
(* goroutine per CTAPHID_CBOR transaction that waits for the command       *)
(* handler's result, for a cancellation or for the 30 s timeout.           *)
(*                                                                         *)
(* Message contents are abstracted to their length.  A transaction id      *)
(* stands for one call of handleCBOR and is used once.  Every step is one  *)
(* critical section of Device.mu, or one branch of a select.               *)
(***************************************************************************)
EXTENDS Integers, FiniteSets

CONSTANTS
  Cids,          \* channel ids other than 0 and broadcastCID
  Broadcast,     \* broadcastCID
  Txns,          \* one per call of handleCBOR (the bound on their number)
  Lengths,       \* the BCNT values hosts put in initialization packets
  HostCommands,  \* the commands hosts send, besides CTAPHID_INIT and CANCEL
  HostSeqs,      \* the sequence numbers hosts put in continuation packets
  InitDataLen,   \* initDataLen
  ContDataLen,   \* contDataLen
  MaxMessageLen, \* maxMessageLen
  None           \* Go's nil

ASSUME IdsAssumption ==
  /\ Broadcast \notin Cids
  /\ None \notin Cids \cup Txns

ASSUME LengthsAssumption ==
  /\ Lengths \subseteq Nat
  /\ HostSeqs \subseteq 0 .. 127
  /\ InitDataLen \in Nat \ {0}
  /\ ContDataLen \in Nat \ {0}
  /\ MaxMessageLen \in Nat

\* A packet carries seven bits of sequence number (bit 7 marks an
\* initialization packet); maxMessageLen is small enough for them.
ASSUME SeqAssumption == MaxMessageLen <= InitDataLen + 128 * ContDataLen

\* CTAPHID commands as dispatchCommand tells them apart: PING, MSG and
\* the unknown ones are answered by the run loop without a transaction.
Commands == {"cbor", "other"}

ASSUME CommandsAssumption == HostCommands \subseteq Commands

VARIABLES
  channels,   \* Device.channels: the channel of each id, or None
  txn,        \* the goroutine of each transaction
  loop,       \* the run loop: "idle", the id a CTAPHID_INIT is about to register, or "exited"
  stopping,   \* the context given to Run is cancelled
  closed      \* Close has run

vars == <<channels, txn, loop, stopping, closed>>

Channel ==
  [cmd : Commands \cup {None}, totalLen : 0 .. MaxMessageLen, got : Nat,
   seqNum : 0 .. 255, stale : BOOLEAN, cancel : Txns \cup {None}]

\* stage is the program counter of handleCBOR, ctx the state of its context,
\* worker the goroutine that runs HandleCommand, replied whether a response
\* was sent.
Txn ==
  [stage : {"unused", "spawned", "running", "clearing", "done"},
   cid : Cids \cup {None},
   ctx : {"live", "cancelled", "expired", "released"},
   worker : {"none", "working", "returned"},
   replied : BOOLEAN]

TypeOK ==
  /\ channels \in [Cids -> Channel \cup {None}]
  /\ txn \in [Txns -> Txn]
  /\ loop \in Cids \cup {"idle", "exited"}
  /\ stopping \in BOOLEAN
  /\ closed \in BOOLEAN

-----------------------------------------------------------------------------

FreshChannel ==
  [cmd |-> None, totalLen |-> 0, got |-> 0, seqNum |-> 0,
   stale |-> FALSE, cancel |-> None]

UnusedTxn ==
  [stage |-> "unused", cid |-> None, ctx |-> "live", worker |-> "none",
   replied |-> FALSE]

Init ==
  /\ channels = [c \in Cids |-> None]
  /\ txn = [t \in Txns |-> UnusedTxn]
  /\ loop = "idle"
  /\ stopping = FALSE
  /\ closed = FALSE

Least(a, b) == IF a <= b THEN a ELSE b

Exists(c) == channels[c] # None

\* Mutated form: of any channel.
StoredAnywhere(cs) == {t \in Txns : \E c \in Cids : Exists(c) /\ channels[c].cancel = t}

\* The cancel functions stored in the channels of a set of ids.
Stored(cs) == {t \in Txns : \E c \in cs : Exists(c) /\ channels[c].cancel = t}

\* Calling a context's cancel function: the first cause of its end sticks.
Cancelled(r) == IF r.ctx = "live" THEN [r EXCEPT !.ctx = "cancelled"] ELSE r

CancelAll(ts) == [t \in Txns |-> IF t \in ts THEN Cancelled(txn[t]) ELSE txn[t]]

\* dispatchCommand, as part of the step that completes a message: a
\* non-empty CBOR message starts a goroutine; an empty one and every other
\* command is answered at once (PING, errors).
Dispatch(c, cmd, n, txns) ==
  IF cmd = "cbor" /\ n > 0
  THEN \E t \in Txns :
         /\ txns[t].stage = "unused"
         /\ txn' = [txns EXCEPT ![t] = [@ EXCEPT !.stage = "spawned", !.cid = c]]
  ELSE txn' = txns

-----------------------------------------------------------------------------
(* The run loop: one packet at a time.                                     *)

TooLongAccepted(n) == n <= MaxMessageLen + 1  \* mutated form: off by one

\* The test of bcnt against maxMessageLen.
Accepted(n) == n <= MaxMessageLen

\* handleInitPacket: an initialization packet refused with an error.
RejectInit(c, cmd, n) ==
  /\ loop = "idle"
  /\ \/ cmd = "init" /\ n # 8
     \/ cmd # "init" /\ (c = Broadcast \/ ~Accepted(n))
  /\ UNCHANGED vars

\* handleInitPacket with CTAPHID_CANCEL.
HandleCancel(c) ==
  /\ loop = "idle"
  /\ txn' = CancelAll(Stored({c}))
  /\ UNCHANGED <<channels, loop, stopping, closed>>

\* handleInitPacket that starts a message: the channel's transaction is
\* cancelled, the channel replaced, and a one-packet message dispatched.
\* The replaced channel keeps totalLen even when the message is complete.
BeginMessage(c, cmd, n) ==
  LET got == Least(n, InitDataLen)
      complete == got >= n
  IN /\ loop = "idle"
     /\ Accepted(n)
     /\ channels' = [channels EXCEPT ![c] =
                       [cmd |-> cmd, totalLen |-> n, got |-> got, seqNum |-> 0,
                        stale |-> FALSE, cancel |-> None]]
     /\ IF complete THEN Dispatch(c, cmd, n, CancelAll(Stored({c})))
                    ELSE txn' = CancelAll(Stored({c}))
     /\ UNCHANGED <<loop, stopping, closed>>

\* handleContPacket refused: no message is being assembled, or a wrong
\* sequence number, which leaves the assembly as it was.
RejectCont(c, seq) ==
  /\ loop = "idle"
  /\ IF Exists(c) /\ channels[c].totalLen # 0
     THEN seq # channels[c].seqNum
     ELSE TRUE
  /\ UNCHANGED vars

\* The channel after one more packet: as much of it as the message lacks.
ExtendKeepSeq(ch) ==  \* mutated form: seqNum is not advanced
  [ch EXCEPT !.got = @ + Least(ch.totalLen - @, ContDataLen), !.stale = FALSE]

Extend(ch) ==
  [ch EXCEPT !.got = @ + Least(ch.totalLen - @, ContDataLen),
             !.seqNum = (@ + 1) % 256, !.stale = FALSE]

\* The message is complete: the channel stays, its message does not.
Reset(ch) == [ch EXCEPT !.totalLen = 0, !.got = 0]

\* handleContPacket accepted.
Continue(c, seq) ==
  LET ch == channels[c]
      next == Extend(ch)
      complete == next.got >= ch.totalLen
  IN /\ loop = "idle"
     /\ Exists(c)
     /\ ch.totalLen # 0
     /\ seq = ch.seqNum
     /\ channels' = [channels EXCEPT ![c] =
                       IF complete THEN Reset(next) ELSE next]
     /\ IF complete THEN Dispatch(c, ch.cmd, ch.totalLen, txn)
                    ELSE txn' = txn
     /\ UNCHANGED <<loop, stopping, closed>>

\* handleInit on the broadcast channel: allocateCID picks a free id.
AllocateCID(c) ==
  /\ loop = "idle"
  /\ ~Exists(c)
  /\ loop' = c
  /\ UNCHANGED <<channels, txn, stopping, closed>>

\* handleInit on an allocated channel: its transaction is cancelled.
Resync(c) ==
  /\ loop = "idle"
  /\ txn' = CancelAll(Stored({c}))
  /\ loop' = c
  /\ UNCHANGED <<channels, stopping, closed>>

\* handleInit, its second critical section: register the channel, respond.
RegisterChannel ==
  /\ loop \in Cids
  /\ channels' = [channels EXCEPT ![loop] = FreshChannel]
  /\ loop' = "idle"
  /\ UNCHANGED <<txn, stopping, closed>>

-----------------------------------------------------------------------------
(* handleCBOR, one goroutine per transaction.                              *)

\* Create the context, store its cancel function (in a new channel if the
\* id has none any more) and start the worker.
StoreCancel(t) ==
  LET c == txn[t].cid
  IN /\ txn[t].stage = "spawned"
     /\ channels' = [channels EXCEPT ![c] =
                       [(IF Exists(c) THEN @ ELSE FreshChannel) EXCEPT !.cancel = t]]
     /\ txn' = [txn EXCEPT ![t] = [@ EXCEPT !.stage = "running", !.worker = "working"]]
     /\ UNCHANGED <<loop, stopping, closed>>

\* HandleCommand returns; the result waits in a buffered channel.
WorkerReturn(t) ==
  /\ txn[t].worker = "working"
  /\ txn' = [txn EXCEPT ![t] = [@ EXCEPT !.worker = "returned"]]
  /\ UNCHANGED <<channels, loop, stopping, closed>>

\* Mutated form: the context has no timeout.
ExpireNever(t) == t \notin Txns

\* The 30 s of the transaction's context have passed.
Expire(t) ==
  /\ txn[t].stage \in {"running", "clearing"}
  /\ txn[t].ctx = "live"
  /\ txn' = [txn EXCEPT ![t] = [@ EXCEPT !.ctx = "expired"]]
  /\ UNCHANGED <<channels, loop, stopping, closed>>

\* select: the result is there (the context may be done as well).
SendResult(t) ==
  /\ txn[t].stage = "running"
  /\ txn[t].worker = "returned"
  /\ txn' = [txn EXCEPT ![t] = [@ EXCEPT !.stage = "clearing", !.replied = TRUE]]
  /\ UNCHANGED <<channels, loop, stopping, closed>>

\* select: the ticker; a keepalive is sent.
Keepalive(t) ==
  /\ txn[t].stage = "running"
  /\ UNCHANGED vars

\* Mutated form: the goroutine returns on a tick.
GiveUpOnTick(t) ==
  /\ txn[t].stage = "running"
  /\ txn' = [txn EXCEPT ![t] = [@ EXCEPT !.stage = "clearing"]]
  /\ UNCHANGED <<channels, loop, stopping, closed>>

\* select: the context is done; nothing is sent.
GiveUp(t) ==
  /\ txn[t].stage = "running"
  /\ txn[t].ctx # "live"
  /\ txn' = [txn EXCEPT ![t] = [@ EXCEPT !.stage = "clearing"]]
  /\ UNCHANGED <<channels, loop, stopping, closed>>

\* The goroutine returns; its deferred cancel releases the context.
Ended(r) ==
  [r EXCEPT !.stage = "done", !.ctx = IF @ = "live" THEN "released" ELSE @]

\* Mutated form: the cancel function is not reset.
ClearCancelMissing(t) ==
  /\ txn[t].stage = "clearing"
  /\ txn' = [txn EXCEPT ![t] = Ended(@)]
  /\ UNCHANGED <<channels, loop, stopping, closed>>

\* Reset the cancel function of whatever channel has the id now.
ClearCancel(t) ==
  LET c == txn[t].cid
  IN /\ txn[t].stage = "clearing"
     /\ channels' = [channels EXCEPT ![c] =
                       IF Exists(c) THEN [@ EXCEPT !.cancel = None] ELSE @]
     /\ txn' = [txn EXCEPT ![t] = Ended(@)]
     /\ UNCHANGED <<loop, stopping, closed>>

-----------------------------------------------------------------------------
(* Time, the cleanup goroutine and the end of the device.                  *)

\* More than channelTimeout has passed since the channel's lastSeen.
GoStale(c) ==
  /\ Exists(c)
  /\ ~channels[c].stale
  /\ channels' = [channels EXCEPT ![c].stale = TRUE]
  /\ UNCHANGED <<txn, loop, stopping, closed>>

\* A tick of cleanupChannels.  Its select may still take a tick that is
\* ready together with the end of the context.
Cleanup ==
  LET old == {c \in Cids : Exists(c) /\ channels[c].stale}
  IN /\ old # {}
     /\ txn' = CancelAll(Stored(old))
     /\ channels' = [c \in Cids |-> IF c \in old THEN None ELSE channels[c]]
     /\ UNCHANGED <<loop, stopping, closed>>

\* The caller cancels the context of Run.
Stop ==
  /\ ~stopping
  /\ stopping' = TRUE
  /\ UNCHANGED <<channels, txn, loop, closed>>

\* Run returns, between two packets: it sees the end of its context, or the
\* event channel of /dev/uhid is closed.
ExitLoop ==
  /\ loop = "idle"
  /\ loop' = "exited"
  /\ UNCHANGED <<channels, txn, stopping, closed>>

\* Close, which the caller runs after cancelling the context, next to a
\* run loop that may still be handling a packet.
Close ==
  /\ stopping
  /\ ~closed
  /\ txn' = CancelAll(Stored(Cids))
  /\ channels' = [c \in Cids |-> None]
  /\ closed' = TRUE
  /\ UNCHANGED <<loop, stopping>>

-----------------------------------------------------------------------------

Host ==
  \/ \E c \in Cids \cup {Broadcast}, cmd \in HostCommands \cup {"init"}, n \in Lengths :
       RejectInit(c, cmd, n)
  \/ \E c \in Cids : HandleCancel(c) \/ AllocateCID(c) \/ Resync(c)
  \/ \E c \in Cids, cmd \in HostCommands, n \in Lengths : BeginMessage(c, cmd, n)
  \/ \E c \in Cids, seq \in HostSeqs : RejectCont(c, seq) \/ Continue(c, seq)

Goroutine(t) ==
  StoreCancel(t) \/ SendResult(t) \/ Keepalive(t) \/ GiveUp(t) \/ ClearCancel(t)

Next ==
  \/ Host
  \/ RegisterChannel
  \/ \E t \in Txns : Goroutine(t) \/ WorkerReturn(t) \/ Expire(t)
  \/ \E c \in Cids : GoStale(c)
  \/ Cleanup
  \/ Stop
  \/ ExitLoop
  \/ Close

Spec == Init /\ [][Next]_vars

\* What transaction t waits for, when it is not the host or HandleCommand:
\* its goroutine's own steps and its timer.
Advance(t) ==
  StoreCancel(t) \/ Expire(t) \/ SendResult(t) \/ GiveUp(t) \/ ClearCancel(t)

\* The Go scheduler runs every goroutine that can take a step, and timers
\* fire.  Nothing is assumed of the host, nor that HandleCommand returns,
\* nor of the order in which a select finds its branches ready.
TxnFairness(t) == WF_vars(Advance(t))

Fairness == \A t \in Txns : TxnFairness(t)

FairSpec == Spec /\ Fairness

-----------------------------------------------------------------------------
(* Properties.                                                             *)

\* Assembly never reads or writes outside a message: the bytes held never
\* exceed the announced length, so `remaining` is never negative and
\* ch.data[:ch.totalLen] is in range; an incomplete message holds exactly
\* what its accepted packets carried, and the sequence number it expects
\* fits the seven bits of a packet, so no message within maxMessageLen gets
\* stuck.
AssemblyInBounds ==
  \A c \in Cids :
    Exists(c) /\ channels[c].totalLen > 0 =>
      LET ch == channels[c]
      IN /\ ch.got <= ch.totalLen
         /\ ch.got < ch.totalLen =>
              /\ ch.got = InitDataLen + ch.seqNum * ContDataLen
              /\ ch.seqNum \in 0 .. 127

\* The cancel function a channel holds belongs to a transaction of that
\* channel that has not finished: CANCEL, a re-synchronisation, the cleanup
\* and Close never act on a context whose goroutine is gone, whatever
\* transactions overlap on the channel.
StoredCancelIsCurrent ==
  \A c \in Cids :
    Exists(c) /\ channels[c].cancel # None =>
      LET t == txn[channels[c].cancel]
      IN t.cid = c /\ t.stage \in {"running", "clearing"}

\* A transaction that ends without a response to the host was cancelled by
\* the host or by the device's end, or ran into its timeout; one that
\* answered has a result of its handler.
SilentOnlyIfAborted ==
  \A t \in Txns :
    /\ txn[t].stage = "done" /\ ~txn[t].replied =>
         txn[t].ctx \in {"cancelled", "expired"}
    /\ txn[t].replied => txn[t].worker = "returned"

Unfinished(t) == txn[t].stage \in {"spawned", "running", "clearing"}

\* What the liveness theorem assumes of ENABLED: an unfinished transaction
\* has a step of its own, which needs neither its handler nor the host.
GuardsEnable == \A t \in Txns : Unfinished(t) => ENABLED <<Advance(t)>>_vars

\* Every transaction ends, even when the host goes away and the command
\* handler never returns: the goroutine of handleCBOR cannot leak.
TransactionsEnd ==
  \A t \in Txns : (txn[t].stage = "spawned") ~> (txn[t].stage = "done")

\* A transaction as the host sees it: the goroutine's steps before its
\* select and the deferred cancel are hidden.
Seen(r) ==
  CASE r.stage = "unused" -> "idle"
    [] r.stage \in {"spawned", "running"} -> IF r.ctx = "live" THEN "open" ELSE "aborted"
    [] OTHER -> IF r.replied THEN "answered" ELSE "dropped"

HostView ==
  INSTANCE Transactions WITH
    Ids <- Txns,
    Channels <- Cids,
    state <- [t \in Txns |-> Seen(txn[t])],
    chan <- [t \in Txns |-> txn[t].cid]

\* However packets, goroutines, timers, the cleanup and Close interleave,
\* every transaction is answered at most once or dropped after an abort,
\* and an abort reaches one transaction of a channel, never, when it comes
\* from a new message, one of another channel.
ImplementsTransactions == HostView!Spec

\* Claim of the comments at lines 280 and 315 ("If the full message fits
\* in one packet, dispatch immediately", "Reset channel state but keep it
\* alive"): a message is complete, and dispatched, once; a continuation
\* packet is accepted only while bytes of the message are missing.
DispatchedOnce ==
  [][\A c \in Cids : Exists(c) /\ Exists(c)'
        /\ channels'[c].seqNum = channels[c].seqNum + 1 =>
          channels[c].got < channels[c].totalLen]_vars

\* Claim of the comment at line 177 ("Cancel all in-progress operations"):
\* the step that closes the device leaves no running transaction live.
CloseCancelsAll ==
  [][closed' /\ ~closed =>
       \A t \in Txns : txn[t].stage = "running" => txn'[t].ctx # "live"]_vars

=============================================================================
