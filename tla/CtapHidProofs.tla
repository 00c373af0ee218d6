---------------------------- MODULE CtapHidProofs ----------------------------
(***************************************************************************)
(* Theorems about CtapHid, for any number of channels and transactions and *)
(* any packet sizes that satisfy the module's assumptions.                 *)
(***************************************************************************)
EXTENDS CtapHid, TLAPS

\* What the safety properties rest on, beside TypeOK: the state of an
\* ended or ending transaction says why it ends, and a context is released
\* only by its own goroutine's return.
Explained(r) ==
  /\ r.stage # "unused" => r.cid \in Cids
  /\ r.stage \in {"clearing", "done"} /\ ~r.replied => r.ctx \in {"cancelled", "expired"}
  /\ r.ctx = "released" => r.stage = "done"
  /\ r.stage \in {"unused", "spawned", "running"} => ~r.replied
  /\ r.replied => r.worker = "returned"

EndingExplained == \A t \in Txns : Explained(txn[t])

IInv ==
  /\ TypeOK
  /\ AssemblyInBounds
  /\ StoredCancelIsCurrent
  /\ EndingExplained

-----------------------------------------------------------------------------
(* Facts about the operators the actions are built from.                   *)

LEMMA LeastBounds ==
  ASSUME NEW a \in Nat, NEW b \in Nat
  PROVE  /\ Least(a, b) \in Nat
         /\ Least(a, b) <= a
         /\ Least(a, b) <= b
         /\ Least(a, b) = a \/ Least(a, b) = b
BY DEF Least

\* If k packets leave a message incomplete, seven bits number the next one.
LEMMA SeqFits ==
  ASSUME NEW n \in Nat, n <= MaxMessageLen,
         NEW k \in Nat, InitDataLen + k * ContDataLen < n
  PROVE  k < 128
<1>1. k * ContDataLen < 128 * ContDataLen
  <2>1. k * ContDataLen \in Int /\ 128 * ContDataLen \in Int
    BY LengthsAssumption
  <2> QED BY <2>1, SeqAssumption, LengthsAssumption
<1>2. ASSUME k >= 128 PROVE FALSE
  <2>1. PICK d \in Nat : k = 128 + d
    BY <1>2
  <2>2. k * ContDataLen = 128 * ContDataLen + d * ContDataLen
    BY <2>1, LengthsAssumption
  <2>3. d * ContDataLen >= 0
    BY LengthsAssumption
  <2> QED BY <1>1, <2>2, <2>3, LengthsAssumption
<1> QED BY <1>2

\* Cancelling a transaction changes nothing but a live context; dispatching
\* starts an unused one for the message's channel.
CancelledFrom(r, s) ==
  /\ s \in Txn
  /\ s.stage = r.stage /\ s.cid = r.cid
  /\ s.worker = r.worker /\ s.replied = r.replied
  /\ s.ctx = r.ctx \/ (r.ctx = "live" /\ s.ctx = "cancelled")

StartedFrom(r, s, c) ==
  /\ r.stage = "unused"
  /\ s = [r EXCEPT !.stage = "spawned", !.cid = c]

LEMMA CancelAllFacts ==
  ASSUME TypeOK, NEW ts
  PROVE  /\ CancelAll(ts) \in [Txns -> Txn]
         /\ \A t \in Txns : CancelledFrom(txn[t], CancelAll(ts)[t])
<1>1. ASSUME NEW t \in Txns
      PROVE  txn[t] \in Txn /\ CancelledFrom(txn[t], txn[t])
  BY DEF TypeOK, CancelledFrom
<1>2. ASSUME NEW t \in Txns
      PROVE  CancelledFrom(txn[t], Cancelled(txn[t]))
  BY <1>1 DEF Cancelled, Txn, CancelledFrom
<1> QED BY <1>1, <1>2 DEF CancelAll, CancelledFrom

LEMMA DispatchFacts ==
  ASSUME NEW c \in Cids, NEW cmd, NEW n, NEW txns \in [Txns -> Txn],
         Dispatch(c, cmd, n, txns)
  PROVE  /\ txn' \in [Txns -> Txn]
         /\ \A t \in Txns : txn'[t] = txns[t] \/ StartedFrom(txns[t], txn'[t], c)
<1>1. CASE txn' = txns
  BY <1>1
<1>2. CASE \E t \in Txns :
             /\ txns[t].stage = "unused"
             /\ txn' = [txns EXCEPT ![t] = [@ EXCEPT !.stage = "spawned", !.cid = c]]
  <2>1. PICK t \in Txns :
          /\ txns[t].stage = "unused"
          /\ txn' = [txns EXCEPT ![t] = [@ EXCEPT !.stage = "spawned", !.cid = c]]
    BY <1>2
  <2>2. [txns[t] EXCEPT !.stage = "spawned", !.cid = c] \in Txn
    BY DEF Txn
  <2> QED BY <2>1, <2>2 DEF StartedFrom
<1> QED BY <1>1, <1>2 DEF Dispatch

\* What a run-loop step does to transactions keeps them explained, and
\* touches neither the stage nor the channel of one past StoreCancel.
Handled(c) ==
  /\ txn' \in [Txns -> Txn]
  /\ \A t \in Txns :
       \E s \in Txn :
         /\ CancelledFrom(txn[t], s)
         /\ txn'[t] = s \/ StartedFrom(s, txn'[t], c)

LEMMA CancelledExplained ==
  ASSUME NEW r, NEW s, Explained(r), CancelledFrom(r, s)
  PROVE  Explained(s)
BY DEF Explained, CancelledFrom

LEMMA StartedExplained ==
  ASSUME NEW r \in Txn, NEW s, NEW c \in Cids, Explained(r), StartedFrom(r, s, c)
  PROVE  Explained(s)
<1>1. /\ s.stage = "spawned" /\ s.cid = c
      /\ s.ctx = r.ctx /\ s.worker = r.worker /\ s.replied = r.replied
  BY DEF StartedFrom, Txn
<1> QED BY <1>1 DEF Explained, StartedFrom

LEMMA HandledIsSafe ==
  ASSUME IInv, NEW c \in Cids, Handled(c)
  PROVE  /\ EndingExplained'
         /\ \A t \in Txns : txn[t].stage \in {"running", "clearing"} =>
              txn'[t].stage = txn[t].stage /\ txn'[t].cid = txn[t].cid
<1> SUFFICES ASSUME NEW t \in Txns
             PROVE  /\ Explained(txn'[t])
                    /\ txn[t].stage \in {"running", "clearing"} =>
                         txn'[t].stage = txn[t].stage /\ txn'[t].cid = txn[t].cid
  BY DEF EndingExplained
<1>1. Explained(txn[t])
  BY DEF IInv, EndingExplained
<1>2. PICK s \in Txn :
        /\ CancelledFrom(txn[t], s)
        /\ txn'[t] = s \/ StartedFrom(s, txn'[t], c)
  BY DEF Handled
<1>3. Explained(s)
  BY <1>1, <1>2, CancelledExplained
<1>4. CASE txn'[t] = s
  BY <1>2, <1>3, <1>4 DEF CancelledFrom
<1>5. CASE StartedFrom(s, txn'[t], c)
  <2>1. Explained(txn'[t])
    BY <1>3, <1>5, StartedExplained
  <2>2. txn[t].stage = "unused"
    BY <1>2, <1>5 DEF CancelledFrom, StartedFrom
  <2> QED BY <2>1, <2>2
<1> QED BY <1>2, <1>4, <1>5

LEMMA DispatchIsHandled ==
  ASSUME IInv, NEW c \in Cids, NEW cmd, NEW n,
         NEW txns \in [Txns -> Txn],
         \A t \in Txns : CancelledFrom(txn[t], txns[t]),
         Dispatch(c, cmd, n, txns) \/ txn' = txns
  PROVE  Handled(c)
BY DispatchFacts DEF Handled

\* A stored cancel function stays current if channels lose it or keep it,
\* and the transactions past StoreCancel stay where they are.
LEMMA KeepCurrent ==
  ASSUME IInv,
         \A c \in Cids :
           \/ channels'[c] = None
           \/ channels'[c].cancel = None
           \/ channels[c] # None /\ channels'[c].cancel = channels[c].cancel,
         \A t \in Txns : txn[t].stage \in {"running", "clearing"} =>
           /\ txn'[t].stage \in {"running", "clearing"}
           /\ txn'[t].cid = txn[t].cid
  PROVE  StoredCancelIsCurrent'
<1> SUFFICES ASSUME NEW c \in Cids, channels'[c] # None, channels'[c].cancel # None
             PROVE  /\ txn'[channels'[c].cancel].cid = c
                    /\ txn'[channels'[c].cancel].stage \in {"running", "clearing"}
  BY DEF StoredCancelIsCurrent, Exists
<1>1. channels[c] # None /\ channels'[c].cancel = channels[c].cancel
  OBVIOUS
<1>2. channels[c].cancel \in Txns
  BY <1>1 DEF IInv, TypeOK, Channel
<1> QED BY <1>1, <1>2 DEF IInv, StoredCancelIsCurrent, Exists

\* The channel records the actions write are well typed.
LEMMA ChannelTypes ==
  /\ FreshChannel \in Channel
  /\ \A ch \in Channel, t \in Txns \cup {None} : [ch EXCEPT !.cancel = t] \in Channel
  /\ \A ch \in Channel : [ch EXCEPT !.stale = TRUE] \in Channel
<1>1. FreshChannel \in Channel
  <2>1. 0 \in 0 .. MaxMessageLen /\ 0 \in 0 .. 255
    BY LengthsAssumption
  <2> QED BY <2>1 DEF FreshChannel, Channel
<1>2. ASSUME NEW ch \in Channel, NEW t \in Txns \cup {None}
      PROVE  [ch EXCEPT !.cancel = t] \in Channel
  BY DEF Channel
<1>3. ASSUME NEW ch \in Channel
      PROVE  [ch EXCEPT !.stale = TRUE] \in Channel
  BY DEF Channel
<1> QED BY <1>1, <1>2, <1>3

-----------------------------------------------------------------------------
(* The invariant holds initially, and every action preserves it.           *)

LEMMA InitIInv == Init => IInv
<1> SUFFICES ASSUME Init PROVE IInv
  OBVIOUS
<1>1. TypeOK
  <2>1. UnusedTxn \in Txn
    BY DEF UnusedTxn, Txn
  <2> QED BY <2>1 DEF Init, TypeOK
<1>2. AssemblyInBounds /\ StoredCancelIsCurrent
  BY DEF Init, AssemblyInBounds, StoredCancelIsCurrent, Exists
<1>3. EndingExplained
  BY DEF Init, EndingExplained, Explained, UnusedTxn
<1> QED BY <1>1, <1>2, <1>3 DEF IInv

\* Steps that only cancel contexts, and may forget channels.
LEMMA CancelStep ==
  ASSUME IInv, NEW ts, txn' = CancelAll(ts),
         NEW gone \in SUBSET Cids,
         channels' = [c \in Cids |-> IF c \in gone THEN None ELSE channels[c]]
  PROVE  /\ channels' \in [Cids -> Channel \cup {None}]
         /\ txn' \in [Txns -> Txn]
         /\ AssemblyInBounds'
         /\ StoredCancelIsCurrent'
         /\ EndingExplained'
<1>1. channels' \in [Cids -> Channel \cup {None}]
  BY DEF IInv, TypeOK
<1>2. txn' \in [Txns -> Txn] /\ \A t \in Txns : CancelledFrom(txn[t], txn'[t])
  BY CancelAllFacts DEF IInv
<1>3. AssemblyInBounds'
  BY DEF IInv, AssemblyInBounds, Exists
<1>4. StoredCancelIsCurrent'
  BY <1>2, KeepCurrent DEF CancelledFrom
<1>5. EndingExplained'
  BY <1>2 DEF IInv, EndingExplained, Explained, CancelledFrom
<1> QED BY <1>1, <1>2, <1>3, <1>4, <1>5

LEMMA BeginMessageStep ==
  ASSUME IInv, NEW c \in Cids, NEW cmd \in HostCommands, NEW n \in Lengths,
         BeginMessage(c, cmd, n)
  PROVE  IInv'
<1>1. PICK got \in Nat : got = Least(n, InitDataLen)
  BY LengthsAssumption, LeastBounds
<1>2. n \in Nat /\ n <= MaxMessageLen /\ got <= n /\ (got < n => got = InitDataLen)
  BY <1>1, LengthsAssumption DEF BeginMessage, Accepted, Least
<1>3. PICK ch : ch = [cmd |-> cmd, totalLen |-> n, got |-> got, seqNum |-> 0,
                      stale |-> FALSE, cancel |-> None]
  OBVIOUS
<1>4. channels' = [channels EXCEPT ![c] = ch]
  BY <1>1, <1>3 DEF BeginMessage
<1>5. /\ ch \in Channel
      /\ ch.cancel = None /\ ch.totalLen = n /\ ch.got = got /\ ch.seqNum = 0
  <2>1. cmd \in Commands /\ n \in 0 .. MaxMessageLen /\ 0 \in 0 .. 255
    BY <1>2, CommandsAssumption, LengthsAssumption
  <2> QED BY <1>3, <2>1 DEF Channel
<1>6. Handled(c)
  <2>1. PICK txns \in [Txns -> Txn] :
          /\ txns = CancelAll(Stored({c}))
          /\ \A t \in Txns : CancelledFrom(txn[t], txns[t])
    BY CancelAllFacts DEF IInv
  <2>2. Dispatch(c, cmd, n, txns) \/ txn' = txns
    BY <2>1 DEF BeginMessage
  <2> QED BY <2>1, <2>2, DispatchIsHandled
<1>7. TypeOK'
  BY <1>4, <1>5, <1>6 DEF IInv, TypeOK, BeginMessage, Handled
<1>8. AssemblyInBounds'
  BY <1>2, <1>4, <1>5, LengthsAssumption DEF IInv, TypeOK, AssemblyInBounds, Exists
<1>9. StoredCancelIsCurrent'
  BY <1>4, <1>5, <1>6, HandledIsSafe, KeepCurrent DEF IInv, TypeOK
<1>10. EndingExplained'
  BY <1>6, HandledIsSafe
<1> QED BY <1>7, <1>8, <1>9, <1>10 DEF IInv

\* What one more packet does to a channel that is assembling a message.
LEMMA ExtendFacts ==
  ASSUME NEW ch \in Channel, ch.got <= ch.totalLen
  PROVE  /\ Extend(ch) \in Channel
         /\ Extend(ch).totalLen = ch.totalLen /\ Extend(ch).cancel = ch.cancel
         /\ Extend(ch).seqNum = (ch.seqNum + 1) % 256
         /\ Extend(ch).got \in Nat /\ Extend(ch).got <= ch.totalLen
         /\ Extend(ch).got < ch.totalLen => Extend(ch).got = ch.got + ContDataLen
<1>1. /\ ch.totalLen \in Nat /\ ch.got \in Nat /\ ch.seqNum \in 0 .. 255
      /\ ch.totalLen - ch.got \in Nat
  BY LengthsAssumption DEF Channel
<1>2. PICK k \in 0 .. 255 : k = (ch.seqNum + 1) % 256
  BY <1>1
<1>3. PICK m \in Nat :
        /\ m = Least(ch.totalLen - ch.got, ContDataLen)
        /\ ch.got + m <= ch.totalLen
        /\ ch.got + m < ch.totalLen => m = ContDataLen
  BY <1>1, LengthsAssumption DEF Least
<1>4. Extend(ch) = [ch EXCEPT !.got = ch.got + m, !.seqNum = k, !.stale = FALSE]
  BY <1>2, <1>3 DEF Extend, Channel
<1>5. ch.got + m \in Nat
  BY <1>1, <1>3
<1>6. /\ Extend(ch).totalLen = ch.totalLen /\ Extend(ch).cancel = ch.cancel
      /\ Extend(ch).cmd = ch.cmd /\ Extend(ch).stale = FALSE
      /\ Extend(ch).seqNum = k /\ Extend(ch).got = ch.got + m
  BY <1>4 DEF Channel
<1>7. Extend(ch) \in Channel
  <2>1. PICK r1 \in Channel : r1 = [ch EXCEPT !.got = ch.got + m]
    BY <1>5 DEF Channel
  <2>2. PICK r2 \in Channel : r2 = [r1 EXCEPT !.seqNum = k]
    BY DEF Channel
  <2>3. [r2 EXCEPT !.stale = FALSE] \in Channel
    BY DEF Channel
  <2> QED BY <1>4, <2>1, <2>2, <2>3
<1> QED BY <1>2, <1>3, <1>5, <1>6, <1>7

LEMMA ResetFacts ==
  ASSUME NEW ch \in Channel
  PROVE  Reset(ch) \in Channel /\ Reset(ch).totalLen = 0 /\ Reset(ch).cancel = ch.cancel
<1>1. 0 \in 0 .. MaxMessageLen
  BY LengthsAssumption
<1> QED BY <1>1 DEF Reset, Channel

LEMMA ContinueStep ==
  ASSUME IInv, NEW c \in Cids, NEW seq, Continue(c, seq)
  PROVE  IInv'
<1> DEFINE ch == channels[c]
           next == Extend(ch)
<1>1. /\ ch \in Channel /\ channels[c] # None /\ ch.totalLen # 0
      /\ ch.totalLen \in Nat /\ ch.totalLen <= MaxMessageLen /\ ch.got \in Nat
      /\ ch.seqNum \in 0 .. 255
  BY LengthsAssumption DEF Continue, Exists, IInv, TypeOK, Channel
<1>2. /\ ch.got <= ch.totalLen
      /\ ch.got < ch.totalLen =>
           ch.got = InitDataLen + ch.seqNum * ContDataLen /\ ch.seqNum \in 0 .. 127
  BY <1>1 DEF IInv, AssemblyInBounds, Exists
<1>3. /\ next \in Channel
      /\ next.totalLen = ch.totalLen /\ next.cancel = ch.cancel
      /\ next.seqNum = (ch.seqNum + 1) % 256
      /\ next.got \in Nat /\ next.got <= ch.totalLen
      /\ next.got < ch.totalLen => next.got = ch.got + ContDataLen
  BY <1>1, <1>2, ExtendFacts
<1>4. \/ next.got < ch.totalLen /\ channels' = [channels EXCEPT ![c] = next]
      \/ channels' = [channels EXCEPT ![c] = Reset(next)]
  <2>1. channels' = [channels EXCEPT ![c] =
                       IF next.got >= ch.totalLen THEN Reset(next) ELSE next]
    BY DEF Continue
  <2> HIDE DEF ch, next
  <2>2. next.got >= ch.totalLen \/ (next.got < ch.totalLen /\ ~(next.got >= ch.totalLen))
    BY <1>1, <1>3
  <2> QED BY <2>1, <2>2
<1>5. Handled(c)
  <2>1. \A t \in Txns : txn[t] \in Txn /\ CancelledFrom(txn[t], txn[t])
    BY DEF IInv, TypeOK, CancelledFrom
  <2>2. PICK cmd, n : Dispatch(c, cmd, n, txn) \/ txn' = txn
    BY DEF Continue
  <2>3. txn \in [Txns -> Txn]
    BY DEF IInv, TypeOK
  <2> QED BY <2>1, <2>2, <2>3, DispatchIsHandled
<1> HIDE DEF next
<1>6. next.got < ch.totalLen =>
        /\ next.got = InitDataLen + next.seqNum * ContDataLen
        /\ next.seqNum \in 0 .. 127
  <2> SUFFICES ASSUME next.got < ch.totalLen
               PROVE  /\ next.got = InitDataLen + next.seqNum * ContDataLen
                      /\ next.seqNum \in 0 .. 127
    OBVIOUS
  <2>1. /\ ch.got = InitDataLen + ch.seqNum * ContDataLen
        /\ ch.seqNum \in 0 .. 127 /\ next.got = ch.got + ContDataLen
    BY <1>1, <1>2, <1>3, LengthsAssumption
  <2>2. next.seqNum = ch.seqNum + 1 /\ next.seqNum \in Nat
    BY <1>3, <2>1
  <2>3. next.seqNum * ContDataLen = ch.seqNum * ContDataLen + ContDataLen
    BY <2>1, <2>2, LengthsAssumption
  <2>4. next.got = InitDataLen + next.seqNum * ContDataLen
    BY <2>1, <2>3, LengthsAssumption
  <2>5. next.seqNum < 128
    BY <1>1, <2>2, <2>4, SeqFits
  <2> QED BY <2>2, <2>4, <2>5
<1>7. PICK new \in Channel :
        /\ channels' = [channels EXCEPT ![c] = new]
        /\ new.cancel = ch.cancel
        /\ \/ new.totalLen = 0
           \/ new = next /\ next.got < ch.totalLen
  BY <1>3, <1>4, ResetFacts
<1> HIDE DEF ch
<1>8. channels'[c] = new /\ \A d \in Cids : d # c => channels'[d] = channels[d]
  BY <1>7 DEF IInv, TypeOK
<1>9. TypeOK'
  BY <1>5, <1>7 DEF IInv, TypeOK, Continue, Handled
<1>10. AssemblyInBounds'
  <2> SUFFICES ASSUME NEW d \in Cids, channels'[d] # None, channels'[d].totalLen > 0
               PROVE  /\ channels'[d].got <= channels'[d].totalLen
                      /\ channels'[d].got < channels'[d].totalLen =>
                           /\ channels'[d].got = InitDataLen + channels'[d].seqNum * ContDataLen
                           /\ channels'[d].seqNum \in 0 .. 127
    BY DEF AssemblyInBounds, Exists
  <2>1. CASE d = c
    BY <1>3, <1>6, <1>7, <1>8, <2>1
  <2>2. CASE d # c
    BY <1>8, <2>2 DEF IInv, AssemblyInBounds, Exists
  <2> QED BY <2>1, <2>2
<1>11. StoredCancelIsCurrent'
  BY <1>1, <1>5, <1>7, <1>8, HandledIsSafe, KeepCurrent DEF ch
<1>12. EndingExplained'
  BY <1>5, HandledIsSafe
<1> QED BY <1>9, <1>10, <1>11, <1>12 DEF IInv

\* RegisterChannel and GoStale change one channel and no transaction.
LEMMA ChannelStep ==
  ASSUME IInv, NEW c \in Cids, NEW ch \in Channel,
         channels' = [channels EXCEPT ![c] = ch],
         UNCHANGED txn,
         \/ ch.cancel = None /\ ch.totalLen = 0
         \/ /\ channels[c] # None
            /\ ch.cancel = channels[c].cancel /\ ch.totalLen = channels[c].totalLen
            /\ ch.got = channels[c].got /\ ch.seqNum = channels[c].seqNum
  PROVE  /\ channels' \in [Cids -> Channel \cup {None}]
         /\ AssemblyInBounds' /\ StoredCancelIsCurrent' /\ EndingExplained'
<1>1. /\ channels'[c] = ch
      /\ \A d \in Cids : d # c => channels'[d] = channels[d]
      /\ channels' \in [Cids -> Channel \cup {None}]
  BY DEF IInv, TypeOK
<1>2. AssemblyInBounds'
  BY <1>1 DEF IInv, AssemblyInBounds, Exists
<1>3. StoredCancelIsCurrent'
  BY <1>1, KeepCurrent
<1>4. EndingExplained'
  BY DEF IInv, EndingExplained
<1> QED BY <1>1, <1>2, <1>3, <1>4

\* One transaction moves on, from one explained record to another.
LEMMA TxnStep ==
  ASSUME IInv, NEW t \in Txns, NEW r \in Txn,
         txn' = [txn EXCEPT ![t] = r], Explained(r)
  PROVE  /\ txn' \in [Txns -> Txn]
         /\ EndingExplained'
         /\ txn'[t] = r
         /\ \A u \in Txns : u # t => txn'[u] = txn[u]
BY DEF IInv, TypeOK, EndingExplained

\* Such a step leaves the channels' invariants alone when it leaves the
\* channels alone.
LEMMA TxnOnlyStep ==
  ASSUME IInv, NEW t \in Txns, NEW r \in Txn,
         txn' = [txn EXCEPT ![t] = r], Explained(r),
         txn[t].stage \in {"running", "clearing"} =>
           r.stage \in {"running", "clearing"} /\ r.cid = txn[t].cid,
         UNCHANGED <<channels, loop, stopping, closed>>
  PROVE  IInv'
<1>1. TypeOK'
  BY TxnStep DEF IInv, TypeOK
<1>2. AssemblyInBounds'
  BY DEF IInv, AssemblyInBounds, Exists
<1>3. StoredCancelIsCurrent'
  BY TxnStep, KeepCurrent
<1> QED BY <1>1, <1>2, <1>3, TxnStep DEF IInv

LEMMA RegisterStep ==
  ASSUME IInv, RegisterChannel
  PROVE  IInv'
<1>1. PICK c \in Cids : c = loop
  BY DEF RegisterChannel
<1>2. /\ channels' = [channels EXCEPT ![c] = FreshChannel] /\ UNCHANGED txn
      /\ FreshChannel.cancel = None /\ FreshChannel.totalLen = 0
  BY <1>1 DEF RegisterChannel, FreshChannel
<1>3. /\ channels' \in [Cids -> Channel \cup {None}]
      /\ AssemblyInBounds' /\ StoredCancelIsCurrent' /\ EndingExplained'
  BY <1>2, ChannelStep, ChannelTypes
<1> QED BY <1>2, <1>3 DEF IInv, TypeOK, RegisterChannel

LEMMA GoStaleStep ==
  ASSUME IInv, NEW c \in Cids, GoStale(c)
  PROVE  IInv'
<1>1. channels[c] \in Channel /\ channels[c] # None
  BY DEF IInv, TypeOK, GoStale, Exists
<1>2. PICK ch \in Channel : ch = [channels[c] EXCEPT !.stale = TRUE]
  BY <1>1, ChannelTypes
<1>3. /\ ch.cancel = channels[c].cancel /\ ch.totalLen = channels[c].totalLen
      /\ ch.got = channels[c].got /\ ch.seqNum = channels[c].seqNum
  BY <1>1, <1>2 DEF Channel
<1>4. channels' = [channels EXCEPT ![c] = ch] /\ UNCHANGED <<txn, loop, stopping, closed>>
  BY <1>2 DEF GoStale
<1>5. /\ channels' \in [Cids -> Channel \cup {None}]
      /\ AssemblyInBounds' /\ StoredCancelIsCurrent' /\ EndingExplained'
  BY <1>1, <1>3, <1>4, ChannelStep
<1> QED BY <1>4, <1>5 DEF IInv, TypeOK

LEMMA StoreCancelStep ==
  ASSUME IInv, NEW t \in Txns, StoreCancel(t)
  PROVE  IInv'
<1>1. txn[t] \in Txn /\ txn[t].stage = "spawned" /\ Explained(txn[t])
  BY DEF IInv, TypeOK, EndingExplained, StoreCancel
<1>2. PICK c \in Cids : c = txn[t].cid
  BY <1>1 DEF Explained
<1>3. PICK r \in Txn : r = [txn[t] EXCEPT !.stage = "running", !.worker = "working"]
  BY <1>1 DEF Txn
<1>4. /\ r.stage = "running" /\ r.cid = c /\ r.worker = "working"
      /\ r.ctx = txn[t].ctx /\ r.replied = txn[t].replied
  BY <1>1, <1>2, <1>3 DEF Txn
<1>5. Explained(r)
  BY <1>1, <1>4 DEF Explained
<1>6. txn' = [txn EXCEPT ![t] = r] /\ UNCHANGED <<loop, stopping, closed>>
  BY <1>3 DEF StoreCancel
<1>7. PICK ch \in Channel :
        /\ channels' = [channels EXCEPT ![c] = ch]
        /\ ch.cancel = t
        /\ \/ ch.totalLen = 0
           \/ /\ channels[c] # None /\ ch.totalLen = channels[c].totalLen
              /\ ch.got = channels[c].got /\ ch.seqNum = channels[c].seqNum
  <2>1. PICK old \in Channel :
          /\ old = IF Exists(c) THEN channels[c] ELSE FreshChannel
          /\ old.totalLen = 0 \/ (channels[c] # None /\ old = channels[c])
    BY ChannelTypes DEF IInv, TypeOK, Exists, FreshChannel
  <2>2. PICK ch \in Channel : ch = [old EXCEPT !.cancel = t]
    BY ChannelTypes
  <2>3. /\ ch.cancel = t /\ ch.totalLen = old.totalLen
        /\ ch.got = old.got /\ ch.seqNum = old.seqNum
    BY <2>2 DEF Channel
  <2>4. channels' = [channels EXCEPT ![c] = ch]
    BY <1>2, <2>1, <2>2 DEF StoreCancel, IInv, TypeOK
  <2> QED BY <2>1, <2>3, <2>4
<1>8. channels'[c] = ch /\ \A d \in Cids : d # c => channels'[d] = channels[d]
  BY <1>7 DEF IInv, TypeOK
<1>9. /\ txn' \in [Txns -> Txn] /\ EndingExplained' /\ txn'[t] = r
      /\ \A u \in Txns : u # t => txn'[u] = txn[u]
  BY <1>5, <1>6, TxnStep
<1>10. TypeOK'
  BY <1>6, <1>7, <1>9 DEF IInv, TypeOK
<1>11. AssemblyInBounds'
  BY <1>7, <1>8 DEF IInv, AssemblyInBounds, Exists
<1>12. StoredCancelIsCurrent'
  <2> SUFFICES ASSUME NEW d \in Cids, channels'[d] # None, channels'[d].cancel # None
               PROVE  /\ txn'[channels'[d].cancel].cid = d
                      /\ txn'[channels'[d].cancel].stage \in {"running", "clearing"}
    BY DEF StoredCancelIsCurrent, Exists
  <2>1. CASE d = c
    BY <1>4, <1>7, <1>8, <1>9, <2>1
  <2>2. CASE d # c
    <3>1. channels'[d] = channels[d] /\ channels[d] \in Channel
      BY <1>8, <2>2 DEF IInv, TypeOK
    <3>2. /\ channels[d].cancel \in Txns
          /\ txn[channels[d].cancel].cid = d
          /\ txn[channels[d].cancel].stage \in {"running", "clearing"}
      BY <3>1 DEF Channel, IInv, StoredCancelIsCurrent, Exists
    <3> QED BY <1>1, <1>9, <3>1, <3>2
  <2> QED BY <2>1, <2>2
<1> QED BY <1>9, <1>10, <1>11, <1>12 DEF IInv

LEMMA WorkerReturnStep ==
  ASSUME IInv, NEW t \in Txns, WorkerReturn(t)
  PROVE  IInv'
<1>1. txn[t] \in Txn /\ Explained(txn[t])
  BY DEF IInv, TypeOK, EndingExplained
<1>2. PICK r \in Txn : r = [txn[t] EXCEPT !.worker = "returned"]
  BY <1>1 DEF Txn
<1>3. /\ r.stage = txn[t].stage /\ r.cid = txn[t].cid /\ r.worker = "returned"
      /\ r.ctx = txn[t].ctx /\ r.replied = txn[t].replied
  BY <1>1, <1>2 DEF Txn
<1>4. Explained(r)
  BY <1>1, <1>3 DEF Explained
<1>5. txn' = [txn EXCEPT ![t] = r] /\ UNCHANGED <<channels, loop, stopping, closed>>
  BY <1>2 DEF WorkerReturn
<1> QED BY <1>3, <1>4, <1>5, TxnOnlyStep

LEMMA ExpireStep ==
  ASSUME IInv, NEW t \in Txns, Expire(t)
  PROVE  IInv'
<1>1. txn[t] \in Txn /\ Explained(txn[t])
  BY DEF IInv, TypeOK, EndingExplained
<1>2. PICK r \in Txn : r = [txn[t] EXCEPT !.ctx = "expired"]
  BY <1>1 DEF Txn
<1>3. /\ r.stage = txn[t].stage /\ r.cid = txn[t].cid /\ r.worker = txn[t].worker
      /\ r.ctx = "expired" /\ r.replied = txn[t].replied
  BY <1>1, <1>2 DEF Txn
<1>4. Explained(r)
  BY <1>1, <1>3 DEF Explained
<1>5. txn' = [txn EXCEPT ![t] = r] /\ UNCHANGED <<channels, loop, stopping, closed>>
  BY <1>2 DEF Expire
<1> QED BY <1>3, <1>4, <1>5, TxnOnlyStep

LEMMA SendResultStep ==
  ASSUME IInv, NEW t \in Txns, SendResult(t)
  PROVE  IInv'
<1>1. /\ txn[t] \in Txn /\ Explained(txn[t])
      /\ txn[t].stage = "running" /\ txn[t].worker = "returned"
  BY DEF IInv, TypeOK, EndingExplained, SendResult
<1>2. PICK r \in Txn : r = [txn[t] EXCEPT !.stage = "clearing", !.replied = TRUE]
  BY <1>1 DEF Txn
<1>3. /\ r.stage = "clearing" /\ r.cid = txn[t].cid /\ r.worker = txn[t].worker
      /\ r.ctx = txn[t].ctx /\ r.replied
  BY <1>1, <1>2 DEF Txn
<1>4. Explained(r)
  BY <1>1, <1>3 DEF Explained
<1>5. txn' = [txn EXCEPT ![t] = r] /\ UNCHANGED <<channels, loop, stopping, closed>>
  BY <1>2 DEF SendResult
<1> QED BY <1>3, <1>4, <1>5, TxnOnlyStep

LEMMA GiveUpStep ==
  ASSUME IInv, NEW t \in Txns, GiveUp(t)
  PROVE  IInv'
<1>1. /\ txn[t] \in Txn /\ Explained(txn[t])
      /\ txn[t].stage = "running" /\ txn[t].ctx # "live"
  BY DEF IInv, TypeOK, EndingExplained, GiveUp
<1>2. PICK r \in Txn : r = [txn[t] EXCEPT !.stage = "clearing"]
  BY <1>1 DEF Txn
<1>3. /\ r.stage = "clearing" /\ r.cid = txn[t].cid /\ r.worker = txn[t].worker
      /\ r.ctx = txn[t].ctx /\ r.replied = txn[t].replied
  BY <1>1, <1>2 DEF Txn
<1>4. txn[t].ctx \in {"cancelled", "expired"}
  BY <1>1 DEF Txn, Explained
<1>5. Explained(r)
  BY <1>1, <1>3, <1>4 DEF Explained
<1>6. txn' = [txn EXCEPT ![t] = r] /\ UNCHANGED <<channels, loop, stopping, closed>>
  BY <1>2 DEF GiveUp
<1> QED BY <1>3, <1>5, <1>6, TxnOnlyStep

LEMMA ClearCancelStep ==
  ASSUME IInv, NEW t \in Txns, ClearCancel(t)
  PROVE  IInv'
<1>1. txn[t] \in Txn /\ txn[t].stage = "clearing" /\ Explained(txn[t])
  BY DEF IInv, TypeOK, EndingExplained, ClearCancel
<1>2. PICK c \in Cids : c = txn[t].cid
  BY <1>1 DEF Explained
<1>3. PICK r \in Txn :
        /\ r = Ended(txn[t])
        /\ r.stage = "done" /\ r.cid = c /\ r.worker = txn[t].worker
        /\ r.replied = txn[t].replied
        /\ r.ctx = IF txn[t].ctx = "live" THEN "released" ELSE txn[t].ctx
  <2>1. PICK x : x = IF txn[t].ctx = "live" THEN "released" ELSE txn[t].ctx
    OBVIOUS
  <2>2. x \in {"live", "cancelled", "expired", "released"}
    BY <1>1, <2>1 DEF Txn
  <2>3. Ended(txn[t]) = [txn[t] EXCEPT !.stage = "done", !.ctx = x]
    BY <1>1, <2>1 DEF Ended, Txn
  <2>4. [txn[t] EXCEPT !.stage = "done", !.ctx = x] \in Txn
    BY <1>1, <2>2 DEF Txn
  <2>5. /\ Ended(txn[t]).stage = "done" /\ Ended(txn[t]).cid = txn[t].cid
        /\ Ended(txn[t]).worker = txn[t].worker
        /\ Ended(txn[t]).replied = txn[t].replied /\ Ended(txn[t]).ctx = x
    BY <1>1, <2>3 DEF Txn
  <2> QED BY <1>2, <2>1, <2>3, <2>4, <2>5
<1>4. Explained(r)
  BY <1>1, <1>3 DEF Explained
<1>5. txn' = [txn EXCEPT ![t] = r] /\ UNCHANGED <<loop, stopping, closed>>
  BY <1>3 DEF ClearCancel
<1>6. /\ txn' \in [Txns -> Txn] /\ EndingExplained' /\ txn'[t] = r
      /\ \A u \in Txns : u # t => txn'[u] = txn[u]
  BY <1>4, <1>5, TxnStep
<1>7. PICK ch \in Channel \cup {None} :
        /\ channels' = [channels EXCEPT ![c] = ch]
        /\ \/ ch = None
           \/ /\ channels[c] # None /\ ch.cancel = None
              /\ ch.totalLen = channels[c].totalLen
              /\ ch.got = channels[c].got /\ ch.seqNum = channels[c].seqNum
  <2>1. CASE channels[c] = None
    BY <1>2, <2>1 DEF ClearCancel, Exists
  <2>2. CASE channels[c] # None
    <3>1. channels[c] \in Channel
      BY <2>2 DEF IInv, TypeOK
    <3>2. PICK ch \in Channel : ch = [channels[c] EXCEPT !.cancel = None]
      BY <3>1, ChannelTypes
    <3>3. /\ ch.cancel = None /\ ch.totalLen = channels[c].totalLen
          /\ ch.got = channels[c].got /\ ch.seqNum = channels[c].seqNum
      BY <3>1, <3>2 DEF Channel
    <3>4. channels' = [channels EXCEPT ![c] = ch]
      BY <1>2, <2>2, <3>2 DEF ClearCancel, Exists
    <3> QED BY <2>2, <3>3, <3>4
  <2> QED BY <2>1, <2>2
<1>8. channels'[c] = ch /\ \A d \in Cids : d # c => channels'[d] = channels[d]
  BY <1>7 DEF IInv, TypeOK
<1>9. TypeOK'
  BY <1>5, <1>6, <1>7 DEF IInv, TypeOK
<1>10. AssemblyInBounds'
  BY <1>7, <1>8 DEF IInv, AssemblyInBounds, Exists
<1>11. StoredCancelIsCurrent'
  \* Only the transaction's own channel could hold its cancel function.
  <2> SUFFICES ASSUME NEW d \in Cids, channels'[d] # None, channels'[d].cancel # None
               PROVE  /\ txn'[channels'[d].cancel].cid = d
                      /\ txn'[channels'[d].cancel].stage \in {"running", "clearing"}
    BY DEF StoredCancelIsCurrent, Exists
  <2>1. d # c /\ channels'[d] = channels[d] /\ channels[d] \in Channel
    BY <1>7, <1>8 DEF IInv, TypeOK
  <2>2. /\ channels[d].cancel \in Txns
        /\ txn[channels[d].cancel].cid = d
        /\ txn[channels[d].cancel].stage \in {"running", "clearing"}
    BY <2>1 DEF Channel, IInv, StoredCancelIsCurrent, Exists
  <2>3. channels[d].cancel # t
    BY <1>2, <2>1, <2>2
  <2> QED BY <1>6, <2>1, <2>2, <2>3
<1> QED BY <1>6, <1>9, <1>10, <1>11 DEF IInv

\* HandleCancel, Resync, Cleanup and Close cancel contexts and forget some
\* channels or none.
LEMMA CancellingSteps ==
  ASSUME IInv,
         \/ \E c \in Cids : HandleCancel(c) \/ Resync(c)
         \/ Cleanup
         \/ Close
  PROVE  IInv'
<1>1. CASE \E c \in Cids : HandleCancel(c) \/ Resync(c)
  <2>1. PICK c \in Cids : HandleCancel(c) \/ Resync(c)
    BY <1>1
  <2>2. channels' = [d \in Cids |-> IF d \in {} THEN None ELSE channels[d]]
    BY <2>1 DEF HandleCancel, Resync, IInv, TypeOK
  <2>3. txn' = CancelAll(Stored({c})) /\ {} \in SUBSET Cids
    BY <2>1 DEF HandleCancel, Resync
  <2>4. loop' \in Cids \cup {"idle", "exited"} /\ UNCHANGED <<stopping, closed>>
    BY <2>1 DEF HandleCancel, Resync, IInv, TypeOK
  <2> QED BY <2>2, <2>3, <2>4, CancelStep DEF IInv, TypeOK
<1>2. CASE Cleanup
  <2>1. PICK old \in SUBSET Cids :
          /\ channels' = [d \in Cids |-> IF d \in old THEN None ELSE channels[d]]
          /\ txn' = CancelAll(Stored(old))
          /\ UNCHANGED <<loop, stopping, closed>>
    BY <1>2 DEF Cleanup
  <2> QED BY <2>1, CancelStep DEF IInv, TypeOK
<1>3. CASE Close
  <2>1. /\ channels' = [d \in Cids |-> IF d \in Cids THEN None ELSE channels[d]]
        /\ txn' = CancelAll(Stored(Cids)) /\ Cids \in SUBSET Cids
        /\ UNCHANGED <<loop, stopping>> /\ closed' \in BOOLEAN
    BY <1>3 DEF Close
  <2> QED BY <2>1, CancelStep DEF IInv, TypeOK
<1> QED BY <1>1, <1>2, <1>3

\* Steps that change neither a channel nor a transaction.
LEMMA QuietSteps ==
  ASSUME IInv, UNCHANGED <<channels, txn>>,
         loop' \in Cids \cup {"idle", "exited"},
         stopping' \in BOOLEAN, closed' \in BOOLEAN
  PROVE  IInv'
BY DEF IInv, TypeOK, AssemblyInBounds, StoredCancelIsCurrent, EndingExplained, Exists

-----------------------------------------------------------------------------

LEMMA NextIInv == IInv /\ [Next]_vars => IInv'
<1> SUFFICES ASSUME IInv, [Next]_vars PROVE IInv'
  OBVIOUS
<1> USE DEF IInv, TypeOK
<1>1. CASE Host
  <2>1. CASE \E c \in Cids \cup {Broadcast}, cmd \in HostCommands \cup {"init"}, n \in Lengths :
               RejectInit(c, cmd, n)
    BY <2>1, QuietSteps DEF RejectInit, vars
  <2>2. CASE \E c \in Cids : HandleCancel(c) \/ AllocateCID(c) \/ Resync(c)
    <3>1. CASE \E c \in Cids : HandleCancel(c) \/ Resync(c)
      BY <3>1, CancellingSteps
    <3>2. CASE \E c \in Cids : AllocateCID(c)
      BY <3>2, QuietSteps DEF AllocateCID
    <3> QED BY <2>2, <3>1, <3>2
  <2>3. CASE \E c \in Cids, cmd \in HostCommands, n \in Lengths : BeginMessage(c, cmd, n)
    BY <2>3, BeginMessageStep
  <2>4. CASE \E c \in Cids, seq \in HostSeqs : RejectCont(c, seq)
    BY <2>4, QuietSteps DEF RejectCont, vars
  <2>5. CASE \E c \in Cids, seq \in HostSeqs : Continue(c, seq)
    BY <2>5, ContinueStep
  <2> QED BY <1>1, <2>1, <2>2, <2>3, <2>4, <2>5 DEF Host
<1>2. CASE RegisterChannel
  BY <1>2, RegisterStep
<1>3. ASSUME NEW t \in Txns, Goroutine(t) \/ WorkerReturn(t) \/ Expire(t)
      PROVE  IInv'
  <2>1. CASE StoreCancel(t)
    BY <2>1, StoreCancelStep
  <2>2. CASE SendResult(t)
    BY <2>2, SendResultStep
  <2>3. CASE Keepalive(t)
    BY <2>3, QuietSteps DEF Keepalive, vars
  <2>4. CASE GiveUp(t)
    BY <2>4, GiveUpStep
  <2>5. CASE ClearCancel(t)
    BY <2>5, ClearCancelStep
  <2>6. CASE WorkerReturn(t)
    BY <2>6, WorkerReturnStep
  <2>7. CASE Expire(t)
    BY <2>7, ExpireStep
  <2> QED BY <1>3, <2>1, <2>2, <2>3, <2>4, <2>5, <2>6, <2>7 DEF Goroutine
<1>4. CASE \E c \in Cids : GoStale(c)
  BY <1>4, GoStaleStep
<1>5. CASE Cleanup \/ Close
  BY <1>5, CancellingSteps
<1>6. CASE Stop \/ ExitLoop
  BY <1>6, QuietSteps DEF Stop, ExitLoop
<1>7. CASE UNCHANGED vars
  BY <1>7, QuietSteps DEF vars
<1> QED BY <1>1, <1>2, <1>3, <1>4, <1>5, <1>6, <1>7 DEF Next

\* The inductive invariant holds in every reachable state.
THEOREM Invariance == Spec => []IInv
<1> QED BY InitIInv, NextIInv, PTL DEF Spec

\* fidohid's data keep their types: in particular a message's announced
\* length never exceeds maxMessageLen and seqNum fits its byte.
THEOREM TypeCorrect == Spec => []TypeOK
<1>1. IInv => TypeOK
  BY DEF IInv
<1> QED BY <1>1, Invariance, PTL

\* handleContPacket never slices outside a message, and no message within
\* maxMessageLen runs out of sequence numbers.
THEOREM AssemblySafe == Spec => []AssemblyInBounds
<1>1. IInv => AssemblyInBounds
  BY DEF IInv
<1> QED BY <1>1, Invariance, PTL

\* CANCEL, re-synchronisation, cleanup and Close only ever act on an
\* unfinished transaction of the channel they were meant for.
THEOREM CancelIsCurrent == Spec => []StoredCancelIsCurrent
<1>1. IInv => StoredCancelIsCurrent
  BY DEF IInv
<1> QED BY <1>1, Invariance, PTL

\* A transaction that ends without a response was cancelled or timed out.
THEOREM SilenceExplained == Spec => []SilentOnlyIfAborted
<1>1. IInv => SilentOnlyIfAborted
  BY DEF IInv, EndingExplained, Explained, SilentOnlyIfAborted
<1> QED BY <1>1, Invariance, PTL

-----------------------------------------------------------------------------
(* How a step moves the transactions, for the two results below.           *)

\* A transaction's stage only advances, one at a time; its context ends
\* once, not before the goroutine has stored the cancel function.
Moves(r, s) ==
  \/ s.stage = r.stage /\ s.ctx = r.ctx
  \/ /\ s.stage = r.stage /\ r.stage \in {"running", "clearing"}
     /\ r.ctx = "live" /\ s.ctx \in {"cancelled", "expired"}
  \/ r.stage = "unused" /\ s.stage = "spawned" /\ s.ctx = r.ctx
  \/ r.stage = "spawned" /\ s.stage = "running" /\ s.ctx = r.ctx
  \/ r.stage = "running" /\ s.stage = "clearing" /\ s.ctx = r.ctx
  \/ r.stage = "clearing" /\ s.stage = "done"

AllMove == \A t \in Txns : Moves(txn[t], txn'[t])

LEMMA CancelAllMoves ==
  ASSUME IInv, NEW cs \in SUBSET Cids, NEW t \in Txns
  PROVE  Moves(txn[t], CancelAll(Stored(cs))[t])
<1>1. txn[t] \in Txn
  BY DEF IInv, TypeOK
<1>2. CASE t \notin Stored(cs)
  BY <1>2 DEF CancelAll, Moves
<1>3. CASE t \in Stored(cs)
  <2>1. txn[t].stage \in {"running", "clearing"}
    BY <1>3, IdsAssumption DEF Stored, IInv, StoredCancelIsCurrent
  <2>2. CancelAll(Stored(cs))[t] = Cancelled(txn[t])
    BY <1>3 DEF CancelAll
  <2> QED BY <1>1, <2>1, <2>2 DEF Cancelled, Moves, Txn
<1> QED BY <1>2, <1>3

LEMMA DispatchMoves ==
  ASSUME NEW c \in Cids, NEW cmd, NEW n, NEW txns \in [Txns -> Txn],
         Dispatch(c, cmd, n, txns), NEW t \in Txns
  PROVE  \/ txn'[t] = txns[t]
         \/ /\ txns[t].stage = "unused" /\ txn'[t].stage = "spawned"
            /\ txn'[t].ctx = txns[t].ctx
<1>1. txn'[t] = txns[t] \/ StartedFrom(txns[t], txn'[t], c)
  BY DispatchFacts
<1>2. txns[t] \in Txn
  OBVIOUS
<1> QED BY <1>1, <1>2 DEF StartedFrom, Txn

LEMMA OneMoves ==
  ASSUME IInv, NEW t \in Txns, NEW r, txn' = [txn EXCEPT ![t] = r], Moves(txn[t], r)
  PROVE  AllMove
BY DEF IInv, TypeOK, AllMove, Moves

LEMMA GoroutineMoves ==
  ASSUME IInv, NEW t \in Txns, Goroutine(t) \/ WorkerReturn(t) \/ Expire(t)
  PROVE  AllMove
<1>1. txn[t] \in Txn
  BY DEF IInv, TypeOK
<1>2. CASE Keepalive(t)
  BY <1>2 DEF Keepalive, vars, AllMove, Moves
<1>3. CASE StoreCancel(t)
  <2>1. PICK r : r = [txn[t] EXCEPT !.stage = "running", !.worker = "working"]
    OBVIOUS
  <2>2. Moves(txn[t], r) /\ txn' = [txn EXCEPT ![t] = r]
    BY <1>1, <1>3, <2>1 DEF StoreCancel, Moves, Txn
  <2> QED BY <2>2, OneMoves
<1>4. CASE SendResult(t)
  <2>1. PICK r : r = [txn[t] EXCEPT !.stage = "clearing", !.replied = TRUE]
    OBVIOUS
  <2>2. Moves(txn[t], r) /\ txn' = [txn EXCEPT ![t] = r]
    BY <1>1, <1>4, <2>1 DEF SendResult, Moves, Txn
  <2> QED BY <2>2, OneMoves
<1>5. CASE GiveUp(t)
  <2>1. PICK r : r = [txn[t] EXCEPT !.stage = "clearing"]
    OBVIOUS
  <2>2. Moves(txn[t], r) /\ txn' = [txn EXCEPT ![t] = r]
    BY <1>1, <1>5, <2>1 DEF GiveUp, Moves, Txn
  <2> QED BY <2>2, OneMoves
<1>6. CASE ClearCancel(t)
  <2>1. PICK r : r = Ended(txn[t])
    OBVIOUS
  <2>2. Moves(txn[t], r) /\ txn' = [txn EXCEPT ![t] = r]
    BY <1>1, <1>6, <2>1 DEF ClearCancel, Ended, Moves, Txn
  <2> QED BY <2>2, OneMoves
<1>7. CASE WorkerReturn(t)
  <2>1. PICK r : r = [txn[t] EXCEPT !.worker = "returned"]
    OBVIOUS
  <2>2. Moves(txn[t], r) /\ txn' = [txn EXCEPT ![t] = r]
    BY <1>1, <1>7, <2>1 DEF WorkerReturn, Moves, Txn
  <2> QED BY <2>2, OneMoves
<1>8. CASE Expire(t)
  <2>1. PICK r : r = [txn[t] EXCEPT !.ctx = "expired"]
    OBVIOUS
  <2>2. Moves(txn[t], r) /\ txn' = [txn EXCEPT ![t] = r]
    BY <1>1, <1>8, <2>1 DEF Expire, Moves, Txn
  <2> QED BY <2>2, OneMoves
<1> QED BY <1>2, <1>3, <1>4, <1>5, <1>6, <1>7, <1>8 DEF Goroutine

LEMMA NextMoves == IInv /\ [Next]_vars => AllMove
<1> SUFFICES ASSUME IInv, [Next]_vars PROVE AllMove
  OBVIOUS
<1>1. ASSUME UNCHANGED txn PROVE AllMove
  BY <1>1 DEF AllMove, Moves
<1>2. ASSUME NEW cs \in SUBSET Cids, txn' = CancelAll(Stored(cs)) PROVE AllMove
  BY <1>2, CancelAllMoves DEF AllMove
<1>3. CASE Host
  <2>1. ASSUME NEW c \in Cids, HandleCancel(c) \/ Resync(c) PROVE AllMove
    <3>1. {c} \in SUBSET Cids /\ txn' = CancelAll(Stored({c}))
      BY <2>1 DEF HandleCancel, Resync
    <3> QED BY <1>2, <3>1
  <2>2. ASSUME NEW c \in Cids, NEW cmd, NEW n, BeginMessage(c, cmd, n) PROVE AllMove
    <3> SUFFICES ASSUME NEW t \in Txns PROVE Moves(txn[t], txn'[t])
      BY DEF AllMove
    <3>1. PICK txns : txns = CancelAll(Stored({c}))
      OBVIOUS
    <3>2. txns \in [Txns -> Txn] /\ Moves(txn[t], txns[t]) /\ CancelledFrom(txn[t], txns[t])
      BY <3>1, CancelAllFacts, CancelAllMoves DEF IInv
    <3>3. txn' = txns \/ Dispatch(c, cmd, n, txns)
      BY <2>2, <3>1 DEF BeginMessage
    <3>4. \/ txn'[t] = txns[t]
          \/ /\ txns[t].stage = "unused" /\ txn'[t].stage = "spawned"
             /\ txn'[t].ctx = txns[t].ctx
      BY <3>2, <3>3, DispatchMoves
    <3> QED BY <3>2, <3>4 DEF Moves
  <2>3. ASSUME NEW c \in Cids, NEW seq, Continue(c, seq) PROVE AllMove
    <3>1. PICK cmd, n : txn' = txn \/ Dispatch(c, cmd, n, txn)
      BY <2>3 DEF Continue
    <3>2. txn \in [Txns -> Txn]
      BY DEF IInv, TypeOK
    <3> QED BY <3>1, <3>2, DispatchMoves DEF AllMove, Moves
  <2>4. CASE \/ \E c \in Cids : AllocateCID(c)
             \/ \E c \in Cids \cup {Broadcast}, cmd \in HostCommands \cup {"init"}, n \in Lengths :
                  RejectInit(c, cmd, n)
             \/ \E c \in Cids, seq \in HostSeqs : RejectCont(c, seq)
    BY <2>4, <1>1 DEF AllocateCID, RejectInit, RejectCont, vars
  <2> QED BY <1>3, <2>1, <2>2, <2>3, <2>4 DEF Host
<1>4. CASE RegisterChannel \/ (\E c \in Cids : GoStale(c)) \/ Stop \/ ExitLoop \/ UNCHANGED vars
  BY <1>4, <1>1 DEF RegisterChannel, GoStale, Stop, ExitLoop, vars
<1>5. CASE \E t \in Txns : Goroutine(t) \/ WorkerReturn(t) \/ Expire(t)
  BY <1>5, GoroutineMoves
<1>6. CASE Cleanup
  <2>1. PICK old \in SUBSET Cids : txn' = CancelAll(Stored(old))
    BY <1>6 DEF Cleanup
  <2> QED BY <1>2, <2>1
<1>7. CASE Close
  BY <1>2, <1>7 DEF Close
<1> QED BY <1>3, <1>4, <1>5, <1>6, <1>7 DEF Next

\* No context ends before its goroutine has stored the cancel function.
NotYetAborted ==
  \A t \in Txns : txn[t].stage \in {"unused", "spawned"} => txn[t].ctx = "live"

LEMMA StartsLive == Spec => []NotYetAborted
<1>1. Init => NotYetAborted
  BY DEF Init, UnusedTxn, NotYetAborted
<1>2. NotYetAborted /\ IInv /\ [Next]_vars => NotYetAborted'
  BY NextMoves DEF AllMove, Moves, NotYetAborted
<1> QED BY <1>1, <1>2, Invariance, PTL DEF Spec

-----------------------------------------------------------------------------
(* Refinement: every step is one of Transactions, or hidden from the host. *)

\* The cancel functions of a set of channels reach one transaction of each.
LEMMA StoredIsOfChannel ==
  ASSUME IInv, NEW cs \in SUBSET Cids, NEW t \in Stored(cs)
  PROVE  /\ txn[t].cid \in cs
         /\ channels[txn[t].cid].cancel = t
<1>1. PICK c \in cs : Exists(c) /\ channels[c].cancel = t
  BY DEF Stored
<1>2. t \in Txns /\ t # None
  BY IdsAssumption DEF Stored
<1> QED BY <1>1, <1>2 DEF IInv, StoredCancelIsCurrent

\* What the host sees of a cancellation: an open transaction is aborted.
LEMMA SeenCancelled ==
  ASSUME NEW r \in Txn, NEW s, Explained(r), CancelledFrom(r, s)
  PROVE  /\ s.cid = r.cid
         /\ Seen(s) = Seen(r) \/ (Seen(r) = "open" /\ Seen(s) = "aborted" /\ s # r)
BY DEF CancelledFrom, Explained, Seen, Txn

\* The transactions a cancellation aborts, as one step of the abstraction.
AbortedBy(txns) == {t \in Txns : Seen(txn[t]) = "open" /\ Seen(txns[t]) = "aborted"}

LEMMA CancelAllSeen ==
  ASSUME IInv, NEW cs \in SUBSET Cids, NEW txns, txns = CancelAll(Stored(cs))
  PROVE  /\ HostView!Abortable(AbortedBy(txns))
         /\ \A t \in Txns : Seen(txns[t]) =
              IF t \in AbortedBy(txns) THEN "aborted" ELSE Seen(txn[t])
         /\ \A t \in Txns : txns[t].cid = txn[t].cid
         /\ \A t \in AbortedBy(txns) : txn[t].cid \in cs
<1>1. ASSUME NEW t \in Txns
      PROVE  /\ txns[t].cid = txn[t].cid
             /\ \/ Seen(txns[t]) = Seen(txn[t])
                \/ Seen(txn[t]) = "open" /\ Seen(txns[t]) = "aborted" /\ txns[t] # txn[t]
  <2>1. txn[t] \in Txn /\ Explained(txn[t]) /\ CancelledFrom(txn[t], txns[t])
    BY CancelAllFacts DEF IInv, TypeOK, EndingExplained
  <2> QED BY <2>1, SeenCancelled
<1>2. ASSUME NEW t \in AbortedBy(txns)
      PROVE  /\ t \in Txns /\ Seen(txn[t]) = "open"
             /\ txn[t].cid \in cs /\ channels[txn[t].cid].cancel = t
  <2>1. t \in Txns /\ Seen(txn[t]) = "open" /\ txns[t] # txn[t]
    BY <1>1 DEF AbortedBy
  <2>2. t \in Stored(cs)
    BY <2>1 DEF CancelAll
  <2> QED BY <2>1, <2>2, StoredIsOfChannel
<1>3. HostView!Abortable(AbortedBy(txns))
  BY <1>2 DEF HostView!Abortable
<1>4. ASSUME NEW t \in Txns
      PROVE  Seen(txns[t]) = IF t \in AbortedBy(txns) THEN "aborted" ELSE Seen(txn[t])
  BY <1>1 DEF AbortedBy
<1> QED BY <1>1, <1>2, <1>3, <1>4

\* HandleCancel, Resync, a message not yet complete, the cleanup, Close.
LEMMA AbortView ==
  ASSUME IInv, NEW cs \in SUBSET Cids, txn' = CancelAll(Stored(cs))
  PROVE  HostView!Abort
<1>1. AbortedBy(txn') \in SUBSET Txns
  BY DEF AbortedBy
<1>2. /\ HostView!Abortable(AbortedBy(txn'))
      /\ [t \in Txns |-> Seen(txn'[t])] = HostView!Aborted(AbortedBy(txn'))
      /\ [t \in Txns |-> txn'[t].cid] = [t \in Txns |-> txn[t].cid]
  BY CancelAllSeen DEF HostView!Aborted
<1> QED BY <1>1, <1>2 DEF HostView!Abort

\* A complete message that begins a transaction.
LEMMA BeginView ==
  ASSUME IInv, NotYetAborted, NEW c \in Cids, NEW cs \in SUBSET {c}, NEW txns,
         txns = CancelAll(Stored(cs)),
         NEW t \in Txns, txns[t].stage = "unused",
         txn' = [txns EXCEPT ![t] = [@ EXCEPT !.stage = "spawned", !.cid = c]]
  PROVE  HostView!Begin(t, c)
<1>1. /\ txns \in [Txns -> Txn]
      /\ CancelledFrom(txn[t], txns[t]) /\ Explained(txn[t]) /\ txn[t] \in Txn
  BY CancelAllFacts DEF IInv, TypeOK, EndingExplained
<1>2. txn[t].stage = "unused" /\ Seen(txn[t]) = "idle"
  BY <1>1 DEF CancelledFrom, Seen
<1>3. PICK S : S = AbortedBy(txns)
  OBVIOUS
<1>4. /\ HostView!Abortable(S)
      /\ \A u \in Txns : Seen(txns[u]) = IF u \in S THEN "aborted" ELSE Seen(txn[u])
      /\ \A u \in Txns : txns[u].cid = txn[u].cid
      /\ S \in SUBSET {u \in Txns : [v \in Txns |-> txn[v].cid][u] = c}
  BY <1>3, CancelAllSeen DEF AbortedBy
<1>5. PICK r : /\ r = [txns[t] EXCEPT !.stage = "spawned", !.cid = c]
               /\ r.stage = "spawned" /\ r.cid = c /\ r.ctx = "live" /\ txns[t].ctx = "live"
  <2>1. txns[t].ctx = "live"
    <3>1. txn[t].ctx = "live"
      BY <1>2 DEF NotYetAborted
    <3>2. t \notin Stored(cs)
      BY <1>2, IdsAssumption DEF Stored, IInv, StoredCancelIsCurrent
    <3> QED BY <3>1, <3>2 DEF CancelAll
  <2>2. PICK r : r = [txns[t] EXCEPT !.stage = "spawned", !.cid = c]
    OBVIOUS
  <2>3. r.stage = "spawned" /\ r.cid = c /\ r.ctx = txns[t].ctx
    BY <1>1, <2>2 DEF Txn
  <2> QED BY <2>1, <2>2, <2>3
<1>6. /\ txn' = [txns EXCEPT ![t] = r] /\ txns[t] \in Txn
      /\ txn'[t] = r /\ \A u \in Txns : u # t => txn'[u] = txns[u]
  BY <1>1, <1>5
<1>7. [u \in Txns |-> txn'[u].cid] = [[u \in Txns |-> txn[u].cid] EXCEPT ![t] = c]
  <2>1. ASSUME NEW u \in Txns
        PROVE  txn'[u].cid = IF u = t THEN c ELSE txn[u].cid
    <3>1. txns[u].cid = txn[u].cid
      BY <1>4
    <3>2. CASE u = t
      BY <1>5, <1>6, <3>2
    <3>3. CASE u # t
      BY <1>6, <3>1, <3>3
    <3> QED BY <3>2, <3>3
  <2> QED BY <2>1
<1>8. [u \in Txns |-> Seen(txn'[u])] = [HostView!Aborted(S) EXCEPT ![t] = "open"]
  <2>1. Seen(r) = "open"
    BY <1>5 DEF Seen
  <2> QED BY <1>4, <1>6, <2>1, ZenonT(60) DEF HostView!Aborted
<1> QED BY <1>2, <1>4, <1>7, <1>8 DEF HostView!Begin

LEMMA BeginMessageView ==
  ASSUME IInv, NotYetAborted, NEW c \in Cids, NEW cmd, NEW n, BeginMessage(c, cmd, n)
  PROVE  HostView!Next
<1>1. PICK txns : txns = CancelAll(Stored({c}))
  OBVIOUS
<1>2. txn' = txns \/ Dispatch(c, cmd, n, txns)
  BY <1>1 DEF BeginMessage
<1>3. CASE txn' = txns
  BY <1>1, <1>3, AbortView DEF HostView!Next
<1>4. CASE txn' # txns
  <2>1. PICK t \in Txns :
          /\ txns[t].stage = "unused"
          /\ txn' = [txns EXCEPT ![t] = [@ EXCEPT !.stage = "spawned", !.cid = c]]
    BY <1>2, <1>4 DEF Dispatch
  <2>2. HostView!Begin(t, c)
    BY <1>1, <2>1, BeginView
  <2> QED BY <2>2 DEF HostView!Next
<1> QED BY <1>3, <1>4

LEMMA ContinueView ==
  ASSUME IInv, NotYetAborted, NEW c \in Cids, NEW seq, Continue(c, seq)
  PROVE  HostView!Next \/ UNCHANGED txn
<1>1. CancelAll(Stored({})) = txn
  BY DEF CancelAll, Stored, IInv, TypeOK
<1>2. CASE UNCHANGED txn
  BY <1>2
<1>3. CASE txn' # txn
  <2>1. PICK cmd, n : Dispatch(c, cmd, n, txn)
    BY <1>3 DEF Continue
  <2>2. PICK t \in Txns :
          /\ txn[t].stage = "unused"
          /\ txn' = [txn EXCEPT ![t] = [@ EXCEPT !.stage = "spawned", !.cid = c]]
    BY <1>3, <2>1 DEF Dispatch
  <2>3. HostView!Begin(t, c)
    BY <1>1, <2>2, BeginView
  <2> QED BY <2>3 DEF HostView!Next
<1> QED BY <1>2, <1>3

\* The steps of one transaction: the host sees it answered, dropped or
\* aborted, or sees nothing.
LEMMA TxnView ==
  ASSUME IInv, NEW t \in Txns, NEW r, txn' = [txn EXCEPT ![t] = r],
         r.cid = txn[t].cid,
         \/ Seen(r) = Seen(txn[t])
         \/ Seen(txn[t]) = "open" /\ Seen(r) = "aborted"
         \/ Seen(txn[t]) \in {"open", "aborted"} /\ Seen(r) = "answered"
         \/ Seen(txn[t]) = "aborted" /\ Seen(r) = "dropped"
  PROVE  HostView!Next \/ UNCHANGED HostView!vars
<1>1. txn'[t] = r /\ \A u \in Txns : u # t => txn'[u] = txn[u]
  BY DEF IInv, TypeOK
<1>2. [u \in Txns |-> txn'[u].cid] = [u \in Txns |-> txn[u].cid]
  BY <1>1
<1>3. [u \in Txns |-> Seen(txn'[u])] = [[u \in Txns |-> Seen(txn[u])] EXCEPT ![t] = Seen(r)]
  <2>1. \A u \in Txns : Seen(txn'[u]) = IF u = t THEN Seen(r) ELSE Seen(txn[u])
    BY <1>1
  <2> QED BY <2>1
<1>4. CASE Seen(r) = Seen(txn[t])
  <2>1. [u \in Txns |-> Seen(txn'[u])] = [u \in Txns |-> Seen(txn[u])]
    BY <1>1, <1>4
  <2> QED BY <1>2, <2>1 DEF HostView!vars
<1>5. CASE Seen(txn[t]) = "open" /\ Seen(r) = "aborted"
  <2>1. HostView!Abortable({t}) /\ {t} \in SUBSET Txns
    BY <1>5 DEF HostView!Abortable
  <2>2. [u \in Txns |-> Seen(txn'[u])] = HostView!Aborted({t})
    BY <1>1, <1>5 DEF HostView!Aborted
  <2> QED BY <1>2, <2>1, <2>2 DEF HostView!Abort, HostView!Next
<1>6. CASE Seen(txn[t]) \in {"open", "aborted"} /\ Seen(r) = "answered"
  <2>1. HostView!Answer(t)
    BY <1>2, <1>3, <1>6 DEF HostView!Answer
  <2> QED BY <2>1 DEF HostView!Next
<1>7. CASE Seen(txn[t]) = "aborted" /\ Seen(r) = "dropped"
  <2>1. HostView!Drop(t)
    BY <1>2, <1>3, <1>7 DEF HostView!Drop
  <2> QED BY <2>1 DEF HostView!Next
<1> QED BY <1>4, <1>5, <1>6, <1>7

LEMMA GoroutineView ==
  ASSUME IInv, NEW t \in Txns, Goroutine(t) \/ WorkerReturn(t) \/ Expire(t)
  PROVE  HostView!Next \/ UNCHANGED HostView!vars
<1>1. txn[t] \in Txn /\ Explained(txn[t])
  BY DEF IInv, TypeOK, EndingExplained
<1>2. CASE StoreCancel(t)
  <2>1. PICK r : r = [txn[t] EXCEPT !.stage = "running", !.worker = "working"]
    OBVIOUS
  <2>2. Seen(r) = Seen(txn[t]) /\ r.cid = txn[t].cid /\ txn' = [txn EXCEPT ![t] = r]
    BY <1>1, <1>2, <2>1 DEF StoreCancel, Seen, Txn
  <2> QED BY <2>2, TxnView
<1>3. CASE SendResult(t)
  <2>1. PICK r : r = [txn[t] EXCEPT !.stage = "clearing", !.replied = TRUE]
    OBVIOUS
  <2>2. /\ Seen(txn[t]) \in {"open", "aborted"} /\ Seen(r) = "answered"
        /\ r.cid = txn[t].cid /\ txn' = [txn EXCEPT ![t] = r]
    BY <1>1, <1>3, <2>1 DEF SendResult, Seen, Txn
  <2> QED BY <2>2, TxnView
<1>4. CASE GiveUp(t)
  <2>1. PICK r : r = [txn[t] EXCEPT !.stage = "clearing"]
    OBVIOUS
  <2>2. /\ Seen(txn[t]) = "aborted" /\ Seen(r) = "dropped"
        /\ r.cid = txn[t].cid /\ txn' = [txn EXCEPT ![t] = r]
    BY <1>1, <1>4, <2>1 DEF GiveUp, Seen, Txn, Explained
  <2> QED BY <2>2, TxnView
<1>5. CASE ClearCancel(t)
  <2>1. PICK r : r = Ended(txn[t])
    OBVIOUS
  <2>2. Seen(r) = Seen(txn[t]) /\ r.cid = txn[t].cid /\ txn' = [txn EXCEPT ![t] = r]
    BY <1>1, <1>5, <2>1 DEF ClearCancel, Ended, Seen, Txn
  <2> QED BY <2>2, TxnView
<1>6. CASE Keepalive(t)
  BY <1>6 DEF Keepalive, vars, HostView!vars
<1>7. CASE WorkerReturn(t)
  <2>1. PICK r : r = [txn[t] EXCEPT !.worker = "returned"]
    OBVIOUS
  <2>2. Seen(r) = Seen(txn[t]) /\ r.cid = txn[t].cid /\ txn' = [txn EXCEPT ![t] = r]
    BY <1>1, <1>7, <2>1 DEF WorkerReturn, Seen, Txn
  <2> QED BY <2>2, TxnView
<1>8. CASE Expire(t)
  <2>1. PICK r : r = [txn[t] EXCEPT !.ctx = "expired"]
    OBVIOUS
  <2>2. /\ \/ Seen(r) = Seen(txn[t])
           \/ Seen(txn[t]) = "open" /\ Seen(r) = "aborted"
        /\ r.cid = txn[t].cid /\ txn' = [txn EXCEPT ![t] = r]
    BY <1>1, <1>8, <2>1 DEF Expire, Seen, Txn
  <2> QED BY <2>2, TxnView
<1> QED BY <1>2, <1>3, <1>4, <1>5, <1>6, <1>7, <1>8 DEF Goroutine

\* The transport implements Transactions: whatever the interleaving of
\* packets, goroutines, timers, the cleanup and Close, a transaction is
\* answered at most once, dropped only after an abort, and aborted only on
\* account of its own channel.
THEOREM Refinement == Spec => ImplementsTransactions
<1>1. Init => HostView!Init
  <2> SUFFICES ASSUME Init PROVE HostView!Init
    OBVIOUS
  <2>1. \A t \in Txns : Seen(txn[t]) = "idle" /\ txn[t].cid = None
    BY DEF Init, UnusedTxn, Seen
  <2> QED BY <2>1 DEF HostView!Init
<1>2. IInv /\ NotYetAborted /\ [Next]_vars => [HostView!Next]_(HostView!vars)
  <2> SUFFICES ASSUME IInv, NotYetAborted, [Next]_vars
               PROVE  HostView!Next \/ UNCHANGED HostView!vars
    BY DEF HostView!vars
  <2>1. ASSUME UNCHANGED txn PROVE UNCHANGED HostView!vars
    BY <2>1 DEF HostView!vars
  <2>2. ASSUME NEW cs \in SUBSET Cids, txn' = CancelAll(Stored(cs)) PROVE HostView!Next
    BY <2>2, AbortView DEF HostView!Next
  <2>3. CASE Host
    <3>1. CASE \E c \in Cids \cup {Broadcast}, cmd \in HostCommands \cup {"init"}, n \in Lengths :
                 RejectInit(c, cmd, n)
      BY <3>1, <2>1 DEF RejectInit, vars
    <3>2. ASSUME NEW c \in Cids, HandleCancel(c) \/ Resync(c)
          PROVE  HostView!Next
      <4>1. {c} \in SUBSET Cids /\ txn' = CancelAll(Stored({c}))
        BY <3>2 DEF HandleCancel, Resync
      <4> QED BY <4>1, <2>2
    <3>3. CASE \E c \in Cids : AllocateCID(c)
      BY <3>3, <2>1 DEF AllocateCID
    <3>4. CASE \E c \in Cids, cmd \in HostCommands, n \in Lengths : BeginMessage(c, cmd, n)
      BY <3>4, BeginMessageView
    <3>5. CASE \E c \in Cids, seq \in HostSeqs : RejectCont(c, seq)
      BY <3>5, <2>1 DEF RejectCont, vars
    <3>6. CASE \E c \in Cids, seq \in HostSeqs : Continue(c, seq)
      BY <3>6, <2>1, ContinueView
    <3> QED BY <2>3, <3>1, <3>2, <3>3, <3>4, <3>5, <3>6 DEF Host
  <2>4. CASE RegisterChannel \/ (\E c \in Cids : GoStale(c)) \/ Stop \/ ExitLoop
    BY <2>4, <2>1 DEF RegisterChannel, GoStale, Stop, ExitLoop
  <2>5. CASE \E t \in Txns : Goroutine(t) \/ WorkerReturn(t) \/ Expire(t)
    BY <2>5, GoroutineView
  <2>6. CASE Cleanup
    <3>1. PICK old \in SUBSET Cids : txn' = CancelAll(Stored(old))
      BY <2>6 DEF Cleanup
    <3> QED BY <2>2, <3>1
  <2>7. CASE Close
    BY <2>2, <2>7 DEF Close
  <2>8. CASE UNCHANGED vars
    BY <2>8, <2>1 DEF vars
  <2> QED BY <2>3, <2>4, <2>5, <2>6, <2>7, <2>8 DEF Next
<1> QED BY <1>1, <1>2, Invariance, StartsLive, PTL DEF Spec, ImplementsTransactions, HostView!Spec

-----------------------------------------------------------------------------
(* Liveness.  What ENABLED says of a single action is beyond the provers:  *)
(* GuardsEnable is a hypothesis of the theorem.                            *)

\* Where transaction t stands on its way from spawned to done.
Spawned(t) == txn[t].stage = "spawned"
Running(t) == txn[t].stage = "running" /\ txn[t].ctx = "live"
Abandoned(t) == txn[t].stage = "running" /\ txn[t].ctx # "live"
Clearing(t) == txn[t].stage = "clearing" /\ txn[t].ctx = "live"
ClearingEnded(t) == txn[t].stage = "clearing" /\ txn[t].ctx # "live"
Done(t) == txn[t].stage = "done"

\* No step of the system takes a transaction back, and each of its own
\* takes it further.
LEMMA OnTheWay ==
  ASSUME IInv, [Next]_vars, NEW t \in Txns
  PROVE  /\ Spawned(t) => Spawned(t)' \/ Running(t)' \/ Abandoned(t)'
         /\ Running(t) => Running(t)' \/ Abandoned(t)' \/ Clearing(t)' \/ ClearingEnded(t)'
         /\ Abandoned(t) => Abandoned(t)' \/ ClearingEnded(t)'
         /\ Clearing(t) => Clearing(t)' \/ ClearingEnded(t)' \/ Done(t)'
         /\ ClearingEnded(t) => ClearingEnded(t)' \/ Done(t)'
<1>1. Moves(txn[t], txn'[t])
  BY NextMoves DEF AllMove
<1> QED BY <1>1 DEF Moves, Spawned, Running, Abandoned, Clearing, ClearingEnded, Done

LEMMA OwnSteps ==
  ASSUME IInv, NEW t \in Txns, Advance(t)
  PROVE  /\ Spawned(t) => ~Spawned(t)'
         /\ Running(t) => ~Running(t)'
         /\ Abandoned(t) => ~Abandoned(t)'
         /\ Clearing(t) => ~Clearing(t)'
         /\ ClearingEnded(t) => ~ClearingEnded(t)'
<1>1. txn[t] \in Txn /\ txn \in [Txns -> Txn]
  BY DEF IInv, TypeOK
<1> USE DEF Spawned, Running, Abandoned, Clearing, ClearingEnded
<1>2. CASE StoreCancel(t)
  BY <1>1, <1>2 DEF StoreCancel, Txn
<1>3. CASE Expire(t)
  BY <1>1, <1>3 DEF Expire, Txn
<1>4. CASE SendResult(t) \/ GiveUp(t)
  BY <1>1, <1>4 DEF SendResult, GiveUp, Txn
<1>5. CASE ClearCancel(t)
  BY <1>1, <1>5 DEF ClearCancel, Ended, Txn
<1> QED BY <1>2, <1>3, <1>4, <1>5 DEF Advance

\* Every transaction ends, if none is ever stuck: the goroutine of
\* handleCBOR and its timer alone take it there.
THEOREM TransactionsTerminate == FairSpec /\ []GuardsEnable => TransactionsEnd
<1>1. ASSUME NEW t \in Txns
      PROVE  Spec /\ TxnFairness(t) /\ []GuardsEnable =>
               ((txn[t].stage = "spawned") ~> (txn[t].stage = "done"))
  <2>1. IInv /\ [Next]_vars =>
          /\ Spawned(t) => Spawned(t)' \/ Running(t)' \/ Abandoned(t)'
          /\ Running(t) => Running(t)' \/ Abandoned(t)' \/ Clearing(t)' \/ ClearingEnded(t)'
          /\ Abandoned(t) => Abandoned(t)' \/ ClearingEnded(t)'
          /\ Clearing(t) => Clearing(t)' \/ ClearingEnded(t)' \/ Done(t)'
          /\ ClearingEnded(t) => ClearingEnded(t)' \/ Done(t)'
    BY OnTheWay
  <2>2. IInv /\ <<Advance(t)>>_vars =>
          /\ Spawned(t) => ~Spawned(t)'
          /\ Running(t) => ~Running(t)'
          /\ Abandoned(t) => ~Abandoned(t)'
          /\ Clearing(t) => ~Clearing(t)'
          /\ ClearingEnded(t) => ~ClearingEnded(t)'
    BY OwnSteps
  <2>3. GuardsEnable =>
          (Spawned(t) \/ Running(t) \/ Abandoned(t) \/ Clearing(t) \/ ClearingEnded(t) =>
             ENABLED <<Advance(t)>>_vars)
    BY DEF GuardsEnable, Unfinished, Spawned, Running, Abandoned, Clearing, ClearingEnded
  <2>4. (txn[t].stage = "spawned" <=> Spawned(t)) /\ (txn[t].stage = "done" <=> Done(t))
    BY DEF Spawned, Done
  <2> QED BY <2>1, <2>2, <2>3, <2>4, Invariance, PTL DEF Spec, TxnFairness
<1>2. FairSpec => Spec /\ \A t \in Txns : TxnFairness(t)
  BY DEF FairSpec, Fairness
<1>3. Spec /\ (\A t \in Txns : TxnFairness(t)) /\ []GuardsEnable => TransactionsEnd
  BY <1>1 DEF TransactionsEnd
<1> QED BY <1>2, <1>3

=============================================================================
