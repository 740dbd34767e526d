------------------------- MODULE EventBrokerProofs -------------------------
(***************************************************************************)
(* Proofs about EventBroker for every set of subscriptions, history limit, *)
(* slack and number of events.                                             *)
(***************************************************************************)
EXTENDS EventBroker, SequenceTheorems, TLAPS

(* The history holds the newest events, consecutively, and as many as fit. *)
HistoryInv ==
    /\ Len(history) = IF nextID <= HistoryLimit THEN nextID ELSE HistoryLimit
    /\ \A i \in 1 .. Len(history) : history[i] = nextID - Len(history) + i

(* b.mu is held exactly by the subscription that replays; close needs it.  *)
LockInv ==
    /\ \A s \in Subs : (mu = s) <=> (handler[s] = "replaying")
    /\ closed => mu = Nobody /\ subscribers = {}

IdleInv(s) ==
    handler[s] = "idle" =>
        chan[s] = "none" /\ buf[s] = <<>> /\ pos[s] = 0 /\ scan[s] = 1

(* The replay loop before its turn scan[s]: nothing lies between what is   *)
(* queued and the element to look at, and each turn queued at most one.    *)
ReplayInv(s) ==
    handler[s] = "replaying" =>
        /\ chan[s] = "open"
        /\ born[s] = nextID
        /\ cap[s] = Len(history) + Slack
        /\ 1 <= scan[s] /\ scan[s] <= Len(history) + 1
        /\ pos[s] <= nextID
        /\ Len(buf[s]) <= scan[s]
        /\ scan[s] <= Len(history) => Len(buf[s]) < scan[s]
        /\ Reached(s) = IF pos[s] > nextID - Len(history) + scan[s] - 1
                        THEN pos[s]
                        ELSE nextID - Len(history) + scan[s] - 1

(* A registered subscription is complete, and has used its slack only for  *)
(* events that were published since it subscribed.                         *)
LiveInv(s) ==
    s \in subscribers =>
        /\ chan[s] = "open"
        /\ handler[s] \notin {"idle", "replaying"}
        /\ Reached(s) = nextID
        /\ born[s] <= nextID
        /\ Len(buf[s]) <= cap[s] - Slack + 1 + (nextID - born[s])

GapInv(s) ==
    \A i \in 1 .. Len(buf[s]) :
        /\ buf[s][i].id <= nextID
        /\ buf[s][i].reset => i = 1
        /\ ~buf[s][i].reset => buf[s][i].id = Previous(s, i) + 1

OrphanInv(s) == chan[s] = "open" => (s \in subscribers \/ mu = s)

StreamInv ==
    \A s \in Subs : /\ IdleInv(s) /\ ReplayInv(s) /\ LiveInv(s)
                    /\ GapInv(s) /\ OrphanInv(s)

IInv == TypeOK /\ HistoryInv /\ LockInv /\ StreamInv /\ NoPanic

-----------------------------------------------------------------------------

(* Arithmetic, stated apart from the sequences it is applied to.           *)
LEMMA AtMostTransitive ==
    ASSUME NEW a \in Int, NEW b \in Int, NEW c \in Int, a <= b, b <= c
    PROVE  a <= c
  OBVIOUS

LEMMA LastPart ==
    ASSUME NEW a \in Nat, NEW b \in Nat, b <= a, NEW i \in 1 .. b
    PROVE  a - b + i \in 1 .. a
  OBVIOUS

LEMMA TrimmedLength ==
    ASSUME NEW a \in Nat, NEW n \in Nat, NEW k \in Nat,
           a = IF n <= k THEN n ELSE k,
           NEW m, m = n + 1, NEW b, b = a + 1,
           NEW c, c = IF b > k THEN k ELSE b
    PROVE  c <= k /\ c <= b /\ c = IF m <= k THEN m ELSE k
  OBVIOUS

LEMMA OneMore ==
    ASSUME NEW a \in Int, NEW c \in Int, NEW d \in Int, NEW n \in Int, NEW b \in Int,
           NEW l, l = a + 1, NEW m, m = n + 1, a <= c - d + 1 + (n - b)
    PROVE  l <= c - d + 1 + (m - b)
  OBVIOUS

LEMMA SlackUsed ==
    ASSUME NEW a \in Nat, NEW c \in Nat, NEW d \in Nat, NEW n \in Nat, NEW b \in Nat,
           NEW m, m = n + 1, a >= c, a <= c - d + 1 + (n - b)
    PROVE  m - b >= d
  OBVIOUS

(* The trimmed history is the newest HistoryLimit elements of h.           *)
Shorter(n) == IF n > HistoryLimit THEN HistoryLimit ELSE n
LEMMA TrimShape ==
    ASSUME NEW g \in Seq(Nat)
    PROVE  /\ Trim(g) \in Seq(Nat)
           /\ Len(Trim(g)) = Shorter(Len(g))
           /\ \A i \in 1 .. Shorter(Len(g)) :
                Trim(g)[i] = g[Len(g) - Shorter(Len(g)) + i]
  <1>0. Len(g) \in Nat /\ HistoryLimit \in Nat /\ HistoryLimit > 0
    BY LenProperties, BrokerAssumption
  <1>1. CASE Len(g) <= HistoryLimit
    <2>1. Trim(g) = g BY <1>0, <1>1 DEF Trim
    <2>2. Shorter(Len(g)) = Len(g) BY <1>0, <1>1 DEF Shorter
    <2>3. \A i \in 1 .. Len(g) : Len(g) - Len(g) + i = i BY <1>0
    <2> QED BY <2>1, <2>2, <2>3
  <1>2. CASE Len(g) > HistoryLimit
    <2> DEFINE m == Len(g) - HistoryLimit + 1
    <2>1. Trim(g) = SubSeq(g, m, Len(g)) BY <1>2 DEF Trim
    <2>2. Shorter(Len(g)) = HistoryLimit BY <1>2 DEF Shorter
    <2>3. m \in Int /\ Len(g) \in Int /\ m <= Len(g) BY <1>0, <1>2
    <2>4. \A i \in m .. Len(g) : g[i] \in Nat BY <1>0, <1>2, ElementOfSeq
    <2>5. /\ SubSeq(g, m, Len(g)) \in Seq(Nat)
          /\ Len(SubSeq(g, m, Len(g))) = Len(g) - m + 1
          /\ \A i \in 1 .. Len(g) - m + 1 : SubSeq(g, m, Len(g))[i] = g[m + i - 1]
      <3> HIDE DEF m
      <3> QED BY <2>3, <2>4, SubSeqProperties
    <2>6. /\ Len(g) - m + 1 = HistoryLimit
          /\ \A i \in 1 .. HistoryLimit : m + i - 1 = Len(g) - HistoryLimit + i
      BY <1>0
    <2> HIDE DEF m
    <2> QED BY <2>1, <2>2, <2>5, <2>6
  <1> QED BY <1>0, <1>1, <1>2

(* A cursor that is accepted names a point not after the newest event.     *)
LEMMA AfterBound ==
    ASSUME TypeOK, NEW c \in Cursors
    PROVE  After(c) \in 0 .. nextID
  BY BrokerAssumption DEF TypeOK, After, Rejected, Cursors

LEMMA ItemId ==
    ASSUME TypeOK, NEW s \in Subs, NEW i \in 1 .. Len(buf[s])
    PROVE  buf[s][i].id \in Nat
  <1>1. buf[s] \in Seq(Item) BY DEF TypeOK
  <1>2. buf[s][i] \in Item BY <1>1, ElementOfSeq
  <1> QED BY <1>2 DEF Item

LEMMA InitIInv == Init => IInv
  <1> SUFFICES ASSUME Init PROVE IInv OBVIOUS
  <1>1. TypeOK
    <2>1. history = <<>> /\ Len(history) = 0 /\ history \in Seq(Nat)
      BY DEF Init
    <2>2. buf \in [Subs -> Seq(Item)] /\ \A s \in Subs : Len(buf[s]) <= cap[s]
      BY DEF Init
    <2>3. closed \in BOOLEAN /\ panicked \in BOOLEAN BY DEF Init
    <2>4. ctx \in [Subs -> BOOLEAN] /\ done \in [Subs -> BOOLEAN] BY DEF Init
    <2> QED BY <2>1, <2>2, <2>3, <2>4, BrokerAssumption DEF Init, TypeOK
  <1>2. HistoryInv BY BrokerAssumption DEF Init, HistoryInv
  <1>3. LockInv BY BrokerAssumption DEF Init, LockInv
  <1>4. StreamInv
    BY DEF Init, StreamInv, IdleInv, ReplayInv, LiveInv, GapInv, OrphanInv
  <1>5. NoPanic BY DEF Init, NoPanic
  <1> QED BY <1>1, <1>2, <1>3, <1>4, <1>5 DEF IInv

(* Steps that leave the broker, the channels and the positions alone, and  *)
(* move no handler into or out of its subscribe call.                      *)
LEMMA FrameIInv ==
    ASSUME IInv, TypeOK',
           UNCHANGED <<brokerVars, scan, chanVars, pos, born, panicked>>,
           \A s \in Subs : \/ handler'[s] = handler[s]
                           \/ /\ handler[s] \notin {"idle", "replaying"}
                              /\ handler'[s] \notin {"idle", "replaying"}
    PROVE  IInv'
  <1> USE DEF IInv, brokerVars, chanVars
  <1>1. HistoryInv' BY DEF HistoryInv
  <1>2. LockInv' BY DEF LockInv
  <1>3. StreamInv'
    <2> SUFFICES ASSUME NEW s \in Subs
                 PROVE  /\ IdleInv(s)' /\ ReplayInv(s)' /\ LiveInv(s)'
                        /\ GapInv(s)' /\ OrphanInv(s)'
      BY DEF StreamInv
    <2>0. /\ IdleInv(s) /\ ReplayInv(s) /\ LiveInv(s) /\ GapInv(s) /\ OrphanInv(s)
          /\ Reached(s)' = Reached(s)
      BY DEF StreamInv, Reached
    <2>1. IdleInv(s)' BY <2>0 DEF IdleInv
    <2>2. ReplayInv(s)' BY <2>0 DEF ReplayInv
    <2>3. LiveInv(s)' BY <2>0 DEF LiveInv
    <2>4. GapInv(s)' BY <2>0 DEF GapInv, Previous
    <2>5. OrphanInv(s)' BY <2>0 DEF OrphanInv
    <2> QED BY <2>1, <2>2, <2>3, <2>4, <2>5
  <1>4. NoPanic' BY DEF NoPanic
  <1> QED BY <1>1, <1>2, <1>3, <1>4

LEMMA QuietIInv ==
    ASSUME IInv, NEW s \in Subs,
           \/ StreamClosed(s) \/ Heartbeat(s) \/ ContextDone(s)
           \/ Written(s) \/ WriteFails(s) \/ HandlerReturns(s)
    PROVE  IInv'
  <1>1. PICK from \in {"streaming", "writing", "returning"},
             to \in {"returning", "writing", "streaming", "gone"} :
             HandlerMoves(s, from, to) /\ Quiet
    BY DEF StreamClosed, Heartbeat, ContextDone, Written, WriteFails,
           HandlerReturns
  <1>2. TypeOK'
    <2>1. handler' \in [Subs -> {"idle", "replaying", "streaming", "writing",
                                 "returning", "cancelling", "gone"}]
      BY <1>1 DEF IInv, TypeOK, HandlerMoves
    <2>2. UNCHANGED <<brokerVars, scan, chanVars, pos, born, ctx, cancelVars, panicked>>
      BY <1>1 DEF Quiet
    <2> QED BY <2>1, <2>2 DEF IInv, TypeOK, brokerVars, chanVars, cancelVars
  <1>3. UNCHANGED <<brokerVars, scan, chanVars, pos, born, panicked>>
    BY <1>1 DEF Quiet
  <1>4. \A t \in Subs : \/ handler'[t] = handler[t]
                        \/ /\ handler[t] \notin {"idle", "replaying"}
                           /\ handler'[t] \notin {"idle", "replaying"}
    BY <1>1 DEF IInv, TypeOK, HandlerMoves
  <1> QED BY <1>2, <1>3, <1>4, FrameIInv

LEMMA SignalIInv ==
    ASSUME IInv, NEW s \in Subs,
           \/ WatcherCancels(s) \/ WatcherLate(s) \/ WatcherReleased(s)
           \/ HandlerCancels(s) \/ Disconnect(s)
    PROVE  IInv'
  <1>2. UNCHANGED <<brokerVars, scan, chanVars, pos, born, panicked>>
    BY DEF WatcherCancels, WatcherLate, WatcherReleased, HandlerCancels,
           Disconnect, CloseDone
  <1>1. TypeOK'
    <2> DEFINE States == {"idle", "replaying", "streaming", "writing",
                          "returning", "cancelling", "gone"}
               Watchers == {"none", "waiting", "cancelling"}
               Onces == {"fresh", "running", "done"}
    <2>0. /\ handler \in [Subs -> States] /\ watcher \in [Subs -> Watchers]
          /\ once \in [Subs -> Onces] /\ ctx \in [Subs -> BOOLEAN]
          /\ done \in [Subs -> BOOLEAN]
      BY DEF IInv, TypeOK
    <2>1. handler' = handler \/ handler' = [handler EXCEPT ![s] = "cancelling"]
      BY DEF HandlerMoves, WatcherCancels, WatcherLate, WatcherReleased,
             HandlerCancels, Disconnect
    <2>2. \/ watcher' = watcher
          \/ watcher' = [watcher EXCEPT ![s] = "cancelling"]
          \/ watcher' = [watcher EXCEPT ![s] = "none"]
      BY DEF WatcherCancels, WatcherLate, WatcherReleased, HandlerCancels,
             Disconnect, cancelVars
    <2>3. once' = once \/ once' = [once EXCEPT ![s] = "running"]
      BY DEF WatcherCancels, WatcherLate, WatcherReleased, HandlerCancels,
             Disconnect, CloseDone, cancelVars
    <2>4. done' = done \/ done' = [done EXCEPT ![s] = TRUE]
      BY DEF WatcherCancels, WatcherLate, WatcherReleased, HandlerCancels,
             Disconnect, CloseDone, cancelVars
    <2>5. ctx' = ctx \/ ctx' = [ctx EXCEPT ![s] = TRUE]
      BY DEF WatcherCancels, WatcherLate, WatcherReleased, HandlerCancels,
             Disconnect, CloseDone
    <2>6. handler' \in [Subs -> States] BY <2>0, <2>1
    <2>7. watcher' \in [Subs -> Watchers] BY <2>0, <2>2
    <2>8. once' \in [Subs -> Onces] BY <2>0, <2>3
    <2>9. done' \in [Subs -> BOOLEAN] /\ ctx' \in [Subs -> BOOLEAN]
      BY <2>0, <2>4, <2>5
    <2> QED
      BY <1>2, <2>6, <2>7, <2>8, <2>9 DEF IInv, TypeOK, brokerVars, chanVars
  <1>3. \A t \in Subs : \/ handler'[t] = handler[t]
                        \/ /\ handler[t] \notin {"idle", "replaying"}
                           /\ handler'[t] \notin {"idle", "replaying"}
    BY DEF IInv, TypeOK, HandlerMoves, WatcherCancels, WatcherLate,
           WatcherReleased, HandlerCancels, Disconnect, CloseDone
  <1> QED BY <1>1, <1>2, <1>3, FrameIInv

(* A subscription none of whose state changes keeps its invariants as long *)
(* as the broker's sequence, and its membership, stay the same.            *)
LEMMA OthersInv ==
    ASSUME IInv, NEW t \in Subs,
           UNCHANGED <<nextID, history>>,
           scan'[t] = scan[t], chan'[t] = chan[t], cap'[t] = cap[t],
           buf'[t] = buf[t], pos'[t] = pos[t], born'[t] = born[t],
           handler'[t] = handler[t],
           (t \in subscribers') <=> (t \in subscribers),
           mu = t => mu' = t
    PROVE  /\ IdleInv(t)' /\ ReplayInv(t)' /\ LiveInv(t)'
           /\ GapInv(t)' /\ OrphanInv(t)'
  BY DEF IInv, StreamInv, IdleInv, ReplayInv, LiveInv, GapInv, OrphanInv,
         Reached, Previous

LEMMA SubscribeClosedIInv ==
    ASSUME IInv, NEW s \in Subs, SubscribeClosed(s)
    PROVE  IInv'
  <1> USE DEF IInv, brokerVars
  <1>0. buf[s] = <<>> /\ Len(buf[s]) = 0 BY DEF SubscribeClosed, StreamInv, IdleInv
  <1>1. TypeOK'
    BY <1>0, BrokerAssumption, LenProperties DEF SubscribeClosed, TypeOK, ChannelCapacity
  <1>2. HistoryInv' BY DEF SubscribeClosed, HistoryInv
  <1>3. LockInv' BY BrokerAssumption DEF SubscribeClosed, LockInv, TypeOK
  <1>4. StreamInv'
    <2> SUFFICES ASSUME NEW t \in Subs
                 PROVE  /\ IdleInv(t)' /\ ReplayInv(t)' /\ LiveInv(t)'
                        /\ GapInv(t)' /\ OrphanInv(t)'
      BY DEF StreamInv
    <2>1. CASE t # s BY <2>1, OthersInv DEF SubscribeClosed, TypeOK
    <2>2. CASE t = s
      BY <2>2, <1>0 DEF SubscribeClosed, TypeOK, IdleInv, ReplayInv, LiveInv,
                        GapInv, OrphanInv, LockInv
    <2> QED BY <2>1, <2>2
  <1>5. NoPanic' BY DEF SubscribeClosed, NoPanic
  <1> QED BY <1>1, <1>2, <1>3, <1>4, <1>5

LEMMA SubscribeLockIInv ==
    ASSUME IInv, NEW s \in Subs, NEW c \in Cursors, SubscribeLock(s, c)
    PROVE  IInv'
  <1> USE DEF IInv
  <1>0. buf[s] = <<>> /\ Len(buf[s]) = 0 /\ scan[s] = 1
    BY DEF SubscribeLock, StreamInv, IdleInv
  <1>a. After(c) \in 0 .. nextID /\ nextID \in Nat BY AfterBound DEF TypeOK
  <1>b. Len(history) \in Nat BY LenProperties DEF TypeOK
  <1>c. StreamReset(nextID) \in Item BY <1>a DEF StreamReset, Item
  <1>1. TypeOK'
    <2>1. /\ buf' \in [Subs -> Seq(Item)]
          /\ scan' \in [Subs -> Nat]
          /\ \A t \in Subs : Len(buf'[t]) <= cap'[t]
      <3>1. CASE Unreplayable(c)
        <4> DEFINE q == <<StreamReset(nextID)>>
        <4>1. q \in Seq(Item) /\ Len(q) = 1 BY <1>c
        <4>2. buf' = [buf EXCEPT ![s] = q] BY <3>1 DEF SubscribeLock
        <4>3. /\ scan' = [scan EXCEPT ![s] = Len(history) + 1]
              /\ cap' = [cap EXCEPT ![s] = Len(history) + Slack]
          BY <3>1 DEF SubscribeLock, ChannelCapacity
        <4> HIDE DEF q
        <4>4. buf' \in [Subs -> Seq(Item)] BY <4>1, <4>2 DEF TypeOK
        <4>5. scan' \in [Subs -> Nat] BY <4>3, <1>b DEF TypeOK
        <4>6. \A t \in Subs : Len(buf'[t]) <= cap'[t]
          <5> TAKE t \in Subs
          <5>1. CASE t = s
            <6>1. buf'[s] = q /\ cap'[s] = Len(history) + Slack
              BY <4>2, <4>3 DEF TypeOK
            <6> QED BY <5>1, <6>1, <4>1, <1>b, BrokerAssumption
          <5>2. CASE t # s BY <5>2, <4>2, <4>3 DEF TypeOK
          <5> QED BY <5>1, <5>2
        <4> QED BY <4>4, <4>5, <4>6
      <3>2. CASE ~Unreplayable(c)
        BY <3>2, <1>0, <1>b, BrokerAssumption
        DEF SubscribeLock, TypeOK, ChannelCapacity
      <3> QED BY <3>1, <3>2
    <2>2. /\ mu' \in Subs \cup {Nobody}
          /\ chan' \in [Subs -> {"none", "open", "closed"}]
          /\ cap' \in [Subs -> Nat]
          /\ pos' \in [Subs -> Nat]
          /\ born' \in [Subs -> Nat]
          /\ handler' \in [Subs -> {"idle", "replaying", "streaming", "writing",
                                   "returning", "cancelling", "gone"}]
      <3>1. /\ mu' = s
            /\ chan' = [chan EXCEPT ![s] = "open"]
            /\ cap' = [cap EXCEPT ![s] = ChannelCapacity]
            /\ pos' = [pos EXCEPT ![s] = After(c)]
            /\ born' = [born EXCEPT ![s] = nextID]
            /\ handler' = [handler EXCEPT ![s] = "replaying"]
        BY DEF SubscribeLock
      <3>2. ChannelCapacity \in Nat /\ After(c) \in Nat /\ nextID \in Nat
        BY <1>a, <1>b, BrokerAssumption DEF ChannelCapacity
      <3> QED BY <3>1, <3>2 DEF TypeOK
    <2> QED BY <2>1, <2>2 DEF SubscribeLock, TypeOK, cancelVars
  <1>2. HistoryInv' BY DEF SubscribeLock, HistoryInv
  <1>3. LockInv' BY BrokerAssumption DEF SubscribeLock, LockInv, TypeOK
  <1>4. StreamInv'
    <2> SUFFICES ASSUME NEW t \in Subs
                 PROVE  /\ IdleInv(t)' /\ ReplayInv(t)' /\ LiveInv(t)'
                        /\ GapInv(t)' /\ OrphanInv(t)'
      BY DEF StreamInv
    <2>1. CASE t # s
      <3>1. /\ scan'[t] = scan[t] /\ chan'[t] = chan[t] /\ cap'[t] = cap[t]
            /\ buf'[t] = buf[t] /\ pos'[t] = pos[t] /\ born'[t] = born[t]
            /\ handler'[t] = handler[t]
        BY <2>1 DEF SubscribeLock, TypeOK
      <3> QED BY <3>1, OthersInv, BrokerAssumption DEF SubscribeLock, TypeOK
    <2>2. CASE t = s
      <3>0. s \notin subscribers BY DEF SubscribeLock, StreamInv, LiveInv
      <3>1. /\ handler'[s] = "replaying" /\ chan'[s] = "open" /\ mu' = s
            /\ born'[s] = nextID /\ cap'[s] = Len(history) + Slack
            /\ pos'[s] = After(c) /\ subscribers' = subscribers
            /\ nextID' = nextID /\ history' = history
        BY DEF SubscribeLock, TypeOK, ChannelCapacity
      <3>2. CASE Unreplayable(c)
        <4>1. /\ buf'[s] = <<StreamReset(nextID)>>
              /\ scan'[s] = Len(history) + 1
          BY <3>2 DEF SubscribeLock, TypeOK
        <4>2. /\ Len(buf'[s]) = 1 /\ buf'[s] # <<>>
              /\ buf'[s][1] = StreamReset(nextID)
          BY <4>1
        <4>3. ReplayInv(s)'
          BY <3>1, <4>1, <4>2, <1>a, <1>b DEF ReplayInv, Reached, StreamReset
        <4>4. GapInv(s)'
          BY <3>1, <4>1, <4>2, <1>a DEF GapInv, StreamReset
        <4> QED BY <2>2, <3>0, <3>1, <4>3, <4>4 DEF IdleInv, LiveInv, OrphanInv
      <3>3. CASE ~Unreplayable(c)
        <4>1. buf'[s] = <<>> /\ scan'[s] = 1
          BY <3>3, <1>0 DEF SubscribeLock, TypeOK
        <4>2. nextID - Len(history) <= After(c)
          <5>1. CASE Len(history) = 0
            BY <5>1, <1>a, BrokerAssumption DEF HistoryInv
          <5>2. CASE Len(history) > 0
            <6>1. history[1] = nextID - Len(history) + 1
              BY <5>2, <1>b DEF HistoryInv
            <6>2. ~(After(c) < history[1] - 1)
              BY <3>3, <5>2 DEF Unreplayable, Evicted
            <6> QED BY <6>1, <6>2, <1>a, <1>b
          <5> QED BY <5>1, <5>2, <1>b
        <4>3. ReplayInv(s)'
          BY <3>1, <4>1, <4>2, <1>a, <1>b DEF ReplayInv, Reached
        <4>4. GapInv(s)' BY <4>1 DEF GapInv
        <4> QED BY <2>2, <3>0, <3>1, <4>3, <4>4 DEF IdleInv, LiveInv, OrphanInv
      <3> QED BY <3>2, <3>3
    <2> QED BY <2>1, <2>2
  <1>5. NoPanic' BY DEF SubscribeLock, NoPanic
  <1> QED BY <1>1, <1>2, <1>3, <1>4, <1>5

LEMMA ReplayIInv ==
    ASSUME IInv, NEW s \in Subs, Replay(s)
    PROVE  IInv'
  <1> USE DEF IInv, brokerVars
  <1>0. /\ handler[s] = "replaying" /\ scan[s] \in 1 .. Len(history)
        /\ Len(history) \in Nat /\ nextID \in Nat /\ pos[s] \in Nat
        /\ buf[s] \in Seq(Item) /\ Len(buf[s]) \in Nat
        /\ history[scan[s]] \in Nat
    <2>1. /\ handler[s] = "replaying" /\ nextID \in Nat /\ pos[s] \in Nat
          /\ buf[s] \in Seq(Item) /\ history \in Seq(Nat) /\ scan[s] \in Nat
      BY DEF Replay, TypeOK
    <2>2. Len(history) \in Nat /\ Len(buf[s]) \in Nat BY <2>1, LenProperties
    <2>3. scan[s] \in 1 .. Len(history)
      BY <2>1, <2>2 DEF Replay, ReplayOver, StreamInv, ReplayInv
    <2>4. history[scan[s]] \in Nat BY <2>1, <2>3, ElementOfSeq
    <2> QED BY <2>1, <2>2, <2>3, <2>4
  <1>a. history[scan[s]] = nextID - Len(history) + scan[s]
    BY <1>0 DEF HistoryInv
  <1>b. Event(history[scan[s]]) \in Item BY <1>0 DEF Event, Item
  <1> DEFINE q == Append(buf[s], Event(history[scan[s]]))
  <1>c. /\ q \in Seq(Item) /\ Len(q) = Len(buf[s]) + 1 /\ q # <<>>
        /\ \A i \in 1 .. Len(buf[s]) : q[i] = buf[s][i]
        /\ q[Len(buf[s]) + 1] = Event(history[scan[s]])
    BY <1>0, <1>b, AppendProperties
  <1>d. buf' = IF MustReplay(s) THEN [buf EXCEPT ![s] = q] ELSE buf
    BY DEF Replay
  <1> HIDE DEF q
  <1>e. ReplayInv(s) /\ GapInv(s) BY DEF StreamInv
  <1>1. TypeOK'
    <2>1. scan' \in [Subs -> Nat]
      <3>1. scan' = [scan EXCEPT ![s] = @ + 1] BY DEF Replay
      <3> QED BY <3>1 DEF TypeOK
    <2>2. /\ buf' \in [Subs -> Seq(Item)]
          /\ \A t \in Subs : Len(buf'[t]) <= cap[t]
      <3>1. CASE MustReplay(s)
        <4>1. buf' = [buf EXCEPT ![s] = q] BY <3>1, <1>d
        <4>2. buf' \in [Subs -> Seq(Item)] BY <4>1, <1>c DEF TypeOK
        <4>3. Len(q) <= cap[s]
          <5>1. ~Full(s) /\ cap[s] \in Nat BY <3>1 DEF Replay, TypeOK
          <5> QED BY <5>1, <1>0, <1>c DEF Full
        <4>4. \A t \in Subs : buf'[t] = IF t = s THEN q ELSE buf[t] BY <4>1 DEF TypeOK
        <4> QED BY <4>2, <4>3, <4>4 DEF TypeOK
      <3>2. CASE ~MustReplay(s)
        BY <3>2, <1>d DEF TypeOK
      <3> QED BY <3>1, <3>2
    <2> QED BY <2>1, <2>2 DEF Replay, TypeOK, cancelVars
  <1>2. HistoryInv' BY DEF Replay, HistoryInv
  <1>3. LockInv' BY DEF Replay, LockInv
  <1>4. StreamInv'
    <2> SUFFICES ASSUME NEW t \in Subs
                 PROVE  /\ IdleInv(t)' /\ ReplayInv(t)' /\ LiveInv(t)'
                        /\ GapInv(t)' /\ OrphanInv(t)'
      BY DEF StreamInv
    <2>1. CASE t # s
      <3>1. buf'[t] = buf[t] /\ scan'[t] = scan[t] BY <2>1, <1>d DEF Replay, TypeOK
      <3> QED BY <3>1, OthersInv DEF Replay
    <2>2. CASE t = s
      <3>1. /\ UNCHANGED <<nextID, history, subscribers, mu, chan, cap, pos, born,
                           handler>>
            /\ scan'[s] = scan[s] + 1
        BY DEF Replay, TypeOK
      <3>2. s \notin subscribers BY <1>0 DEF StreamInv, LiveInv
      <3>3. Len(buf[s]) < scan[s] BY <1>0, <1>e DEF ReplayInv
      <3>4. CASE MustReplay(s)
        <4>1. buf'[s] = q BY <3>4, <1>d DEF TypeOK
        <4>2. pos[s] < history[scan[s]] BY <3>4, <1>0 DEF MustReplay
        <4>3. Reached(s) = history[scan[s]] - 1
          BY <4>2, <1>0, <1>a, <1>e DEF ReplayInv
        <4>4. Reached(s)' = history[scan[s]]
          BY <4>1, <1>c DEF Reached, Event
        <4>5. ReplayInv(s)'
          <5>1. Len(buf'[s]) = Len(buf[s]) + 1 BY <4>1, <1>c
          <5>2. /\ chan[s] = "open" /\ born[s] = nextID /\ pos[s] <= nextID
                /\ cap[s] = Len(history) + Slack
            BY <1>0, <1>e DEF ReplayInv
          <5>3. ~(pos[s] > nextID - Len(history) + scan'[s] - 1)
            BY <3>1, <4>2, <1>0, <1>a
          <5>4. Reached(s)' = nextID - Len(history) + scan'[s] - 1
            BY <3>1, <4>4, <1>0, <1>a
          <5>5. /\ 1 <= scan'[s] /\ scan'[s] <= Len(history) + 1
                /\ Len(buf'[s]) < scan'[s] /\ Len(buf'[s]) <= scan'[s]
            BY <3>1, <3>3, <5>1, <1>0
          <5>6. Reached(s)' = IF pos[s] > nextID - Len(history) + scan'[s] - 1
                              THEN pos[s]
                              ELSE nextID - Len(history) + scan'[s] - 1
            BY <5>3, <5>4
          <5> QED BY <3>1, <5>2, <5>5, <5>6 DEF ReplayInv
        <4>6. GapInv(s)'
          <5> SUFFICES ASSUME NEW i \in 1 .. Len(q)
                       PROVE  /\ q[i].id <= nextID
                              /\ q[i].reset => i = 1
                              /\ ~q[i].reset => q[i].id = Previous(s, i)' + 1
            BY <3>1, <4>1 DEF GapInv
          <5>1. CASE i \in 1 .. Len(buf[s])
            <6>1. Previous(s, i)' = Previous(s, i)
              <7>1. CASE i = 1 BY <7>1, <3>1 DEF Previous
              <7>2. CASE i # 1
                <8>1. i - 1 \in 1 .. Len(buf[s]) BY <7>2, <5>1, <1>0
                <8>2. q[i - 1] = buf[s][i - 1] BY <8>1, <1>c
                <8> QED BY <7>2, <8>2, <4>1 DEF Previous
              <7> QED BY <7>1, <7>2
            <6> QED BY <5>1, <6>1, <1>c, <1>e DEF GapInv
          <5>2. CASE i = Len(buf[s]) + 1
            <6>1. Previous(s, i)' = Reached(s)
              BY <5>2, <3>1, <4>1, <1>0, <1>c DEF Previous, Reached
            <6> QED BY <5>2, <6>1, <4>3, <1>0, <1>a, <1>c DEF Event
          <5> QED BY <5>1, <5>2, <1>0, <1>c
        <4> QED
          BY <2>2, <3>1, <3>2, <4>5, <4>6, <1>0
          DEF IdleInv, LiveInv, OrphanInv, StreamInv
      <3>5. CASE ~MustReplay(s)
        <4>1. buf'[s] = buf[s] BY <3>5, <1>d DEF TypeOK
        <4>2. pos[s] >= history[scan[s]] BY <3>5, <1>0 DEF MustReplay
        <4>3. Reached(s)' = Reached(s) BY <3>1, <4>1 DEF Reached
        <4>4. ReplayInv(s)'
          <5>1. /\ chan[s] = "open" /\ born[s] = nextID /\ pos[s] <= nextID
                /\ cap[s] = Len(history) + Slack
            BY <1>0, <1>e DEF ReplayInv
          <5>2. Reached(s) = pos[s] BY <4>2, <1>0, <1>a, <1>e DEF ReplayInv
          <5>3. pos[s] >= nextID - Len(history) + scan'[s] - 1
            BY <3>1, <4>2, <1>0, <1>a
          <5>4. /\ 1 <= scan'[s] /\ scan'[s] <= Len(history) + 1
                /\ Len(buf[s]) < scan'[s] /\ Len(buf[s]) <= scan'[s]
            BY <3>1, <3>3, <1>0
          <5>5. pos[s] = IF pos[s] > nextID - Len(history) + scan'[s] - 1
                         THEN pos[s]
                         ELSE nextID - Len(history) + scan'[s] - 1
            <6>1. scan'[s] \in Nat BY <3>1, <1>0
            <6>2. nextID \in Nat /\ Len(history) \in Nat /\ pos[s] \in Nat
              BY <1>0
            <6> QED BY <6>1, <6>2, <5>3
          <5>6. Reached(s)' = pos'[s] BY <3>1, <4>3, <5>2
          <5>7. Len(buf'[s]) = Len(buf[s]) BY <4>1
          <5> QED BY <3>1, <5>1, <5>4, <5>5, <5>6, <5>7 DEF ReplayInv
        <4>5. GapInv(s)' BY <3>1, <4>1, <1>e DEF GapInv, Previous
        <4> QED
          BY <2>2, <3>1, <3>2, <4>4, <4>5, <1>0
          DEF IdleInv, LiveInv, OrphanInv, StreamInv
      <3> QED BY <3>4, <3>5
    <2> QED BY <2>1, <2>2
  <1>5. NoPanic' BY DEF Replay, NoPanic
  <1> QED BY <1>1, <1>2, <1>3, <1>4, <1>5

LEMMA RegisterIInv ==
    ASSUME IInv, NEW s \in Subs, Register(s)
    PROVE  IInv'
  <1> USE DEF IInv, chanVars
  <1>0. /\ handler[s] = "replaying" /\ mu = s /\ ~closed
        /\ ReplayInv(s) /\ Len(history) \in Nat /\ nextID \in Nat
        /\ pos[s] \in Nat /\ scan[s] \in Nat /\ Len(buf[s]) \in Nat
    BY BrokerAssumption, LenProperties DEF Register, StreamInv, LockInv, TypeOK
  <1>1. TypeOK' BY BrokerAssumption DEF Register, TypeOK
  <1>2. HistoryInv' BY DEF Register, HistoryInv
  <1>3. LockInv' BY <1>0, BrokerAssumption DEF Register, LockInv, TypeOK
  <1>4. StreamInv'
    <2> SUFFICES ASSUME NEW t \in Subs
                 PROVE  /\ IdleInv(t)' /\ ReplayInv(t)' /\ LiveInv(t)'
                        /\ GapInv(t)' /\ OrphanInv(t)'
      BY DEF StreamInv
    <2>1. CASE t # s BY <2>1, <1>0, OthersInv DEF Register, TypeOK
    <2>2. CASE t = s
      <3>1. scan[s] = Len(history) + 1
        BY <1>0 DEF Register, ReplayOver, ReplayInv
      <3>2. Reached(s)' = Reached(s) BY DEF Register, Reached
      <3>3. Reached(s) = nextID BY <1>0, <3>1 DEF ReplayInv
      <3>4. LiveInv(s)'
        BY <1>0, <3>1, <3>2, <3>3, BrokerAssumption
        DEF Register, TypeOK, LiveInv, ReplayInv
      <3>5. GapInv(s)' BY DEF Register, GapInv, Previous, StreamInv
      <3> QED
        BY <2>2, <3>4, <3>5 DEF Register, TypeOK, IdleInv, ReplayInv, OrphanInv
    <2> QED BY <2>1, <2>2
  <1>5. NoPanic' BY DEF Register, NoPanic
  <1> QED BY <1>1, <1>2, <1>3, <1>4, <1>5

LEMMA ReceiveIInv ==
    ASSUME IInv, NEW s \in Subs, Receive(s)
    PROVE  IInv'
  <1> USE DEF IInv, brokerVars
  <1>0. /\ buf[s] \in Seq(Item) /\ buf[s] # <<>> /\ Len(buf[s]) \in Nat
        /\ handler[s] = "streaming" /\ handler' = [handler EXCEPT ![s] = "writing"]
    BY LenProperties DEF Receive, HandlerMoves, TypeOK
  <1> DEFINE q == Tail(buf[s])
  <1>1. /\ q \in Seq(Item) /\ Len(q) = Len(buf[s]) - 1 /\ Head(buf[s]) \in Item
        /\ \A i \in 1 .. Len(q) : q[i] = buf[s][i + 1]
    BY <1>0, HeadTailProperties
  <1>2. Head(buf[s]) = buf[s][1] /\ Len(buf[s]) >= 1
    BY <1>0, EmptySeq
  <1>3. /\ buf' = [buf EXCEPT ![s] = q]
        /\ pos' = [pos EXCEPT ![s] = buf[s][1].id]
        /\ buf[s][1].id \in Nat
    BY <1>1, <1>2 DEF Receive, Item
  <1> HIDE DEF q
  <1>4. /\ buf'[s] = q /\ pos'[s] = buf[s][1].id /\ Len(q) \in Nat
    BY <1>0, <1>1, <1>2, <1>3 DEF TypeOK
  <1>5. TypeOK'
    <2>1. /\ buf' \in [Subs -> Seq(Item)] /\ pos' \in [Subs -> Nat]
          /\ handler' \in [Subs -> {"idle", "replaying", "streaming", "writing",
                                   "returning", "cancelling", "gone"}]
      BY <1>0, <1>1, <1>3 DEF TypeOK
    <2>2. \A t \in Subs : Len(buf'[t]) <= cap[t]
      <3> TAKE t \in Subs
      <3>1. CASE t = s BY <3>1, <1>0, <1>1, <1>4 DEF TypeOK
      <3>2. CASE t # s BY <3>2, <1>3 DEF TypeOK
      <3> QED BY <3>1, <3>2
    <2> QED BY <2>1, <2>2 DEF Receive, TypeOK, cancelVars
  <1>6. HistoryInv' BY DEF Receive, HistoryInv
  <1>7. LockInv' BY <1>0 DEF Receive, LockInv, TypeOK
  <1>8. StreamInv'
    <2> SUFFICES ASSUME NEW t \in Subs
                 PROVE  /\ IdleInv(t)' /\ ReplayInv(t)' /\ LiveInv(t)'
                        /\ GapInv(t)' /\ OrphanInv(t)'
      BY DEF StreamInv
    <2>1. CASE t # s
      <3>1. buf'[t] = buf[t] /\ pos'[t] = pos[t] /\ handler'[t] = handler[t]
        BY <2>1, <1>0, <1>3 DEF TypeOK
      <3> QED BY <3>1, OthersInv DEF Receive
    <2>2. CASE t = s
      <3>1. /\ UNCHANGED <<nextID, history, subscribers, mu, chan, cap, born, scan>>
            /\ handler'[s] = "writing"
        BY <1>0 DEF Receive, TypeOK
      <3>2. Reached(s)' = Reached(s)
        <4>1. CASE Len(q) = 0
          <5>1. q = <<>> /\ Len(buf[s]) = 1 BY <4>1, <1>0, <1>1, EmptySeq
          <5> QED BY <5>1, <1>0, <1>4 DEF Reached
        <4>2. CASE Len(q) > 0
          <5>1. q # <<>> /\ q[Len(q)] = buf[s][Len(buf[s])]
            BY <4>2, <1>0, <1>1, <1>4
          <5> QED BY <5>1, <1>0, <1>4 DEF Reached
        <4> QED BY <4>1, <4>2, <1>4
      <3>3. LiveInv(s)'
        <4>1. Len(buf'[s]) <= Len(buf[s]) BY <1>0, <1>1, <1>4
        <4>2. /\ cap[s] \in Nat /\ born[s] \in Nat /\ nextID \in Nat
              /\ Slack \in Nat /\ Len(buf'[s]) \in Nat
          BY <1>4, BrokerAssumption DEF TypeOK
        <4>3. ASSUME s \in subscribers
              PROVE  /\ chan[s] = "open" /\ Reached(s) = nextID /\ born[s] <= nextID
                     /\ Len(buf'[s]) <= cap[s] - Slack + 1 + (nextID - born[s])
          <5>1. /\ chan[s] = "open" /\ Reached(s) = nextID /\ born[s] <= nextID
                /\ Len(buf[s]) <= cap[s] - Slack + 1 + (nextID - born[s])
            BY <4>3 DEF LiveInv, StreamInv
          <5>2. cap[s] - Slack + 1 + (nextID - born[s]) \in Int BY <4>2
          <5>3. Len(buf[s]) \in Int /\ Len(buf'[s]) \in Int BY <4>2, <1>0
          <5>4. Len(buf'[s]) <= cap[s] - Slack + 1 + (nextID - born[s])
            BY <4>1, <5>1, <5>2, <5>3, AtMostTransitive
          <5> QED BY <5>1, <5>4
        <4> QED BY <3>1, <3>2, <4>3 DEF LiveInv
      <3>4. GapInv(s)'
        <4> SUFFICES ASSUME NEW i \in 1 .. Len(q)
                     PROVE  /\ q[i].id <= nextID
                            /\ ~q[i].reset
                            /\ q[i].id = Previous(s, i)' + 1
          BY <3>1, <1>4 DEF GapInv
        <4>1. /\ i + 1 \in 1 .. Len(buf[s]) /\ i + 1 # 1 /\ (i + 1) - 1 = i
              /\ q[i] = buf[s][i + 1]
          BY <1>0, <1>1
        <4>2. /\ q[i].id <= nextID /\ ~q[i].reset
              /\ q[i].id = Previous(s, i + 1) + 1
          BY <4>1 DEF StreamInv, GapInv
        <4>3. Previous(s, i + 1) = buf[s][i].id BY <4>1 DEF Previous
        <4>4. Previous(s, i)' = buf[s][i].id
          <5>1. CASE i = 1 BY <5>1, <1>4 DEF Previous
          <5>2. CASE i # 1
            <6>1. i - 1 \in 1 .. Len(q) /\ (i - 1) + 1 = i BY <5>2, <1>4
            <6>2. q[i - 1] = buf[s][i] BY <6>1, <1>1
            <6> QED BY <5>2, <6>2, <1>4 DEF Previous
          <5> QED BY <5>1, <5>2
        <4> QED BY <4>2, <4>3, <4>4
      <3> QED
        BY <2>2, <3>1, <3>3, <3>4 DEF IdleInv, ReplayInv, OrphanInv, StreamInv
    <2> QED BY <2>1, <2>2
  <1>9. NoPanic' BY DEF Receive, NoPanic
  <1> QED BY <1>5, <1>6, <1>7, <1>8, <1>9

LEMMA UnsubscribeIInv ==
    ASSUME IInv, NEW s \in Subs,
           WatcherUnsubscribes(s) \/ HandlerUnsubscribes(s)
    PROVE  IInv'
  <1> USE DEF IInv
  <1>0. /\ Unsubscribe(s)
        /\ \A t \in Subs : \/ handler'[t] = handler[t]
                           \/ /\ handler[t] \notin {"idle", "replaying"}
                              /\ handler'[t] \notin {"idle", "replaying"}
    BY DEF WatcherUnsubscribes, HandlerUnsubscribes, HandlerMoves, TypeOK
  <1>a. OwnChannel(s) \subseteq subscribers /\ OwnChannel(s) \subseteq {s}
    BY DEF OwnChannel
  <1>b. \A t \in Subs : chan'[t] = IF t \in OwnChannel(s) THEN "closed" ELSE chan[t]
    BY <1>0 DEF Unsubscribe
  <1>1. TypeOK'
    <2>1. /\ handler' \in [Subs -> {"idle", "replaying", "streaming", "writing",
                                   "returning", "cancelling", "gone"}]
          /\ watcher' \in [Subs -> {"none", "waiting", "cancelling"}]
      BY DEF WatcherUnsubscribes, HandlerUnsubscribes, HandlerMoves, TypeOK
    <2>2. /\ once' \in [Subs -> {"fresh", "running", "done"}]
          /\ subscribers' \subseteq Subs
          /\ chan' \in [Subs -> {"none", "open", "closed"}]
      BY <1>0 DEF Unsubscribe, TypeOK
    <2>3. panicked' \in BOOLEAN BY <1>0 DEF Unsubscribe
    <2> QED BY <2>1, <2>2, <2>3, <1>0 DEF Unsubscribe, TypeOK
  <1>2. HistoryInv' BY <1>0 DEF Unsubscribe, HistoryInv
  <1>3. LockInv' BY <1>0 DEF Unsubscribe, LockInv, TypeOK
  <1>4. StreamInv'
    <2> SUFFICES ASSUME NEW t \in Subs
                 PROVE  /\ IdleInv(t)' /\ ReplayInv(t)' /\ LiveInv(t)'
                        /\ GapInv(t)' /\ OrphanInv(t)'
      BY DEF StreamInv
    <2>0. /\ UNCHANGED <<nextID, history, mu, scan, cap, buf, pos, born>>
          /\ mu = Nobody /\ mu # t
          /\ subscribers' = subscribers \ {s}
      BY <1>0, BrokerAssumption DEF Unsubscribe
    <2>1. GapInv(t)' BY <2>0 DEF GapInv, StreamInv, Previous
    <2>2. handler[t] # "replaying" BY <2>0 DEF LockInv
    <2>3. IdleInv(t)'
      BY <2>0, <1>0, <1>a, <1>b DEF IdleInv, LiveInv, StreamInv
    <2>4. ReplayInv(t)' BY <2>2, <1>0 DEF ReplayInv
    <2>5. LiveInv(t)'
      BY <2>0, <1>0, <1>a, <1>b DEF LiveInv, StreamInv, Reached
    <2>6. OrphanInv(t)'
      <3>1. CASE t \in OwnChannel(s) BY <3>1, <1>b DEF OrphanInv
      <3>2. CASE t \notin OwnChannel(s)
        BY <3>2, <2>0, <1>b DEF OrphanInv, OwnChannel, StreamInv
      <3> QED BY <3>1, <3>2
    <2> QED BY <2>1, <2>3, <2>4, <2>5, <2>6
  <1>5. NoPanic'
    <2>1. ~TouchesClosed(OwnChannel(s))
      BY <1>a DEF TouchesClosed, StreamInv, LiveInv, TypeOK
    <2> QED BY <2>1, <1>0 DEF Unsubscribe, NoPanic
  <1> QED BY <1>1, <1>2, <1>3, <1>4, <1>5

LEMMA CloseIInv ==
    ASSUME IInv, Close
    PROVE  IInv'
  <1> USE DEF IInv
  <1>1. TypeOK'
    <2>1. panicked' \in BOOLEAN /\ closed' \in BOOLEAN BY DEF Close
    <2>2. /\ subscribers' \subseteq Subs
          /\ chan' \in [Subs -> {"none", "open", "closed"}]
      BY DEF Close, TypeOK
    <2> QED BY <2>1, <2>2 DEF Close, TypeOK, cancelVars
  <1>2. HistoryInv' BY DEF Close, HistoryInv
  <1>3. LockInv' BY DEF Close, LockInv
  <1>4. StreamInv'
    BY DEF Close, LockInv, TypeOK, StreamInv, IdleInv, ReplayInv, LiveInv, GapInv,
           OrphanInv, Reached, Previous
  <1>5. NoPanic'
    <2>1. ~TouchesClosed(subscribers)
      BY DEF TouchesClosed, StreamInv, LiveInv, TypeOK
    <2> QED BY <2>1 DEF Close, NoPanic
  <1> QED BY <1>1, <1>2, <1>3, <1>4, <1>5

LEMMA PublishIInv ==
    ASSUME IInv, Publish
    PROVE  IInv'
  <1> USE DEF IInv
  <1>0. /\ nextID \in Nat /\ nextID' = nextID + 1 /\ history \in Seq(Nat)
        /\ Len(history) \in Nat /\ Len(history) <= HistoryLimit
        /\ mu = Nobody /\ mu' = mu
        /\ \A s \in Subs : handler[s] # "replaying"
        /\ HistoryLimit \in Nat /\ HistoryLimit > 0 /\ Slack \in Nat /\ Slack > 0
    BY LenProperties, BrokerAssumption DEF Publish, TypeOK, LockInv
  <1> DEFINE g == Append(history, nextID + 1)
  <1>a. /\ g \in Seq(Nat) /\ Len(g) = Len(history) + 1
        /\ \A i \in 1 .. Len(history) : g[i] = history[i]
        /\ g[Len(history) + 1] = nextID + 1
    BY <1>0, AppendProperties
  <1>b. history' = Trim(g) BY DEF Publish
  <1> HIDE DEF g
  <1>c. \A i \in 1 .. Len(g) : g[i] = nextID + 1 - Len(g) + i
    <2> TAKE i \in 1 .. Len(g)
    <2>1. CASE i \in 1 .. Len(history)
      <3>1. g[i] = nextID - Len(history) + i BY <2>1, <1>a DEF HistoryInv
      <3> QED BY <3>1, <1>0, <1>a
    <2>2. CASE i = Len(history) + 1 BY <2>2, <1>0, <1>a
    <2> QED BY <2>1, <2>2, <1>0, <1>a
  <1>d. /\ history' \in Seq(Nat)
        /\ Len(history') = Shorter(Len(g)) /\ Len(history') \in Nat
        /\ \A i \in 1 .. Len(history') : history'[i] = g[Len(g) - Len(history') + i]
    BY <1>a, <1>b, TrimShape, LenProperties
  <1>e. /\ Len(history') <= HistoryLimit /\ Len(history') <= Len(g)
        /\ Len(history') = IF nextID' <= HistoryLimit THEN nextID' ELSE HistoryLimit
    <2>1. Len(history) = IF nextID <= HistoryLimit THEN nextID ELSE HistoryLimit
      BY DEF HistoryInv
    <2>2. /\ Len(history) \in Nat /\ nextID \in Nat /\ nextID' = nextID + 1
          /\ HistoryLimit \in Nat
      BY <1>0, BrokerAssumption
    <2>3. Len(g) = Len(history) + 1 BY <1>a
    <2>4. Len(history') = IF Len(g) > HistoryLimit THEN HistoryLimit ELSE Len(g)
      BY <1>d DEF Shorter
    <2> QED BY <2>1, <2>2, <2>3, <2>4, TrimmedLength
  <1>f. Dropped \subseteq subscribers BY DEF Dropped
  <1>g. Event(nextID + 1) \in Item BY <1>0 DEF Event, Item
  <1>h. \A s \in Subs :
          /\ chan'[s] = IF s \in Dropped THEN "closed" ELSE chan[s]
          /\ buf'[s] = IF s \in subscribers \ Dropped
                       THEN Append(buf[s], Event(nextID + 1)) ELSE buf[s]
    BY DEF Publish
  <1>i. \A s \in Subs : LET q == Append(buf[s], Event(nextID + 1)) IN
          /\ q \in Seq(Item) /\ Len(q) = Len(buf[s]) + 1 /\ q # <<>>
          /\ \A i \in 1 .. Len(buf[s]) : q[i] = buf[s][i]
          /\ q[Len(buf[s]) + 1] = Event(nextID + 1)
          /\ Len(buf[s]) \in Nat
    <2> TAKE s \in Subs
    <2> DEFINE e == Event(nextID + 1)
    <2>1. buf[s] \in Seq(Item) /\ e \in Item BY <1>g DEF TypeOK
    <2> HIDE DEF e
    <2>2. LET q == Append(buf[s], e) IN
          /\ q \in Seq(Item) /\ Len(q) = Len(buf[s]) + 1 /\ q # <<>>
          /\ \A i \in 1 .. Len(buf[s]) : q[i] = buf[s][i]
          /\ q[Len(buf[s]) + 1] = e
          /\ Len(buf[s]) \in Nat
      BY <2>1, AppendProperties, LenProperties
    <2> QED BY <2>2 DEF e
  <1>1. TypeOK'
    <2>1. panicked' \in BOOLEAN BY DEF Publish
    <2>2. /\ subscribers' \subseteq Subs
          /\ chan' \in [Subs -> {"none", "open", "closed"}]
      BY DEF Publish, TypeOK
    <2>3. buf' \in [Subs -> Seq(Item)]
      <3>1. \A s \in Subs : buf'[s] \in Seq(Item) BY <1>h, <1>i DEF TypeOK
      <3> QED BY <3>1 DEF Publish
    <2>4. \A s \in Subs : Len(buf'[s]) <= cap[s]
      <3> TAKE s \in Subs
      <3>1. CASE s \in subscribers \ Dropped
        <4>1. Len(buf[s]) < cap[s] BY <3>1, <1>i DEF Dropped, Full, TypeOK
        <4>2. Len(buf'[s]) = Len(buf[s]) + 1 BY <3>1, <1>h, <1>i
        <4>3. Len(buf[s]) \in Nat /\ cap[s] \in Nat BY <1>i DEF TypeOK
        <4> QED BY <4>1, <4>2, <4>3
      <3>2. CASE s \notin subscribers \ Dropped BY <3>2, <1>h DEF TypeOK
      <3> QED BY <3>1, <3>2
    <2> QED BY <2>1, <2>2, <2>3, <2>4, <1>0, <1>d, <1>e DEF Publish, TypeOK, cancelVars
  <1>2. HistoryInv'
    <2>1. \A i \in 1 .. Len(history') : history'[i] = nextID' - Len(history') + i
      <3> TAKE i \in 1 .. Len(history')
      <3>1. Len(g) - Len(history') + i \in 1 .. Len(g)
        <4>1. Len(g) \in Nat /\ Len(history') \in Nat /\ Len(history') <= Len(g)
          BY <1>0, <1>a, <1>d, <1>e
        <4> QED BY <4>1, LastPart
      <3>2. history'[i] = nextID + 1 - Len(g) + (Len(g) - Len(history') + i)
        BY <3>1, <1>c, <1>d
      <3> QED BY <3>2, <1>0, <1>a, <1>d
    <2> QED BY <2>1, <1>e DEF HistoryInv
  <1>3. LockInv' BY DEF Publish, LockInv
  <1>4. StreamInv'
    <2> SUFFICES ASSUME NEW s \in Subs
                 PROVE  /\ IdleInv(s)' /\ ReplayInv(s)' /\ LiveInv(s)'
                        /\ GapInv(s)' /\ OrphanInv(s)'
      BY DEF StreamInv
    <2>0. UNCHANGED <<mu, scan, cap, pos, born, handler>>
          /\ subscribers' = subscribers \ Dropped
      BY DEF Publish
    <2>1. ReplayInv(s)' BY <2>0, <1>0 DEF ReplayInv
    <2>2. IdleInv(s)'
      BY <2>0, <1>f, <1>h DEF IdleInv, StreamInv, LiveInv
    <2>3. OrphanInv(s)'
      BY <2>0, <1>h DEF OrphanInv, StreamInv
    <2>4. CASE s \in subscribers \ Dropped
      <3> DEFINE q == Append(buf[s], Event(nextID + 1))
      <3>1. /\ buf'[s] = q
            /\ q \in Seq(Item) /\ Len(q) = Len(buf[s]) + 1 /\ q # <<>>
            /\ \A i \in 1 .. Len(buf[s]) : q[i] = buf[s][i]
            /\ q[Len(buf[s]) + 1] = Event(nextID + 1)
            /\ Len(buf[s]) \in Nat
        BY <2>4, <1>h, <1>i
      <3> HIDE DEF q
      <3>2. LiveInv(s) /\ GapInv(s) /\ cap[s] \in Nat /\ born[s] \in Nat
        BY DEF StreamInv, TypeOK
      <3>3. Reached(s)' = nextID' BY <3>1, <1>0 DEF Reached, Event
      <3>4. Len(buf'[s]) <= cap[s] - Slack + 1 + (nextID' - born[s])
        <4>1. Len(buf[s]) <= cap[s] - Slack + 1 + (nextID - born[s])
          BY <2>4, <3>2 DEF LiveInv
        <4>2. Len(buf'[s]) = Len(buf[s]) + 1 BY <3>1
        <4>3. /\ Len(buf[s]) \in Int /\ cap[s] \in Int /\ born[s] \in Int
              /\ Slack \in Int /\ nextID \in Int /\ nextID' = nextID + 1
          BY <3>1, <3>2, <1>0
        <4> QED BY <4>1, <4>2, <4>3, OneMore
      <3>5. LiveInv(s)'
        <4>1. /\ chan'[s] = "open" /\ handler'[s] \notin {"idle", "replaying"}
              /\ born[s] <= nextID
          BY <2>0, <2>4, <3>2, <1>h DEF LiveInv
        <4>2. born[s] <= nextID' BY <4>1, <3>2, <1>0
        <4> QED BY <2>0, <3>3, <3>4, <4>1, <4>2 DEF LiveInv
      <3>6. GapInv(s)'
        <4> SUFFICES ASSUME NEW i \in 1 .. Len(q)
                     PROVE  /\ q[i].id <= nextID'
                            /\ q[i].reset => i = 1
                            /\ ~q[i].reset => q[i].id = Previous(s, i)' + 1
          BY <3>1 DEF GapInv
        <4>1. CASE i \in 1 .. Len(buf[s])
          <5>1. Previous(s, i)' = Previous(s, i)
            <6>1. CASE i = 1 BY <6>1, <2>0 DEF Previous
            <6>2. CASE i # 1
              <7>1. i - 1 \in 1 .. Len(buf[s]) BY <6>2, <4>1, <3>1
              <7>2. q[i - 1] = buf[s][i - 1] BY <7>1, <3>1
              <7> QED BY <6>2, <7>2, <3>1 DEF Previous
            <6> QED BY <6>1, <6>2
          <5>2. buf[s][i].id \in Nat BY <4>1, ItemId
          <5>3. q[i] = buf[s][i] BY <4>1, <3>1
          <5>4. /\ buf[s][i].id <= nextID
                /\ buf[s][i].reset => i = 1
                /\ ~buf[s][i].reset => buf[s][i].id = Previous(s, i) + 1
            BY <4>1, <3>2 DEF GapInv
          <5>5. buf[s][i].id <= nextID' BY <5>2, <5>4, <1>0
          <5> QED BY <5>1, <5>3, <5>4, <5>5
        <4>2. CASE i = Len(buf[s]) + 1
          <5>1. Previous(s, i)' = Reached(s)
            BY <4>2, <2>0, <3>1 DEF Previous, Reached
          <5>2. Reached(s) = nextID BY <2>4, <3>2 DEF LiveInv
          <5> QED BY <4>2, <5>1, <5>2, <3>1, <1>0 DEF Event
        <4> QED BY <4>1, <4>2, <3>1
      <3> QED BY <2>1, <2>2, <2>3, <3>5, <3>6
    <2>5. CASE s \notin subscribers \ Dropped
      <3>1. buf'[s] = buf[s] BY <2>5, <1>h
      <3>2. LiveInv(s)' BY <2>0, <2>5 DEF LiveInv
      <3>3. GapInv(s)'
        <4>1. \A i \in 1 .. Len(buf[s]) : buf[s][i].id \in Nat BY ItemId
        <4> QED BY <2>0, <3>1, <4>1, <1>0 DEF GapInv, StreamInv, Previous
      <3> QED BY <2>1, <2>2, <2>3, <3>2, <3>3
    <2> QED BY <2>4, <2>5
  <1>5. NoPanic'
    <2>1. ~TouchesClosed(subscribers)
      BY DEF TouchesClosed, StreamInv, LiveInv, TypeOK
    <2> QED BY <2>1 DEF Publish, NoPanic
  <1> QED BY <1>1, <1>2, <1>3, <1>4, <1>5

(***************************************************************************)
(* The inductive invariant, and what follows from it.                      *)
(***************************************************************************)

LEMMA NextIInv == IInv /\ [Next]_vars => IInv'
  <1> SUFFICES ASSUME IInv, [Next]_vars PROVE IInv' OBVIOUS
  <1>1. CASE Publish BY <1>1, PublishIInv
  <1>2. CASE Close BY <1>2, CloseIInv
  <1>3. ASSUME NEW s \in Subs, NEW c \in Cursors, SubscribeLock(s, c)
        PROVE  IInv'
    BY <1>3, SubscribeLockIInv
  <1>4. ASSUME NEW s \in Subs, SubscribeClosed(s) PROVE IInv'
    BY <1>4, SubscribeClosedIInv
  <1>5. ASSUME NEW s \in Subs, Watcher(s) PROVE IInv'
    BY <1>5, SignalIInv, UnsubscribeIInv DEF Watcher
  <1>6. ASSUME NEW s \in Subs, Handler(s) PROVE IInv'
    BY <1>6, ReplayIInv, RegisterIInv, ReceiveIInv, QuietIInv, SignalIInv,
       UnsubscribeIInv DEF Handler
  <1>7. ASSUME NEW s \in Subs, Heartbeat(s) \/ Written(s) \/ WriteFails(s)
        PROVE  IInv'
    BY <1>7, QuietIInv
  <1>8. ASSUME NEW s \in Subs, Disconnect(s) PROVE IInv'
    BY <1>8, SignalIInv
  <1>9. CASE UNCHANGED vars
    <2>1. TypeOK' BY <1>9 DEF IInv, TypeOK, vars
    <2>2. UNCHANGED <<brokerVars, scan, chanVars, pos, born, panicked>>
      BY <1>9 DEF vars, brokerVars, chanVars
    <2>3. \A s \in Subs : handler'[s] = handler[s] BY <1>9 DEF vars
    <2> QED BY <2>1, <2>2, <2>3, FrameIInv
  <1> QED
    BY <1>1, <1>2, <1>3, <1>4, <1>5, <1>6, <1>7, <1>8, <1>9 DEF Next

(* IInv holds throughout every behaviour.                                  *)
THEOREM InvariantHolds == Spec => []IInv
  BY InitIInv, NextIInv, PTL DEF Spec

(* Every variable keeps its type, b.history stays within HistoryLimit and  *)
(* every channel within its capacity.                                      *)
THEOREM TypeCorrect == Spec => []TypeOK
  <1>1. IInv => TypeOK BY DEF IInv
  <1> QED BY <1>1, InvariantHolds, PTL

(* publish, cancel and close never touch a closed channel.                 *)
THEOREM NeverPanics == Spec => []NoPanic
  <1>1. IInv => NoPanic BY DEF IInv
  <1> QED BY <1>1, InvariantHolds, PTL

(* The replay loop of subscribe always has room, whatever HistoryLimit and *)
(* Slack are (256 and 33 in the code).                                     *)
THEOREM ReplayHasRoom == Spec => []ReplayNeverBlocks
  <1>1. IInv => ReplayNeverBlocks
    <2> SUFFICES ASSUME IInv, NEW s \in Subs,
                        handler[s] = "replaying", ~ReplayOver(s)
                 PROVE  ~Full(s)
      BY DEF ReplayNeverBlocks
    <2>1. /\ scan[s] \in Nat /\ Len(history) \in Nat /\ Len(buf[s]) \in Nat
          /\ Slack \in Nat
      BY LenProperties, BrokerAssumption DEF IInv, TypeOK
    <2>2. Len(buf[s]) < scan[s] /\ cap[s] = Len(history) + Slack
      BY <2>1 DEF IInv, StreamInv, ReplayInv, ReplayOver
    <2> QED BY <2>1, <2>2 DEF ReplayOver, Full
  <1> QED BY <1>1, InvariantHolds, PTL

(* No client ever misses or repeats an event without a stream reset.       *)
THEOREM GapFree == Spec => []NoSilentGap
  <1>1. IInv => NoSilentGap BY DEF IInv, StreamInv, GapInv, NoSilentGap
  <1> QED BY <1>1, InvariantHolds, PTL

(* Every registered subscription has the newest event.                     *)
THEOREM Complete == Spec => []UpToDate
  <1>1. IInv => UpToDate BY DEF IInv, TypeOK, StreamInv, LiveInv, UpToDate
  <1> QED BY <1>1, InvariantHolds, PTL

(* No open stream is without a feeder.                                     *)
THEOREM StreamsAreFed == Spec => []NoOrphanStream
  <1>1. IInv => NoOrphanStream BY DEF IInv, StreamInv, OrphanInv, NoOrphanStream
  <1> QED BY <1>1, InvariantHolds, PTL

(* After close no stream is open, whoever subscribes however late.         *)
THEOREM StreamsEnd == Spec => []ClosedBrokerHasNoStreams
  <1>1. IInv => ClosedBrokerHasNoStreams
    BY BrokerAssumption
    DEF IInv, StreamInv, OrphanInv, LockInv, ClosedBrokerHasNoStreams
  <1> QED BY <1>1, InvariantHolds, PTL

(* A stream reset is sent exactly when the cursor cannot be replayed.      *)
THEOREM ResetIffLossy == Spec => []ResetExactlyWhenLossy
  <1>1. IInv => ResetExactlyWhenLossy
    <2> SUFFICES ASSUME IInv, NEW c \in Cursors
                 PROVE  Unreplayable(c) <=>
                          \/ ~NamesAPoint(c)
                          \/ \E id \in (After(c) + 1) .. nextID : id \notin Kept
      BY DEF ResetExactlyWhenLossy
    <2> DEFINE low == nextID - Len(history)
    <2>0. /\ After(c) \in 0 .. nextID /\ nextID \in Nat /\ Len(history) \in Nat
          /\ low \in Nat /\ (Len(history) = 0 => nextID = 0)
      BY AfterBound, LenProperties, BrokerAssumption DEF IInv, TypeOK, HistoryInv
    <2>1. Rejected(c) <=> ~NamesAPoint(c) BY DEF Rejected, NamesAPoint
    <2>2. Kept = (low + 1) .. nextID
      <3>1. \A i \in 1 .. Len(history) : history[i] = low + i
        BY DEF IInv, HistoryInv
      <3> HIDE DEF low
      <3>2. nextID = low + Len(history) BY <2>0 DEF low
      <3>3. \A x \in Kept : x \in (low + 1) .. nextID
        BY <2>0, <3>1, <3>2 DEF Kept
      <3>4. ASSUME NEW x \in (low + 1) .. nextID PROVE x \in Kept
        <4>1. x - low \in 1 .. Len(history) /\ low + (x - low) = x
          BY <2>0, <3>2
        <4>2. history[x - low] = x BY <4>1, <3>1
        <4> QED BY <4>1, <4>2 DEF Kept
      <3> QED BY <3>3, <3>4
    <2>3. Evicted(After(c)) <=> After(c) < low
      <3>1. CASE Len(history) = 0 BY <3>1, <2>0 DEF Evicted
      <3>2. CASE Len(history) > 0
        <4>1. history[1] = low + 1 BY <3>2, <2>0 DEF IInv, HistoryInv
        <4> QED BY <3>2, <4>1, <2>0 DEF Evicted
      <3> QED BY <3>1, <3>2, <2>0
    <2> HIDE DEF low
    <2>4. After(c) < low <=>
            \E id \in (After(c) + 1) .. nextID : id \notin (low + 1) .. nextID
      <3>0. low <= nextID BY <2>0 DEF low
      <3>1. ASSUME After(c) < low
            PROVE  \E id \in (After(c) + 1) .. nextID : id \notin (low + 1) .. nextID
        <4>1. After(c) + 1 \in (After(c) + 1) .. nextID BY <3>0, <3>1, <2>0
        <4>2. After(c) + 1 \notin (low + 1) .. nextID BY <3>1, <2>0
        <4> QED BY <4>1, <4>2
      <3>2. ASSUME NEW id \in (After(c) + 1) .. nextID, id \notin (low + 1) .. nextID
            PROVE  After(c) < low
        BY <3>2, <2>0
      <3> QED BY <3>1, <3>2
    <2> QED BY <2>1, <2>2, <2>3, <2>4 DEF Unreplayable
  <1> QED BY <1>1, InvariantHolds, PTL

(* A subscriber is dropped only after Slack events it did not read.        *)
THEOREM SlackKept == Spec => SlackHonoured
  <1>1. IInv /\ [Next]_vars =>
          [\A s \in subscribers : (nextID' > nextID /\ s \notin subscribers')
                                    => nextID' - born[s] >= Slack]_vars
    <2> SUFFICES ASSUME IInv, [Next]_vars, NEW s \in subscribers,
                        nextID' > nextID, s \notin subscribers'
                 PROVE  nextID' - born[s] >= Slack
      OBVIOUS
    <2>1. /\ s \in Subs /\ nextID \in Nat /\ cap[s] \in Nat /\ born[s] \in Nat
          /\ Len(buf[s]) \in Nat /\ Slack \in Nat
      BY LenProperties, BrokerAssumption DEF IInv, TypeOK
    <2>2. Publish
      <3>1. ~(nextID' = nextID) BY <2>1
      <3> QED
        BY <3>1 DEF Next, Close, SubscribeLock, SubscribeClosed, Watcher, Handler,
          WatcherCancels, WatcherLate, WatcherUnsubscribes, WatcherReleased,
          CloseDone, Unsubscribe, Replay, Register, Receive, StreamClosed,
          ContextDone, HandlerCancels, HandlerUnsubscribes, HandlerReturns,
          Heartbeat, Written, WriteFails, Disconnect, Quiet, brokerVars, vars
    <2>3. Len(buf[s]) >= cap[s] /\ nextID' = nextID + 1
      BY <2>2 DEF Publish, Dropped, Full
    <2>4. Len(buf[s]) <= cap[s] - Slack + 1 + (nextID - born[s])
      BY <2>1 DEF IInv, StreamInv, LiveInv
    <2> QED BY <2>1, <2>3, <2>4, SlackUsed
  <1> QED BY <1>1, InvariantHolds, PTL DEF Spec, SlackHonoured

-----------------------------------------------------------------------------
(***************************************************************************)
(* EventBroker implements LifecycleFeed.                                   *)
(***************************************************************************)

(* A step that changes, of the three functions of the refinement mapping,  *)
(* none is a stuttering step of the feed.                                  *)
LEMMA FeedStutters ==
    ASSUME nextID' = nextID,
           \A s \in Subs : /\ FeedState(s)' = FeedState(s)
                           /\ FeedAt(s)' = FeedAt(s)
                           /\ FeedResync(s)' = FeedResync(s)
    PROVE  UNCHANGED Feed!feedVars
  BY DEF Feed!feedVars

LEMMA FeedInit == Init => Feed!Init
  <1> SUFFICES ASSUME Init PROVE Feed!Init OBVIOUS
  <1>1. \A s \in Subs : FeedResync(s) = FALSE BY DEF Init, FeedResync
  <1>2. \A s \in Subs : FeedState(s) = "unopened" /\ FeedAt(s) = 0
    BY <1>1 DEF Init, FeedState, FeedAt
  <1>3. nextID = 0 BY DEF Init
  <1> QED BY <1>1, <1>2, <1>3 DEF Feed!Init

(* A step in which at most the handler of one stream that is being served  *)
(* leaves its loop ends that stream; every other quiet step stutters.      *)
LEMMA FeedQuiet ==
    ASSUME TypeOK, NEW s \in Subs,
           UNCHANGED <<nextID, buf, pos>>,
           \E h \in {"streaming", "writing", "returning", "cancelling", "gone"} :
               \/ UNCHANGED handler
               \/ /\ handler[s] # "idle"
                  /\ handler' = [handler EXCEPT ![s] = h]
                  /\ FeedState(s) = "ended" => FeedState(s)' = "ended"
    PROVE  [Feed!Next]_(Feed!feedVars)
  <1>1. \A t \in Subs : FeedAt(t)' = FeedAt(t) /\ FeedResync(t)' = FeedResync(t)
    BY DEF FeedAt, FeedResync
  <1>2. \A t \in Subs : t # s => FeedState(t)' = FeedState(t)
    BY DEF FeedState, TypeOK
  <1>3. CASE FeedState(s)' = FeedState(s)
    BY <1>1, <1>2, <1>3, FeedStutters
  <1>4. CASE FeedState(s)' # FeedState(s)
    <2>1. FeedState(s) = "live" /\ FeedState(s)' = "ended"
      BY <1>4 DEF FeedState, TypeOK
    <2>2. Feed!End(s) BY <1>1, <1>2, <2>1 DEF Feed!End
    <2> QED BY <2>2 DEF Feed!Next
  <1> QED BY <1>3, <1>4

(* Appending an event to a queue does not change what comes next for the   *)
(* client: a pending reset stays first and an event is not a reset.        *)
LEMMA FeedAppend ==
    ASSUME TypeOK, NEW s \in Subs, NEW id \in Nat,
           pos'[s] = pos[s], buf'[s] = Append(buf[s], Event(id))
    PROVE  FeedAt(s)' = FeedAt(s) /\ FeedResync(s)' = FeedResync(s)
  <1> DEFINE e == Event(id)
  <1>1. buf[s] \in Seq(Item) /\ e \in Item /\ e.reset = FALSE
    BY DEF TypeOK, Event, Item
  <1> HIDE DEF e
  <1> DEFINE q == Append(buf[s], e)
  <1>2. q \in Seq(Item) /\ q # <<>> /\ Len(buf[s]) \in Nat
        /\ \A i \in 1 .. Len(buf[s]) : q[i] = buf[s][i]
        /\ q[Len(buf[s]) + 1] = e
    BY <1>1, AppendProperties, LenProperties
  <1>3. Head(q) = q[1] BY <1>2
  <1>4. buf'[s] = q BY DEF e
  <1> HIDE DEF q
  <1>5. CASE buf[s] = <<>>
    <2>0. q = <<e>> BY <1>5 DEF q
    <2>1. Head(q) = e BY <2>0
    <2>2. FeedResync(s)' = FALSE /\ FeedResync(s) = FALSE
      BY <2>1, <1>1, <1>4, <1>5 DEF FeedResync
    <2> QED BY <2>2 DEF FeedAt
  <1>6. CASE buf[s] # <<>>
    <2>1. Len(buf[s]) >= 1 /\ Head(buf[s]) = buf[s][1] BY <1>1, <1>2, <1>6, EmptySeq
    <2>2. Head(q) = Head(buf[s]) BY <2>1, <1>2, <1>3
    <2> QED BY <2>2, <1>2, <1>4, <1>6 DEF FeedResync, FeedAt
  <1> QED BY <1>5, <1>6

LEMMA FeedPublish ==
    ASSUME IInv, Publish
    PROVE  Feed!Happen
  <1>1. /\ nextID' = nextID + 1 /\ nextID \in Nat
        /\ UNCHANGED <<pos, handler>>
        /\ \A s \in Subs : \/ buf'[s] = buf[s]
                           \/ buf'[s] = Append(buf[s], Event(nextID + 1))
    BY DEF Publish, IInv, TypeOK
  <1>2. \A s \in Subs : FeedState(s)' = FeedState(s) BY <1>1 DEF FeedState
  <1>3. ASSUME NEW s \in Subs
        PROVE  FeedAt(s)' = FeedAt(s) /\ FeedResync(s)' = FeedResync(s)
    <2>1. CASE buf'[s] = buf[s] BY <2>1, <1>1 DEF FeedAt, FeedResync
    <2>2. CASE buf'[s] = Append(buf[s], Event(nextID + 1))
      BY <2>2, <1>1, FeedAppend DEF IInv
    <2> QED BY <2>1, <2>2, <1>1
  <1> QED BY <1>1, <1>2, <1>3 DEF Feed!Happen

LEMMA FeedReplay ==
    ASSUME IInv, NEW s \in Subs, Replay(s)
    PROVE  UNCHANGED Feed!feedVars
  <1>0. /\ scan[s] \in 1 .. Len(history) /\ history \in Seq(Nat)
    <2>1. scan[s] \in Nat /\ Len(history) \in Nat /\ history \in Seq(Nat)
      BY LenProperties DEF IInv, TypeOK
    <2> QED BY <2>1 DEF Replay, ReplayOver, IInv, StreamInv, ReplayInv
  <1>1. history[scan[s]] \in Nat BY <1>0, ElementOfSeq
  <1>2. /\ UNCHANGED <<nextID, pos, handler>>
        /\ \A t \in Subs : \/ buf'[t] = buf[t]
                           \/ t = s /\ buf'[t] = Append(buf[t], Event(history[scan[s]]))
    BY DEF Replay, brokerVars, IInv, TypeOK
  <1>3. ASSUME NEW t \in Subs
        PROVE  /\ FeedState(t)' = FeedState(t)
               /\ FeedAt(t)' = FeedAt(t) /\ FeedResync(t)' = FeedResync(t)
    <2>1. FeedState(t)' = FeedState(t) BY <1>2 DEF FeedState
    <2>2. CASE buf'[t] = buf[t] BY <2>1, <2>2, <1>2 DEF FeedAt, FeedResync
    <2>3. CASE buf'[t] = Append(buf[t], Event(history[scan[s]]))
      BY <2>1, <2>3, <1>1, <1>2, FeedAppend DEF IInv
    <2> QED BY <2>2, <2>3, <1>2
  <1> QED BY <1>2, <1>3, FeedStutters

LEMMA FeedSubscribe ==
    ASSUME IInv, NEW s \in Subs, NEW c \in Cursors, SubscribeLock(s, c)
    PROVE  Feed!Resume(s) \/ Feed!Restart(s)
  <1>0. /\ handler[s] = "idle" /\ buf[s] = <<>> /\ nextID' = nextID
        /\ After(c) \in 0 .. nextID
    BY AfterBound DEF SubscribeLock, IInv, StreamInv, IdleInv
  <1>1. ASSUME NEW t \in Subs, t # s
        PROVE  /\ FeedState(t)' = FeedState(t)
               /\ FeedAt(t)' = FeedAt(t) /\ FeedResync(t)' = FeedResync(t)
    <2>1. handler'[t] = handler[t] /\ buf'[t] = buf[t] /\ pos'[t] = pos[t]
      BY <1>1 DEF SubscribeLock, IInv, TypeOK
    <2> QED BY <2>1 DEF FeedState, FeedAt, FeedResync
  <1>2. FeedState(s) = "unopened" /\ FeedState(s)' = "live" /\ FeedResync(s) = FALSE
    BY <1>0 DEF FeedState, FeedResync, SubscribeLock, IInv, TypeOK
  <1>3. CASE Unreplayable(c)
    <2>1. buf'[s] = <<StreamReset(nextID)>>
      BY <1>3 DEF SubscribeLock, IInv, TypeOK
    <2>2. /\ buf'[s] # <<>> /\ Head(buf'[s]) = StreamReset(nextID) BY <2>1
    <2>3. FeedResync(s)' = TRUE BY <2>2 DEF FeedResync, StreamReset
    <2>4. FeedAt(s)' = nextID BY <2>2, <2>3 DEF FeedAt, StreamReset
    <2> QED BY <1>0, <1>1, <1>2, <2>3, <2>4 DEF Feed!Restart
  <1>4. CASE ~Unreplayable(c)
    <2>1. buf'[s] = <<>> /\ pos'[s] = After(c)
      BY <1>0, <1>4 DEF SubscribeLock, IInv, TypeOK
    <2>2. FeedResync(s)' = FALSE BY <2>1 DEF FeedResync
    <2>3. FeedAt(s)' = After(c) BY <2>1, <2>2 DEF FeedAt
    <2> QED BY <1>0, <1>1, <1>2, <2>2, <2>3 DEF Feed!Resume
  <1> QED BY <1>3, <1>4

LEMMA FeedSubscribeClosed ==
    ASSUME IInv, NEW s \in Subs, SubscribeClosed(s)
    PROVE  Feed!Resume(s)
  <1>0. /\ handler[s] = "idle" /\ buf[s] = <<>> /\ UNCHANGED <<nextID, buf, pos>>
        /\ pos[s] = 0 /\ nextID \in Nat
    BY DEF SubscribeClosed, brokerVars, IInv, TypeOK, StreamInv, IdleInv
  <1>1. \A t \in Subs : FeedAt(t)' = FeedAt(t) /\ FeedResync(t)' = FeedResync(t)
    BY <1>0 DEF FeedAt, FeedResync
  <1>2. FeedAt(s) = 0 BY <1>0 DEF FeedAt, FeedResync
  <1>3. \A t \in Subs : FeedState(t)' = IF t = s THEN "live" ELSE FeedState(t)
    BY DEF FeedState, SubscribeClosed, IInv, TypeOK
  <1>4. FeedState(s) = "unopened" BY <1>0 DEF FeedState
  <1>5. 0 \in 0 .. nextID BY <1>0
  <1> QED BY <1>0, <1>1, <1>2, <1>3, <1>4, <1>5 DEF Feed!Resume

LEMMA FeedReceive ==
    ASSUME IInv, NEW s \in Subs, Receive(s)
    PROVE  Feed!Deliver(s) \/ Feed!DeliverReset(s)
  <1>0. /\ buf[s] \in Seq(Item) /\ buf[s] # <<>> /\ Len(buf[s]) \in Nat
        /\ handler[s] = "streaming" /\ handler' = [handler EXCEPT ![s] = "writing"]
        /\ UNCHANGED nextID /\ nextID \in Nat /\ pos[s] \in Nat
    BY LenProperties DEF Receive, HandlerMoves, brokerVars, IInv, TypeOK
  <1>1. /\ Len(buf[s]) >= 1 /\ Head(buf[s]) = buf[s][1] /\ Tail(buf[s]) \in Seq(Item)
        /\ Len(Tail(buf[s])) = Len(buf[s]) - 1
        /\ \A i \in 1 .. Len(Tail(buf[s])) : Tail(buf[s])[i] = buf[s][i + 1]
    BY <1>0, EmptySeq, HeadTailProperties
  <1>2. /\ buf'[s] = Tail(buf[s]) /\ pos'[s] = buf[s][1].id
        /\ \A t \in Subs : t # s => buf'[t] = buf[t] /\ pos'[t] = pos[t]
    BY <1>1 DEF Receive, IInv, TypeOK
  <1>3. ASSUME NEW t \in Subs, t # s
        PROVE  FeedAt(t)' = FeedAt(t) /\ FeedResync(t)' = FeedResync(t)
    BY <1>2, <1>3 DEF FeedAt, FeedResync
  <1>4. \A t \in Subs : FeedState(t)' = FeedState(t) BY <1>0 DEF FeedState, IInv, TypeOK
  <1>5. FeedState(s) = "live" BY <1>0 DEF FeedState
  <1>6. FeedResync(s)' = FALSE
    <2>1. CASE Tail(buf[s]) = <<>> BY <2>1, <1>2 DEF FeedResync
    <2>2. CASE Tail(buf[s]) # <<>>
      <3>1. Len(buf[s]) >= 2 /\ Head(Tail(buf[s])) = Tail(buf[s])[1]
        BY <2>2, <1>0, <1>1, EmptySeq
      <3>2. 2 \in 1 .. Len(buf[s]) /\ 1 \in 1 .. Len(Tail(buf[s])) BY <3>1, <1>0, <1>1
      <3>3. Head(Tail(buf[s])) = buf[s][2] BY <3>1, <3>2, <1>1
      <3>4. ~buf[s][2].reset BY <3>2 DEF IInv, StreamInv, GapInv
      <3> QED BY <3>3, <3>4, <1>2 DEF FeedResync
    <2> QED BY <2>1, <2>2
  <1>7. FeedAt(s)' = buf[s][1].id BY <1>2, <1>6 DEF FeedAt
  <1>8. CASE buf[s][1].reset
    <2>1. FeedResync(s) = TRUE BY <1>0, <1>1, <1>8 DEF FeedResync
    <2>2. FeedAt(s) = buf[s][1].id BY <2>1, <1>1 DEF FeedAt
    <2> QED
      BY <1>0, <1>3, <1>4, <1>5, <1>6, <1>7, <2>1, <2>2 DEF Feed!DeliverReset
  <1>9. CASE ~buf[s][1].reset
    <2>1. FeedResync(s) = FALSE BY <1>0, <1>1, <1>9 DEF FeedResync
    <2>2. FeedAt(s) = pos[s] BY <2>1 DEF FeedAt
    <2>3. buf[s][1].id = pos[s] + 1 /\ buf[s][1].id <= nextID
      <3>1. 1 \in 1 .. Len(buf[s]) BY <1>0, <1>1
      <3> QED BY <3>1, <1>9 DEF IInv, StreamInv, GapInv, Previous
    <2>4. pos[s] < nextID BY <2>3, <1>0
    <2> QED
      BY <1>0, <1>3, <1>4, <1>5, <1>6, <1>7, <2>1, <2>2, <2>3, <2>4 DEF Feed!Deliver
  <1> QED BY <1>8, <1>9

(* Every step of the broker, of a handler or of a watcher is a step of the *)
(* feed or leaves it unchanged.                                            *)
LEMMA FeedStep == IInv /\ [Next]_vars => [Feed!Next]_(Feed!feedVars)
  <1> SUFFICES ASSUME IInv, [Next]_vars
               PROVE  [Feed!Next]_(Feed!feedVars)
    OBVIOUS
  <1>0. TypeOK BY DEF IInv
  <1>1. CASE Publish BY <1>1, FeedPublish DEF Feed!Next
  <1>2. CASE Close
    BY <1>2, FeedStutters DEF Close, FeedState, FeedAt, FeedResync
  <1>3. ASSUME NEW s \in Subs, NEW c \in Cursors, SubscribeLock(s, c)
        PROVE  Feed!Next
    BY <1>3, FeedSubscribe DEF Feed!Next
  <1>4. ASSUME NEW s \in Subs, SubscribeClosed(s) PROVE Feed!Next
    BY <1>4, FeedSubscribeClosed DEF Feed!Next
  <1>5. ASSUME NEW s \in Subs, Replay(s) PROVE UNCHANGED Feed!feedVars
    BY <1>5, FeedReplay
  <1>6. ASSUME NEW s \in Subs, Receive(s) PROVE Feed!Next
    BY <1>6, FeedReceive DEF Feed!Next
  <1>7. ASSUME NEW s \in Subs,
               WatcherCancels(s) \/ WatcherLate(s) \/ WatcherUnsubscribes(s)
                 \/ WatcherReleased(s) \/ Disconnect(s)
        PROVE  [Feed!Next]_(Feed!feedVars)
    <2>1. UNCHANGED <<nextID, buf, pos, handler>>
      BY <1>7 DEF WatcherCancels, WatcherLate, WatcherUnsubscribes, WatcherReleased,
                  Disconnect, CloseDone, Unsubscribe, brokerVars, chanVars
    <2> QED BY <2>1, <1>0, FeedQuiet
  <1>8. ASSUME NEW s \in Subs,
               \/ Register(s) \/ StreamClosed(s) \/ ContextDone(s)
               \/ Heartbeat(s) \/ Written(s) \/ WriteFails(s)
               \/ HandlerCancels(s) \/ HandlerUnsubscribes(s) \/ HandlerReturns(s)
        PROVE  [Feed!Next]_(Feed!feedVars)
    <2>1. UNCHANGED <<nextID, buf, pos>>
      BY <1>8 DEF Register, StreamClosed, ContextDone, Heartbeat, Written, WriteFails,
                  HandlerCancels, HandlerUnsubscribes, HandlerReturns, Quiet,
                  CloseDone, Unsubscribe, brokerVars, chanVars
    <2>2. PICK from \in {"replaying", "streaming", "writing", "returning", "cancelling"},
               to \in {"streaming", "writing", "returning", "cancelling", "gone"} :
               /\ handler[s] = from /\ handler' = [handler EXCEPT ![s] = to]
               /\ from \in {"returning", "cancelling"} => to \in {"cancelling", "gone"}
      BY <1>8 DEF Register, StreamClosed, ContextDone, Heartbeat, Written, WriteFails,
                  HandlerCancels, HandlerUnsubscribes, HandlerReturns, HandlerMoves
    <2>3. handler[s] # "idle" /\ (FeedState(s) = "ended" => FeedState(s)' = "ended")
      BY <2>2, <1>0 DEF FeedState, TypeOK
    <2> QED BY <2>1, <2>2, <2>3, <1>0, FeedQuiet
  <1>9. CASE UNCHANGED vars
    BY <1>9, FeedStutters DEF vars, FeedState, FeedAt, FeedResync
  <1>10. CASE \E s \in Subs : Watcher(s) \/ Disconnect(s)
    BY <1>10, <1>7 DEF Watcher
  <1>11. CASE \E s \in Subs : \/ Handler(s) \/ Heartbeat(s) \/ Written(s)
                              \/ WriteFails(s)
    BY <1>11, <1>5, <1>6, <1>8 DEF Handler
  <1> QED
    BY <1>1, <1>2, <1>3, <1>4, <1>9, <1>10, <1>11 DEF Next

(* The broker, its handlers and its watchers implement LifecycleFeed: for  *)
(* any number of streams, any history limit and any slack, a client sees   *)
(* every event after its cursor, or after a first reset, once and in order *)
(* until its stream ends.                                                  *)
THEOREM RefinesFeed == Spec => ImplementsFeed
  BY FeedInit, FeedStep, InvariantHolds, PTL DEF Spec, ImplementsFeed, Feed!Spec
=============================================================================
