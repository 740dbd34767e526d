------------------------- MODULE EventStreamProofs -------------------------
(***************************************************************************)
(* What a client that reconnects, to this process or to a later one, is    *)
(* given, for any number of subscriptions, events and restarts.            *)
(***************************************************************************)
EXTENDS EventStream, EventBrokerProofs

ClientTypes ==
    /\ conn \in Subs \cup {Offline}
    /\ used \subseteq Generations /\ generation \in used
    /\ nextID <= MaxEvents
    /\ lastID = EmptyCursor \/ lastID \in [generation : used, sequence : 0 .. MaxEvents]
    /\ lastID # EmptyCursor /\ lastID.generation = generation => lastID.sequence <= nextID
    /\ net \in Seq(Item)
    /\ owed \subseteq [generation : used, id : Nat]
    /\ \A e \in owed : e.generation = generation => e.id <= nextID
    /\ conn = Offline => net = <<>>

(* The client's cursor is of an earlier process.                           *)
Behind == lastID # EmptyCursor /\ lastID.generation # generation

(* Something may still reach the client over the subscription s.           *)
Linked(s) == s \in subscribers \/ handler[s] = "replaying" \/ buf[s] # <<>> \/ net # <<>>

(* The handler's position continues what the client has, through what is   *)
(* under way; a client that is behind has a stream reset coming first.     *)
Continues(s) ==
    /\ Linked(s) /\ net = <<>> => pos[s] = After(lastID)
    /\ net # <<>> => net[Len(net)].id = pos[s]
    /\ Linked(s) /\ Behind => IF net = <<>> THEN FeedResync(s) ELSE net[1].reset

(* The messages under way follow one another.                              *)
Before(i) == IF i = 1 THEN After(lastID) ELSE net[i - 1].id
NetInv ==
    \A i \in 1 .. Len(net) :
        /\ net[i].id <= nextID
        /\ ~net[i].reset => net[i].id = Before(i) + 1

(* A client is owed only what follows its cursor.                          *)
OwedInv == ~Behind => \A e \in owed : e.generation = generation /\ e.id > After(lastID)

ClientInv ==
    /\ ClientTypes /\ NetInv /\ OwedInv
    /\ \A s \in Subs : conn = s => Continues(s)

-----------------------------------------------------------------------------

(* What the client's cursor is taken for when it connects.                 *)
LEMMA CursorTaken ==
    ASSUME TypeOK, ClientTypes
    PROVE  /\ lastID \in Cursors
           /\ After(lastID) = IF lastID = EmptyCursor \/ Behind THEN 0 ELSE lastID.sequence
           /\ After(lastID) \in 0 .. nextID
           /\ Behind => Rejected(lastID)
<1>1. CASE lastID = EmptyCursor BY <1>1 DEF TypeOK, After, Cursors, Behind
<1>2. CASE lastID # EmptyCursor
  <2>1. /\ lastID \in [generation : used, sequence : 0 .. MaxEvents]
        /\ lastID.generation \in Generations /\ lastID.sequence \in 0 .. MaxEvents
    BY <1>2 DEF ClientTypes
  <2>2. lastID \in Cursors BY <2>1, BrokerAssumption DEF Cursors, ClientTypes
  <2>3. Rejected(lastID) <=> Behind
    BY <1>2, <2>1, BrokerAssumption DEF Rejected, Behind, ClientTypes, TypeOK
  <2>4. ~Behind => lastID.sequence \in 0 .. nextID
    BY <1>2, <2>1, BrokerAssumption DEF Behind, ClientTypes, TypeOK
  <2> QED BY <1>2, <2>2, <2>3, <2>4 DEF After, TypeOK
<1> QED BY <1>1, <1>2

(* Steps that leave alone what the client has and what is under way.       *)
LEMMA ClientFrame ==
    ASSUME ClientInv, UNCHANGED <<clientVars, generation, nextID, buf, pos>>,
           \A s \in Subs : s \in subscribers' \/ handler'[s] = "replaying"
                             => s \in subscribers \/ handler[s] = "replaying"
    PROVE  ClientInv'
<1> USE DEF clientVars
<1>1. After(lastID)' = After(lastID) /\ Behind' = Behind
  BY DEF After, Rejected, Behind
<1>2. ClientTypes' BY DEF ClientInv, ClientTypes
<1>3. NetInv' BY <1>1 DEF ClientInv, NetInv, Before
<1>4. OwedInv' BY <1>1 DEF ClientInv, OwedInv
<1>5. ASSUME NEW s \in Subs, conn' = s PROVE Continues(s)'
  <2>1. Continues(s) /\ (Linked(s)' => Linked(s)) BY <1>5 DEF ClientInv, Linked
  <2>2. FeedResync(s)' = FeedResync(s) BY DEF FeedResync
  <2> QED BY <1>1, <2>1, <2>2 DEF Continues
<1> QED BY <1>2, <1>3, <1>4, <1>5 DEF ClientInv

LEMMA ServerKeeps ==
    ASSUME IInv, ClientInv, ServerSteps PROVE ClientInv'
<1>1. UNCHANGED clientVars BY DEF ServerSteps
<1>2. CASE Close
  BY <1>1, <1>2, ClientFrame DEF Close
<1>3. ASSUME NEW s \in Subs, Watcher(s) PROVE ClientInv'
  <2>1. UNCHANGED <<generation, nextID, buf, pos, handler>> /\ subscribers' \subseteq subscribers
    BY <1>3 DEF Watcher, WatcherCancels, WatcherLate, WatcherUnsubscribes, WatcherReleased,
       CloseDone, Unsubscribe, brokerVars, chanVars
  <2> QED BY <1>1, <2>1, ClientFrame
<1>4. ASSUME NEW s \in Subs, Register(s) PROVE ClientInv'
  <2>1. UNCHANGED <<generation, nextID, buf, pos>> /\ handler[s] = "replaying"
    BY <1>4 DEF Register, chanVars
  <2>2. \A t \in Subs : t \in subscribers' \/ handler'[t] = "replaying"
                          => t \in subscribers \/ handler[t] = "replaying"
    BY <1>4 DEF Register, IInv, TypeOK
  <2> QED BY <1>1, <2>1, <2>2, ClientFrame
<1>5. ASSUME NEW s \in Subs,
             \/ StreamClosed(s) \/ ContextDone(s) \/ HandlerCancels(s) \/ HandlerUnsubscribes(s)
             \/ HandlerReturns(s) \/ Heartbeat(s) \/ Written(s) \/ WriteFails(s)
      PROVE  ClientInv'
  <2>1. UNCHANGED <<generation, nextID, buf, pos>> /\ subscribers' \subseteq subscribers
    BY <1>5 DEF StreamClosed, ContextDone, HandlerCancels, HandlerUnsubscribes, HandlerReturns,
       Heartbeat, Written, WriteFails, Quiet, CloseDone, Unsubscribe, brokerVars, chanVars
  <2>2. \E from, to : HandlerMoves(s, from, to) /\ to # "replaying"
    BY <1>5 DEF StreamClosed, ContextDone, HandlerCancels, HandlerUnsubscribes, HandlerReturns,
       Heartbeat, Written, WriteFails
  <2>3. \A t \in Subs : handler'[t] = "replaying" => handler[t] = "replaying"
    BY <2>2 DEF HandlerMoves, IInv, TypeOK
  <2> QED BY <1>1, <2>1, <2>3, ClientFrame
<1>6. ASSUME NEW s \in Subs, Replay(s) PROVE ClientInv'
  <2>1. /\ UNCHANGED <<generation, nextID, pos, handler, subscribers>>
        /\ handler[s] = "replaying"
        /\ \/ UNCHANGED buf
           \/ \E id \in Nat : buf' = [buf EXCEPT ![s] = Append(@, Event(id))]
    <3>1. scan[s] \in 1 .. Len(history) /\ history[scan[s]] \in Nat
      <4>1. scan[s] \in Nat /\ Len(history) \in Nat /\ history \in Seq(Nat)
        BY LenProperties DEF IInv, TypeOK
      <4>2. scan[s] >= 1 /\ ~(scan[s] > Len(history))
        BY <1>6 DEF Replay, ReplayOver, IInv, StreamInv, ReplayInv
      <4>3. scan[s] \in 1 .. Len(history) BY <4>1, <4>2
      <4> QED BY <4>1, <4>3, ElementOfSeq
    <3> QED BY <1>6, <3>1 DEF Replay, brokerVars
  <2>2. After(lastID)' = After(lastID) /\ Behind' = Behind
    BY <1>1, <2>1 DEF After, Rejected, Behind, clientVars
  <2>3. ClientTypes' BY <1>1, <2>1 DEF ClientInv, ClientTypes, clientVars
  <2>4. NetInv' /\ OwedInv'
    BY <1>1, <2>1, <2>2 DEF ClientInv, NetInv, OwedInv, Before, clientVars
  <2>5. ASSUME NEW t \in Subs, conn' = t PROVE Continues(t)'
    <3>1. Continues(t) /\ Linked(t)' => Linked(t)
      BY <1>1, <2>1 DEF Linked, clientVars, IInv, TypeOK
    <3>2. FeedResync(t)' = FeedResync(t)
      <4>1. CASE buf'[t] = buf[t] BY <4>1 DEF FeedResync
      <4>2. ASSUME NEW id \in Nat, buf'[t] = Append(buf[t], Event(id))
            PROVE  FeedResync(t)' = FeedResync(t)
        BY <2>1, <4>2, FeedAppend DEF IInv
      <4>3. buf \in [Subs -> Seq(Item)] BY DEF IInv, TypeOK
      <4>4. buf'[t] = buf[t] \/ \E id \in Nat : buf'[t] = Append(buf[t], Event(id))
        BY <2>1, <4>3
      <4> QED BY <4>1, <4>2, <4>4
    <3> QED BY <1>1, <2>1, <2>2, <2>5, <3>1, <3>2 DEF ClientInv, Continues, clientVars
  <2> QED BY <2>3, <2>4, <2>5 DEF ClientInv
<1> QED BY <1>2, <1>3, <1>4, <1>5, <1>6 DEF ServerSteps

LEMMA PublishKeeps ==
    ASSUME IInv, ClientInv, PublishOwed PROVE ClientInv'
<1>1. /\ UNCHANGED <<conn, lastID, net, used, generation, pos, handler>>
      /\ nextID' = nextID + 1 /\ nextID < MaxEvents /\ subscribers' \subseteq subscribers
      /\ owed' \subseteq owed \cup {Owes(nextID + 1)}
  BY DEF PublishOwed, Publish
<1>2. nextID \in Nat /\ MaxEvents \in Nat /\ TypeOK BY BrokerAssumption DEF IInv, TypeOK
<1>3. After(lastID) \in 0 .. nextID BY <1>2, CursorTaken DEF ClientInv
<1>4. Behind' = Behind BY <1>1 DEF Behind
<1>5. /\ Owes(nextID + 1) \in [generation : used, id : Nat]
      /\ Owes(nextID + 1).id = nextID + 1 /\ Owes(nextID + 1).generation = generation
  BY <1>2 DEF Owes, ClientInv, ClientTypes
<1>6. ClientTypes'
  <2>1. owed' \subseteq [generation : used, id : Nat]
    BY <1>1, <1>5 DEF ClientInv, ClientTypes
  <2>2. \A e \in owed' : e.generation = generation => e.id <= nextID + 1
    BY <1>1, <1>2, <1>5 DEF ClientInv, ClientTypes
  <2>3. lastID # EmptyCursor /\ lastID.generation = generation => lastID.sequence <= nextID + 1
    BY <1>2 DEF ClientInv, ClientTypes
  <2>4. nextID + 1 <= MaxEvents BY <1>1, <1>2
  <2> QED BY <1>1, <2>1, <2>2, <2>3, <2>4 DEF ClientInv, ClientTypes
<1>7. After(lastID)' = After(lastID)
  <2>1. lastID # EmptyCursor /\ ~Behind
          => lastID.sequence \in 0 .. nextID /\ lastID.sequence \in 0 .. nextID + 1
    BY <1>2 DEF ClientInv, ClientTypes, Behind
  <2>2. Rejected(lastID)' <=> Rejected(lastID)
    BY <1>1, <2>1 DEF Rejected, Behind
  <2> QED BY <1>1, <2>2 DEF After
<1>8. NetInv'
  <2> SUFFICES ASSUME NEW i \in 1 .. Len(net)
               PROVE  /\ net[i].id <= nextID + 1
                      /\ ~net[i].reset => net[i].id = Before(i)' + 1
    BY <1>1 DEF NetInv
  <2>1. net[i].id \in Nat
    <3>1. net[i] \in Item BY ElementOfSeq DEF ClientInv, ClientTypes
    <3> QED BY <3>1 DEF Item
  <2>2. net[i].id <= nextID /\ (~net[i].reset => net[i].id = Before(i) + 1)
    BY DEF ClientInv, NetInv
  <2>3. Before(i)' = Before(i) BY <1>1, <1>7 DEF Before
  <2> QED BY <1>2, <2>1, <2>2, <2>3
<1>9. OwedInv'
  <2> SUFFICES ASSUME ~Behind, NEW e \in owed'
               PROVE  e.generation = generation /\ e.id > After(lastID)
    BY <1>1, <1>4, <1>7 DEF OwedInv
  <2>1. CASE e \in owed BY <2>1 DEF ClientInv, OwedInv
  <2>2. CASE e = Owes(nextID + 1) BY <2>2, <1>2, <1>3, <1>5
  <2> QED BY <1>1, <2>1, <2>2
<1>10. ASSUME NEW s \in Subs, conn' = s PROVE Continues(s)'
  <2>1. buf \in [Subs -> Seq(Item)] BY DEF IInv, TypeOK
  <2>2. \/ buf'[s] = buf[s]
        \/ s \in subscribers /\ buf'[s] = Append(buf[s], Event(nextID + 1))
    BY <2>1 DEF PublishOwed, Publish
  <2>3. FeedResync(s)' = FeedResync(s)
    <3>1. CASE buf'[s] = buf[s] BY <3>1 DEF FeedResync
    <3>2. CASE buf'[s] = Append(buf[s], Event(nextID + 1))
      <4>1. nextID + 1 \in Nat BY <1>2
      <4> HIDE DEF FeedResync
      <4> QED BY <1>1, <1>2, <3>2, <4>1, FeedAppend
    <3> QED BY <2>2, <3>1, <3>2
  <2>4. Continues(s) /\ (Linked(s)' => Linked(s))
    BY <1>1, <1>10, <2>2 DEF ClientInv, Linked
  <2> QED BY <1>1, <1>4, <1>7, <2>3, <2>4 DEF Continues
<1> QED BY <1>6, <1>8, <1>9, <1>10 DEF ClientInv

(* The client connects: what it is owed is replayed, or it is told.        *)
LEMMA ConnectKeeps ==
    ASSUME IInv, ClientInv, NEW s \in Subs, Connect(s) PROVE ClientInv'
<1>1. /\ UNCHANGED <<lastID, net, owed, used, generation, nextID>> /\ conn' = s
      /\ handler[s] = "idle" /\ net = <<>>
  BY DEF Connect, SubscribeLock, SubscribeClosed, brokerVars, ClientInv, ClientTypes
<1>2. After(lastID)' = After(lastID) /\ Behind' = Behind
  BY <1>1 DEF After, Rejected, Behind
<1>3. ClientTypes' BY <1>1, StreamAssumption DEF ClientInv, ClientTypes
<1>4. NetInv' /\ OwedInv' BY <1>1, <1>2 DEF ClientInv, NetInv, OwedInv, Before
<1>5. buf \in [Subs -> Seq(Item)] /\ pos \in [Subs -> Nat] /\ TypeOK /\ buf[s] = <<>>
  BY <1>1 DEF IInv, TypeOK, StreamInv, IdleInv
<1>6. CASE SubscribeLock(s, lastID)
  <2>1. pos'[s] = After(lastID) BY <1>5, <1>6 DEF SubscribeLock
  <2>2. ASSUME Behind PROVE FeedResync(s)'
    <3>1. Unreplayable(lastID) BY <2>2, <1>5, CursorTaken DEF Unreplayable, ClientInv
    <3>2. buf'[s] = <<StreamReset(nextID)>> BY <1>5, <1>6, <3>1 DEF SubscribeLock
    <3> QED BY <3>2 DEF FeedResync, StreamReset
  <2>3. Continues(s)' BY <1>1, <1>2, <2>1, <2>2 DEF Continues
  <2> QED BY <1>1, <1>3, <1>4, <2>3 DEF ClientInv
<1>7. CASE SubscribeClosed(s)
  <2>1. ~Linked(s)'
    BY <1>1, <1>5, <1>7
    DEF SubscribeClosed, Linked, IInv, TypeOK, LockInv, brokerVars
  <2>2. Continues(s)' BY <1>1, <2>1 DEF Continues
  <2> QED BY <1>1, <1>3, <1>4, <2>2 DEF ClientInv
<1> QED BY <1>6, <1>7 DEF Connect

LEMMA BreakKeeps ==
    ASSUME ClientInv, NEW s \in Subs, Break(s) PROVE ClientInv'
<1>1. UNCHANGED <<lastID, owed, used, generation, nextID>> /\ conn' = Offline /\ net' = <<>>
  BY DEF Break, Disconnect, brokerVars, vars
<1>2. After(lastID)' = After(lastID) /\ Behind' = Behind
  BY <1>1 DEF After, Rejected, Behind
<1>3. ClientTypes' BY <1>1 DEF ClientInv, ClientTypes
<1>4. NetInv' /\ OwedInv' BY <1>1, <1>2 DEF ClientInv, NetInv, OwedInv, Before
<1> QED BY <1>1, <1>3, <1>4, StreamAssumption DEF ClientInv

(* The handler writes what it took: the message follows the last one.      *)
LEMMA WriteKeeps ==
    ASSUME IInv, ClientInv, NEW s \in Subs, Write(s) PROVE ClientInv'
<1>1. /\ UNCHANGED <<conn, lastID, owed, used, generation, nextID, subscribers>>
      /\ buf[s] # <<>> /\ handler' = [handler EXCEPT ![s] = "writing"]
      /\ pos' = [pos EXCEPT ![s] = Head(buf[s]).id] /\ buf' = [buf EXCEPT ![s] = Tail(@)]
  BY DEF Write, Receive, HandlerMoves, brokerVars
<1>2. After(lastID)' = After(lastID) /\ Behind' = Behind
  BY <1>1 DEF After, Rejected, Behind
<1>3. /\ buf \in [Subs -> Seq(Item)] /\ pos \in [Subs -> Nat] /\ nextID \in Nat /\ TypeOK
      /\ net \in Seq(Item) /\ DOMAIN handler = Subs
  BY DEF IInv, TypeOK, ClientInv, ClientTypes
<1>4. OwedInv' BY <1>1, <1>2 DEF ClientInv, OwedInv
<1>5. CASE conn # s
  <2>1. UNCHANGED net BY <1>5 DEF Write
  <2>2. ClientTypes' BY <1>1, <2>1 DEF ClientInv, ClientTypes
  <2>3. NetInv' BY <1>1, <1>2, <2>1 DEF ClientInv, NetInv, Before
  <2>4. ASSUME NEW t \in Subs, conn' = t PROVE Continues(t)'
    <3>1. t # s /\ conn = t BY <1>1, <1>5, <2>4
    <3>2. buf'[t] = buf[t] /\ pos'[t] = pos[t] /\ handler'[t] = handler[t]
      BY <1>1, <1>3, <3>1
    <3>3. Continues(t) /\ (Linked(t)' <=> Linked(t)) /\ (FeedResync(t)' <=> FeedResync(t))
      BY <1>1, <2>1, <3>1, <3>2 DEF ClientInv, Linked, FeedResync
    <3> QED BY <1>2, <2>1, <3>2, <3>3 DEF Continues
  <2> QED BY <1>4, <2>2, <2>3, <2>4 DEF ClientInv
<1>6. CASE conn = s
  <2> DEFINE x == Head(buf[s])
             n == Len(net)
  <2>1. /\ x = buf[s][1] /\ x \in Item /\ x.id <= nextID /\ x.id \in Nat
        /\ ~x.reset => x.id = pos[s] + 1
    <3>1. buf[s] \in Seq(Item) /\ Len(buf[s]) \in Nat /\ Len(buf[s]) >= 1 /\ x = buf[s][1]
      BY <1>1, <1>3, EmptySeq, LenProperties
    <3>2. 1 \in 1 .. Len(buf[s]) BY <3>1
    <3>3. x \in Item BY <3>1, <3>2, ElementOfSeq
    <3>4. GapInv(s) BY DEF IInv, StreamInv
    <3>5. Previous(s, 1) = pos[s] BY DEF Previous
    <3> QED BY <3>1, <3>2, <3>3, <3>4, <3>5 DEF GapInv, Item
  <2>2. net' = Append(net, x) BY <1>6 DEF Write
  <2> HIDE DEF x
  <2>3. /\ net' \in Seq(Item) /\ Len(net') = n + 1 /\ n \in Nat /\ net' # <<>>
        /\ \A i \in 1 .. n : net'[i] = net[i]
        /\ net'[n + 1] = x
    BY <1>3, <2>1, <2>2, AppendProperties, LenProperties
  <2>4. Linked(s) BY <1>1 DEF Linked
  <2>5. Continues(s) BY <1>6 DEF ClientInv
  <2>6. pos[s] = IF n = 0 THEN After(lastID) ELSE net[n].id
    BY <1>3, <2>3, <2>4, <2>5, EmptySeq DEF Continues
  <2>7. ClientTypes'
    BY <1>1, <1>6, <2>3, StreamAssumption DEF ClientInv, ClientTypes
  <2>8. NetInv'
    <3> SUFFICES ASSUME NEW i \in 1 .. n + 1
                 PROVE  /\ net'[i].id <= nextID
                        /\ ~net'[i].reset => net'[i].id = Before(i)' + 1
      BY <1>1, <2>3 DEF NetInv
    <3>1. CASE i \in 1 .. n
      <4>1. Before(i)' = Before(i)
        <5>1. i # 1 => i - 1 \in 1 .. n BY <2>3, <3>1
        <5> QED BY <1>2, <2>3, <5>1 DEF Before
      <4> QED BY <2>3, <3>1, <4>1 DEF ClientInv, NetInv
    <3>2. CASE i = n + 1
      <4>1. Before(i)' = pos[s]
        <5>1. CASE n = 0 BY <1>2, <2>6, <3>2, <5>1 DEF Before
        <5>2. CASE n # 0
          <6>1. i # 1 /\ i - 1 = n /\ n \in 1 .. n BY <2>3, <3>2, <5>2
          <6> QED BY <2>3, <2>6, <5>2, <6>1 DEF Before
        <5> QED BY <5>1, <5>2
      <4> QED BY <2>1, <2>3, <3>2, <4>1
    <3>3. i \in 1 .. n \/ i = n + 1 BY <2>3
    <3> QED BY <3>1, <3>2, <3>3
  <2>9. Continues(s)'
    <3>1. pos'[s] = x.id BY <1>1, <1>3 DEF x
    <3>2. net'[Len(net')].id = pos'[s] BY <2>3, <3>1
    <3>3. ASSUME Behind PROVE net'[1].reset
      <4>1. CASE n = 0
        <5>1. net = <<>> BY <1>3, <4>1, EmptySeq
        <5>2. x.reset BY <2>4, <2>5, <3>3, <5>1 DEF Continues, FeedResync, x
        <5> QED BY <2>3, <4>1, <5>2
      <4>2. CASE n # 0
        <5>1. net # <<>> /\ 1 \in 1 .. n BY <2>3, <4>2, EmptySeq
        <5> QED BY <2>3, <2>4, <2>5, <3>3, <5>1 DEF Continues
      <4> QED BY <4>1, <4>2
    <3> QED BY <1>2, <2>3, <3>2, <3>3 DEF Continues
  <2> QED BY <1>1, <1>4, <1>6, <2>7, <2>8, <2>9 DEF ClientInv
<1> QED BY <1>5, <1>6

(* The client receives a message: its cursor is now that of the message,   *)
(* and what it is still owed follows it.                                   *)
LEMMA ReceiveKeeps ==
    ASSUME IInv, ClientInv, ClientReceives PROVE ClientInv'
<1> DEFINE x == net[1]
           n == Len(net)
           t == Tail(net)
<1>1. /\ UNCHANGED <<generation, nextID, subscribers, handler, buf, pos, conn, used>>
      /\ net # <<>> /\ net' = t /\ lastID' = CursorOf(Head(net)) /\ UNCHANGED vars
  BY DEF ClientReceives, vars
<1>2. net \in Seq(Item) /\ nextID \in Nat /\ TypeOK /\ ClientTypes
  BY DEF ClientInv, ClientTypes, IInv, TypeOK
<1>3. /\ n \in Nat \ {0} /\ Head(net) = x /\ x \in Item
      /\ t \in Seq(Item) /\ Len(t) = n - 1
      /\ \A i \in 1 .. n - 1 : t[i] = net[i + 1]
  <2>1. n \in Nat \ {0} /\ Head(net) = x BY <1>1, <1>2, EmptySeq
  <2>2. /\ t \in Seq(Item) /\ Len(t) = n - 1
        /\ \A i \in 1 .. Len(t) : t[i] = net[i + 1]
    BY <1>1, <1>2, HeadTailProperties
  <2>3. x \in Item
    <3>1. 1 \in 1 .. n BY <2>1
    <3> QED BY <1>2, <3>1, ElementOfSeq
  <2> QED BY <2>1, <2>2, <2>3
<1>4. x.id \in Nat /\ x.id <= nextID /\ (~x.reset => x.id = After(lastID) + 1)
  <2>1. 1 \in 1 .. n BY <1>3
  <2>2. Before(1) = After(lastID) BY DEF Before
  <2> QED BY <1>3, <2>1, <2>2 DEF ClientInv, NetInv, Item
<1>5. lastID' = [generation |-> generation, sequence |-> x.id]
  BY <1>1, <1>3 DEF CursorOf
<1>6. generation \in used /\ generation \in Generations /\ nextID <= MaxEvents
  BY DEF ClientInv, ClientTypes
<1>7. /\ lastID' \in [generation : used, sequence : 0 .. MaxEvents]
      /\ lastID' # EmptyCursor /\ lastID'.generation = generation /\ lastID'.sequence = x.id
  <2>1. x.id \in 0 .. MaxEvents BY <1>2, <1>4, <1>6, BrokerAssumption
  <2>2. lastID' \in [generation : Generations, sequence : Nat \cup {Garbled}]
    BY <1>4, <1>5, <1>6
  <2> QED BY <1>5, <1>6, <2>1, <2>2, BrokerAssumption
<1>8. After(lastID)' = x.id /\ ~Behind'
  <2>1. lastID'.sequence \in 0 .. nextID BY <1>2, <1>4, <1>7
  <2>2. ~Rejected(lastID)' BY <1>1, <1>7, <2>1 DEF Rejected
  <2> QED BY <1>1, <1>7, <2>2 DEF After, Behind
<1> HIDE DEF x, n, t
<1>9. CASE conn = Offline BY <1>1, <1>9 DEF ClientInv, ClientTypes
<1>10. CASE conn # Offline
  <2>0. conn \in Subs /\ Continues(conn) /\ Linked(conn)
    BY <1>1, <1>10 DEF ClientInv, ClientTypes, Linked
  <2>1. ~x.reset => ~Behind
    BY <1>1, <2>0 DEF Continues, x
  <2>2. \A e \in owed' : e \in owed /\ e.generation = generation /\ e.id > x.id
    <3>1. CASE x.reset
      <4>1. owed' = {e \in owed : e.generation = generation /\ e.id > x.id}
        BY <1>3, <3>1 DEF ClientReceives
      <4> QED BY <4>1
    <3>2. CASE ~x.reset
      <4>1. owed' = owed \ {Owes(x.id)} BY <1>3, <3>2 DEF ClientReceives
      <4>2. ~Behind BY <2>1, <3>2
      <4> SUFFICES ASSUME NEW e \in owed' PROVE e \in owed /\ e.generation = generation /\ e.id > x.id
        OBVIOUS
      <4>3. e \in owed /\ e # Owes(x.id) BY <4>1
      <4>4. e.generation = generation /\ e.id > After(lastID)
        BY <4>2, <4>3 DEF ClientInv, OwedInv
      <4>5. e \in [generation : used, id : Nat] BY <4>3 DEF ClientInv, ClientTypes
      <4>6. e.id # x.id BY <4>3, <4>4, <4>5 DEF Owes
      <4>7. After(lastID) \in Nat /\ e.id \in Nat BY <1>2, <4>5, CursorTaken
      <4> QED BY <1>4, <3>2, <4>3, <4>4, <4>6, <4>7
    <3> QED BY <3>1, <3>2
  <2>3. ClientTypes'
    <3>1. owed' \subseteq owed BY <2>2
    <3>2. lastID'.sequence <= nextID BY <1>4, <1>7
    <3> QED BY <1>1, <1>3, <1>7, <1>10, <3>1, <3>2 DEF ClientInv, ClientTypes
  <2>4. OwedInv' BY <1>1, <1>8, <2>2 DEF OwedInv
  <2>5. NetInv'
    <3> SUFFICES ASSUME NEW i \in 1 .. n - 1
                 PROVE  t[i].id <= nextID /\ (~t[i].reset => t[i].id = Before(i)' + 1)
      BY <1>1, <1>3 DEF NetInv
    <3>1. i + 1 \in 1 .. n /\ i + 1 # 1 /\ (i + 1) - 1 = i /\ t[i] = net[i + 1]
      BY <1>3
    <3>2. net[i + 1].id <= nextID /\ (~net[i + 1].reset => net[i + 1].id = net[i].id + 1)
      BY <3>1 DEF ClientInv, NetInv, Before, n
    <3>3. Before(i)' = net[i].id
      <4>1. CASE i = 1 BY <1>8, <4>1 DEF Before, x
      <4>2. CASE i # 1
        <5>1. i - 1 \in 1 .. n - 1 /\ (i - 1) + 1 = i BY <1>3, <4>2
        <5>2. t[i - 1] = net[i] BY <1>3, <5>1
        <5> QED BY <1>1, <4>2, <5>2 DEF Before
      <4> QED BY <4>1, <4>2
    <3> QED BY <3>1, <3>2, <3>3
  <2>6. Continues(conn)'
    <3>1. net[n].id = pos[conn] BY <1>1, <2>0 DEF Continues, n
    <3>2. CASE n = 1
      <4>1. net' = <<>> BY <1>1, <1>3, <3>2, EmptySeq
      <4> QED BY <1>1, <1>8, <3>1, <3>2, <4>1 DEF Continues, x
    <3>3. CASE n # 1
      <4>1. n - 1 \in 1 .. n - 1 /\ (n - 1) + 1 = n BY <1>3, <3>3
      <4>2. t[n - 1] = net[n] BY <1>3, <4>1
      <4>3. net' # <<>> BY <1>1, <1>3, <3>3, EmptySeq
      <4> QED BY <1>1, <1>3, <1>8, <3>1, <4>2, <4>3 DEF Continues
    <3> QED BY <3>2, <3>3
  <2> QED BY <1>1, <2>0, <2>3, <2>4, <2>5, <2>6 DEF ClientInv
<1> QED BY <1>9, <1>10

(* A new process: the client, if it has a cursor, is behind.               *)
LEMMA RestartKeeps ==
    ASSUME IInv, ClientInv, Restart PROVE Init' /\ ClientInv'
<1>1. \E g \in Generations : g \notin used
  BY DEF Restart, ClientInv, ClientTypes
<1>2. generation' \in Generations /\ generation' \notin used /\ used' = used \cup {generation'}
  BY <1>1 DEF Restart
<1>3. /\ nextID' = 0 /\ conn' = Offline /\ net' = <<>> /\ lastID' = lastID
      /\ owed' = IF lastID = EmptyCursor THEN {} ELSE owed
  BY DEF Restart
<1>4. Init' BY <1>2 DEF Restart, Init, IInv, NoPanic, TypeOK
<1>5. ClientTypes'
  <2>1. lastID # EmptyCursor => lastID.generation \in used BY DEF ClientInv, ClientTypes
  <2>2. owed' \subseteq [generation : used, id : Nat] BY <1>3 DEF ClientInv, ClientTypes
  <2>3. \A e \in owed' : e.generation # generation' BY <1>2, <2>2
  <2>4. lastID = EmptyCursor \/ lastID \in [generation : used, sequence : 0 .. MaxEvents]
    BY DEF ClientInv, ClientTypes
  <2>5. used' \subseteq Generations /\ generation' \in used' BY <1>2 DEF ClientInv, ClientTypes
  <2>6. 0 <= MaxEvents BY BrokerAssumption
  <2>7. owed' \subseteq [generation : used', id : Nat] BY <1>2, <2>2
  <2>8. lastID = EmptyCursor \/ lastID \in [generation : used', sequence : 0 .. MaxEvents]
    BY <1>2, <2>4
  <2> QED BY <1>2, <1>3, <2>1, <2>3, <2>5, <2>6, <2>7, <2>8 DEF ClientTypes
<1>6. NetInv' BY <1>3 DEF NetInv
<1>7. OwedInv'
  <2>1. lastID # EmptyCursor => Behind'
    BY <1>2, <1>3 DEF ClientInv, ClientTypes, Behind
  <2> QED BY <1>3, <2>1 DEF OwedInv
<1> QED BY <1>3, <1>4, <1>5, <1>6, <1>7, StreamAssumption DEF ClientInv

-----------------------------------------------------------------------------

LEMMA StreamInitInv == StreamInit => IInv /\ ClientInv
<1> SUFFICES ASSUME StreamInit PROVE IInv /\ ClientInv
  OBVIOUS
<1>1. IInv BY InitIInv DEF StreamInit
<1>2. /\ conn = Offline /\ lastID = EmptyCursor /\ net = <<>> /\ owed = {}
      /\ used = {generation} /\ generation \in Generations /\ nextID = 0
  BY DEF StreamInit, Init
<1>3. ClientTypes BY <1>2, BrokerAssumption DEF ClientTypes
<1>4. NetInv BY <1>2 DEF NetInv
<1>5. OwedInv BY <1>2 DEF OwedInv
<1> QED BY <1>1, <1>2, <1>3, <1>4, <1>5, StreamAssumption DEF ClientInv

(* Every step but a restart is a step of the broker and its handlers.      *)
LEMMA StreamSteps ==
    ASSUME IInv, ClientInv, [StreamNext]_streamVars PROVE [Next]_vars \/ Restart
<1>1. CASE PublishOwed BY <1>1 DEF PublishOwed, Next
<1>2. CASE ClientReceives BY <1>2 DEF ClientReceives
<1>3. CASE ServerSteps BY <1>3 DEF ServerSteps, Next, Handler
<1>4. ASSUME NEW s \in Subs, Connect(s) PROVE Next
  <2>1. lastID \in Cursors BY CursorTaken DEF IInv, ClientInv
  <2> QED BY <1>4, <2>1 DEF Connect, Next
<1>5. ASSUME NEW s \in Subs, Write(s) PROVE Next BY <1>5 DEF Write, Next, Handler
<1>6. ASSUME NEW s \in Subs, Break(s) PROVE [Next]_vars BY <1>6 DEF Break, Next
<1>7. CASE UNCHANGED streamVars BY <1>7 DEF streamVars
<1> QED BY <1>1, <1>2, <1>3, <1>4, <1>5, <1>6, <1>7 DEF StreamNext

LEMMA StreamNextInv == ClientInv /\ IInv /\ [StreamNext]_streamVars => ClientInv'
<1> SUFFICES ASSUME ClientInv, IInv, [StreamNext]_streamVars PROVE ClientInv'
  OBVIOUS
<1>1. CASE UNCHANGED streamVars
  BY <1>1, ClientFrame DEF streamVars, vars
<1> QED BY <1>1, PublishKeeps, ReceiveKeeps, RestartKeeps, ServerKeeps, ConnectKeeps, WriteKeeps,
           BreakKeeps DEF StreamNext

(* The invariant of the broker holds in each process of the service, and   *)
(* the client's cursor continues across them.                              *)
THEOREM StreamInvariant == StreamSpec => [](IInv /\ ClientInv)
<1>1. Init' => IInv' BY InitIInv, PTL
<1>2. IInv /\ ClientInv /\ [StreamNext]_streamVars => IInv'
  BY <1>1, NextIInv, StreamSteps, RestartKeeps
<1> QED BY <1>2, StreamInitInv, StreamNextInv, PTL DEF StreamSpec

(* A connected client that has read all there is has missed nothing, but   *)
(* for what a stream reset told it, however often connections broke,       *)
(* events were evicted, it was dropped, or the service restarted.          *)
THEOREM ClientMissesNothing == StreamSpec => []NothingMissed
<1>1. IInv /\ ClientInv => NothingMissed
  <2> SUFFICES ASSUME IInv, ClientInv, conn \in subscribers, net = <<>>, buf[conn] = <<>>,
                      NEW e \in owed
               PROVE  FALSE
    BY DEF NothingMissed
  <2>1. conn \in Subs /\ nextID \in Nat BY DEF IInv, TypeOK
  <2>2. pos[conn] = nextID BY <2>1 DEF IInv, StreamInv, LiveInv, Reached
  <2>3. Continues(conn) /\ Linked(conn) BY <2>1 DEF ClientInv, Linked
  <2>4. ~Behind BY <2>3 DEF Continues, FeedResync
  <2>5. After(lastID) = nextID BY <2>2, <2>3 DEF Continues
  <2>6. e.generation = generation /\ e.id > nextID BY <2>4, <2>5 DEF ClientInv, OwedInv
  <2>7. e.id <= nextID /\ e.id \in Nat BY <2>6 DEF ClientInv, ClientTypes
  <2> QED BY <2>1, <2>6, <2>7
<1> QED BY <1>1, StreamInvariant, PTL

(* A client receives the events of a process in order, each once and none  *)
(* left out without a stream reset, over all its connections.              *)
THEOREM ClientSeesEachOnce == StreamSpec => []NextIsNext
<1>1. IInv /\ ClientInv => NextIsNext
  <2> SUFFICES ASSUME IInv, ClientInv, net # <<>>, lastID # EmptyCursor, ~Head(net).reset,
                      lastID.generation = generation
               PROVE  Head(net).id = lastID.sequence + 1
    BY DEF NextIsNext
  <2>1. Len(net) \in Nat \ {0} /\ Head(net) = net[1]
    BY EmptySeq DEF ClientInv, ClientTypes
  <2>2. 1 \in 1 .. Len(net) BY <2>1
  <2>3. net[1].id = After(lastID) + 1 BY <2>1, <2>2 DEF ClientInv, NetInv, Before
  <2>4. After(lastID) = lastID.sequence BY CursorTaken DEF IInv, ClientInv, Behind
  <2> QED BY <2>1, <2>3, <2>4
<1> QED BY <1>1, StreamInvariant, PTL
=============================================================================
