---------------------------- MODULE EventStream ----------------------------
(***************************************************************************)
(* One client of the events route across broken connections and restarts   *)
(* of the service, composed with the broker and its handlers               *)
(* (EventBroker).                                                          *)
(*                                                                         *)
(* The client is an EventSource (external): it keeps the id of the last    *)
(* message it received and sends it as Last-Event-ID when it connects      *)
(* again.  What the service wrote and the client has not received is lost  *)
(* when the connection breaks.  A restart begins with an empty broker and  *)
(* a new generation (newEventBroker); the requests of the old process are  *)
(* gone with it.                                                           *)
(***************************************************************************)
EXTENDS EventBroker

CONSTANT Offline    \* the client has no connection

ASSUME StreamAssumption == Offline \notin Subs

VARIABLES
    conn,       \* the subscription the client is connected to, or Offline
    lastID,     \* the cursor of the last message received, or EmptyCursor
    net,        \* messages written to the connection and not received
    owed,       \* events the client was not given and not told it missed
    used        \* generations of this and of earlier processes

clientVars == <<conn, lastID, net, owed, used>>
streamVars == <<vars, clientVars>>

StreamInit ==
    /\ Init /\ generation = CHOOSE g \in Generations : TRUE
    /\ conn = Offline /\ lastID = EmptyCursor /\ net = <<>>
    /\ owed = {}
    /\ used = {generation}

(* An event, with the process that published it.                           *)
Owes(id) == [generation |-> generation, id |-> id]

(* Mutant of CursorOf: the cursor names the next event.                    *)
CursorOfNext(item) == [generation |-> generation, sequence |-> item.id + 1]

(* The id: line of a message, event.Cursor.                                *)
CursorOf(item) == [generation |-> generation, sequence |-> item.id]

-----------------------------------------------------------------------------

(* The client connects, again or for the first time.  Subscriptions that   *)
(* are not in use are alike: the one that is taken is any fixed one.       *)
Connect(s) ==
    /\ conn = Offline
    /\ handler[s] = "idle" /\ s = CHOOSE t \in Subs : handler[t] = "idle"
    /\ SubscribeLock(s, lastID) \/ SubscribeClosed(s)
    /\ conn' = s
    /\ UNCHANGED <<lastID, net, owed, used>>

(* The events of a client that has connected before, or is connected, are  *)
(* owed to it.                                                             *)
Watching == conn # Offline \/ lastID # EmptyCursor \/ \E s \in Subs : handler[s] # "idle"

PublishOwed ==
    /\ Publish
    /\ owed' = IF Watching THEN owed \cup {Owes(nextID + 1)} ELSE owed
    /\ UNCHANGED <<conn, lastID, net, used>>

(* The handler takes an item and writes it.  A write to a connection the   *)
(* client has left goes nowhere.                                           *)
Write(s) ==
    /\ Receive(s)
    /\ net' = IF conn = s THEN Append(net, Head(buf[s])) ELSE net
    /\ UNCHANGED <<conn, lastID, owed, used>>

(* The client receives a message.  A stream reset tells it that events     *)
(* before it are lost; it reads the state of the domains anew.             *)
ClientReceives ==
    /\ net # <<>>
    /\ net' = Tail(net)
    /\ lastID' = CursorOf(Head(net))
    /\ owed' = IF Head(net).reset
               THEN {e \in owed : e.generation = generation /\ e.id > Head(net).id}
               ELSE owed \ {Owes(Head(net).id)}
    /\ UNCHANGED <<vars, conn, used>>

(* The connection breaks, or the client has read up to its end.            *)
Break(s) ==
    /\ conn = s
    /\ \/ Disconnect(s)
       \/ handler[s] = "gone" /\ net = <<>> /\ UNCHANGED vars
    /\ conn' = Offline /\ net' = <<>>
    /\ UNCHANGED <<lastID, owed, used>>

(* The process ends, in order or not, and another begins.  A client that   *)
(* was never given a cursor cannot be told what it missed.                 *)
Restart ==
    /\ used # Generations
    /\ generation' = CHOOSE g \in Generations : g \notin used
    /\ used' = used \cup {generation'}
    /\ nextID' = 0 /\ history' = <<>> /\ subscribers' = {} /\ closed' = FALSE
    /\ mu' = Nobody
    /\ scan' = [s \in Subs |-> 1]
    /\ chan' = [s \in Subs |-> "none"]
    /\ cap' = [s \in Subs |-> 0]
    /\ buf' = [s \in Subs |-> <<>>]
    /\ pos' = [s \in Subs |-> 0]
    /\ born' = [s \in Subs |-> 0]
    /\ ctx' = [s \in Subs |-> FALSE]
    /\ once' = [s \in Subs |-> "fresh"]
    /\ done' = [s \in Subs |-> FALSE]
    /\ watcher' = [s \in Subs |-> "none"]
    /\ handler' = [s \in Subs |-> "idle"]
    /\ conn' = Offline /\ net' = <<>>
    /\ owed' = IF lastID = EmptyCursor THEN {} ELSE owed
    /\ UNCHANGED <<panicked, lastID>>

(* The other steps of the broker and its goroutines.                       *)
ServerSteps ==
    /\ \/ Close
       \/ \E s \in Subs :
            \/ Watcher(s)
            \/ Replay(s) \/ Register(s) \/ StreamClosed(s) \/ ContextDone(s)
            \/ HandlerCancels(s) \/ HandlerUnsubscribes(s) \/ HandlerReturns(s)
            \/ Heartbeat(s) \/ Written(s) \/ WriteFails(s)
    /\ UNCHANGED clientVars

StreamNext ==
    \/ PublishOwed \/ ClientReceives \/ Restart \/ ServerSteps
    \/ \E s \in Subs : Connect(s) \/ Write(s) \/ Break(s)

StreamSpec == StreamInit /\ [][StreamNext]_streamVars

(* The client reads and reconnects, and the service serves it: the         *)
(* goroutines of its connection and whoever holds mu go on, mu is handed   *)
(* over in turn, and a write to a client that reads completes.  The ticker *)
(* is ready once in 15 seconds, so that the channel is not passed over for *)
(* ever.  Handlers whose client has left need not run.                     *)
Serves(s) == \/ Written(s) \/ HandlerCancels(s) \/ HandlerReturns(s)
HoldsMu(s) == mu = s /\ (Replay(s) \/ Register(s))

FairStreamSpec ==
    /\ StreamSpec
    /\ WF_streamVars(ClientReceives)
    /\ WF_streamVars(\E s \in Subs : Connect(s))
    /\ WF_streamVars(\E s \in Subs : conn = s /\ handler[s] = "gone" /\ Break(s))
    /\ WF_streamVars((\E s \in Subs : HoldsMu(s)) /\ UNCHANGED clientVars)
    /\ WF_streamVars((\E s \in Subs : conn = s /\ Serves(s)) /\ UNCHANGED clientVars)
    /\ SF_streamVars(\E s \in Subs : conn = s /\ Write(s))
    /\ SF_streamVars((\E s \in Subs : conn = s /\ StreamClosed(s)) /\ UNCHANGED clientVars)
    /\ SF_streamVars((\E s \in Subs : conn = s /\ HandlerUnsubscribes(s)) /\ UNCHANGED clientVars)

-----------------------------------------------------------------------------
(***************************************************************************)
(* Properties.                                                             *)
(***************************************************************************)

(* A client that is connected and has read all there is has missed nothing *)
(* since it first connected, through lost messages, evicted events, a slow *)
(* consumer's disconnection and restarts of the service, unless a stream   *)
(* reset told it so.                                                       *)
NothingMissed ==
    (conn \in subscribers /\ net = <<>> /\ buf[conn] = <<>>) => owed = {}

(* What a client that has an event of this process receives next is the    *)
(* following event, or a stream reset: nothing twice, nothing left out,    *)
(* however often it reconnects.                                            *)
NextIsNext ==
    (net # <<>> /\ lastID # EmptyCursor /\ ~Head(net).reset)
      => \/ lastID.generation # generation
         \/ Head(net).id = lastID.sequence + 1

(* An owed event is delivered or its loss announced, as long as the client *)
(* can connect once more: subscriptions and generations are bounds of the  *)
(* model.                                                                  *)
Exhausted == conn = Offline /\ \A s \in Subs : handler[s] # "idle"
OwedIsPaid == (owed # {} /\ lastID # EmptyCursor) ~> (owed = {} \/ Exhausted \/ closed)
=============================================================================
