---------------------------- MODULE ProcessProofs ----------------------------
(***************************************************************************)
(* The process runs the broker of EventBroker, so that every theorem about *)
(* the broker holds in it, and what run, Connect and Close promise for any *)
(* number of requests, streams and events.                                 *)
(***************************************************************************)
EXTENDS Process, EventBrokerProofs

(* No step of the process does to the broker what EventBroker does not.    *)
LEMMA BrokerStep == [ProcessNext]_processVars => [Next]_vars
<1> SUFFICES ASSUME [ProcessNext]_processVars PROVE [Next]_vars
  OBVIOUS
<1>1. CASE Main
  BY <1>1 DEF Main, Load, Dial, RegisterCallback, Listen, SelectServerError,
     SelectSignal, Drained, Timeout, Stop, Deregister, CloseBroker, CloseConnection,
     Exit, Next
<1>2. CASE Signal \/ Killed \/ ServerStarts \/ ServerFails
  BY <1>2 DEF Signal, Killed, ServerStarts, ServerFails
<1>3. CASE EventArrives \/ Record \/ RecordNothing
  BY <1>3 DEF EventArrives, Record, RecordNothing, Next
<1>4. CASE \E q \in Requests : AcceptRequest(q) \/ AnswerRequest(q)
  BY <1>4 DEF AcceptRequest, AnswerRequest
<1>5. ASSUME NEW s \in Subs, AcceptStream(s) \/ StreamSteps(s) \/ StreamDisconnects(s)
      PROVE  [Next]_vars
  <2>1. EmptyCursor \in Cursors BY DEF Cursors
  <2> QED BY <1>5, <2>1 DEF AcceptStream, StreamSteps, StreamDisconnects, Next
<1>6. CASE UNCHANGED processVars BY <1>6 DEF processVars
<1> QED BY <1>1, <1>2, <1>3, <1>4, <1>5, <1>6 DEF ProcessNext

(* In the process, with its signals, failures and deferred calls, the      *)
(* broker behaves as EventBroker says.                                     *)
THEOREM ProcessRunsBroker == ProcessSpec => Spec
<1>1. ProcessInit => Init BY DEF ProcessInit
<1> QED BY <1>1, BrokerStep, PTL DEF ProcessSpec, Spec

(* The libvirt callback, the streams and Close never panic on a channel of *)
(* the broker, whenever the callback is deregistered and however late an   *)
(* event comes.                                                            *)
THEOREM ProcessNeverPanics == ProcessSpec => []NoPanic
  BY ProcessRunsBroker, NeverPanics, PTL

-----------------------------------------------------------------------------
(***************************************************************************)
(* The inductive invariant of the process.                                 *)
(***************************************************************************)

ProcessTypes ==
    /\ phase \in {"load", "dial", "register", "listen", "select", "draining", "stop",
                  "deregister", "closeBroker", "disconnect", "exit", "returned"}
    /\ exit \in {"running", "0", "1", "killed"} /\ code \in {"0", "1"}
    /\ request \in [Requests -> {"unsent", "running", "done"}]
    /\ accepted \subseteq Subs

(* Before run serves it has accepted nothing.                              *)
Starting ==
    phase \in {"load", "dial", "register", "listen"} =>
        /\ listener = "none" /\ code = "1"
        /\ accepted = {} /\ \A q \in Requests : request[q] = "unsent"

(* Success is decided when the listener is closed for good and all that    *)
(* was accepted is over.                                                   *)
Draining ==
    /\ phase = "select" => code = "1"
    /\ phase = "draining" => signalled /\ listener = "closed" /\ code = "1"
    /\ code = "0" => signalled /\ listener = "closed" /\ Idle

(* The connection is open from Connect to Close.                           *)
Connected ==
    /\ connection # "open" => phase \in {"load", "dial", "exit", "returned"}
    /\ phase \in {"load", "dial", "exit", "returned"} /\ exit # "killed" => connection # "open"

(* run returns with the broker closed, or before it accepted a stream.     *)
Ending ==
    /\ phase \in {"disconnect", "exit"} => closed
    /\ phase = "returned" => ~Running /\ (closed \/ accepted = {})
    /\ exit \in {"0", "1"} => phase = "returned"
    /\ exit = "0" => code = "0"

(* Only an accepted request subscribes.                                    *)
Unaccepted == \A s \in Subs \ accepted : handler[s] = "idle" /\ chan[s] # "open"

ProcessIInv == ProcessTypes /\ Starting /\ Draining /\ Connected /\ Ending /\ Unaccepted

(* A process begins in the invariant.                                      *)
LEMMA ProcessBegins == ProcessInit => ProcessIInv
<1> SUFFICES ASSUME ProcessInit PROVE ProcessIInv
  OBVIOUS
<1> USE DEF ProcessInit
<1>1. ProcessTypes BY DEF ProcessTypes
<1>2. Starting BY DEF Starting
<1>3. Draining /\ Connected BY DEF Draining, Connected
<1>4. Ending BY DEF Ending, Running
<1>5. Unaccepted BY DEF Unaccepted, Init
<1> QED BY <1>1, <1>2, <1>3, <1>4, <1>5 DEF ProcessIInv

(* run keeps the invariant, up to its select ...                           *)
LEMMA StartKeeps ==
    ProcessIInv /\ (Load \/ Dial \/ RegisterCallback \/ Listen) => ProcessIInv'
<1> SUFFICES ASSUME ProcessIInv, Load \/ Dial \/ RegisterCallback \/ Listen
             PROVE  ProcessIInv'
  OBVIOUS
<1> USE DEF ProcessIInv, Goes, Fails, Running, serverVars, libvirtVars, vars
<1>0. UNCHANGED <<handler, chan, closed>> /\ UNCHANGED <<accepted, request, code, signalled>>
  BY DEF Load, Dial, RegisterCallback, Listen, chanVars, brokerVars
<1>1. ProcessTypes' BY <1>0 DEF Load, Dial, RegisterCallback, Listen, ProcessTypes
<1>2. Starting' BY <1>0 DEF Load, Dial, RegisterCallback, Listen, Starting
<1>3. Draining' BY <1>0 DEF Load, Dial, RegisterCallback, Listen, Draining, Idle, Starting
<1>4. Connected' BY <1>0 DEF Load, Dial, RegisterCallback, Listen, Connected
<1>5. Ending' BY <1>0 DEF Load, Dial, RegisterCallback, Listen, Ending, Starting
<1>6. Unaccepted' BY <1>0 DEF Unaccepted
<1> QED BY <1>1, <1>2, <1>3, <1>4, <1>5, <1>6

(* ... and from its select to its return.                                  *)
LEMMA StopKeeps ==
    ProcessIInv /\ (SelectServerError \/ SelectSignal \/ Drained \/ Timeout \/ Stop
                    \/ Deregister \/ CloseConnection \/ Exit) => ProcessIInv'
<1> SUFFICES ASSUME ProcessIInv,
                    SelectServerError \/ SelectSignal \/ Drained \/ Timeout \/ Stop
                    \/ Deregister \/ CloseConnection \/ Exit
             PROVE  ProcessIInv'
  OBVIOUS
<1> USE DEF ProcessIInv, Goes, Running, serverVars, libvirtVars, vars, SelectServerError,
            SelectSignal, Drained, Timeout, Stop, Deregister, CloseConnection, Exit
<1>0. UNCHANGED <<handler, chan, closed, accepted, request, signalled>>
  OBVIOUS
<1>1. ProcessTypes' BY <1>0 DEF ProcessTypes
<1>2. Starting' BY <1>0 DEF Starting
<1>3. Draining' BY <1>0 DEF Draining, Idle
<1>4. Connected' BY <1>0 DEF Connected
<1>5. Ending' BY <1>0 DEF Ending, ProcessTypes
<1>6. Unaccepted' BY <1>0 DEF Unaccepted
<1> QED BY <1>1, <1>2, <1>3, <1>4, <1>5, <1>6

(* Signals, the server and the requests it accepts keep the invariant: a   *)
(* closed listener accepts nothing.                                        *)
LEMMA ServerKeeps ==
    ProcessIInv /\ (Signal \/ Killed \/ ServerStarts \/ ServerFails \/ EventArrives
                    \/ RecordNothing
                    \/ \E q \in Requests : AcceptRequest(q) \/ AnswerRequest(q))
        => ProcessIInv'
<1> SUFFICES ASSUME ProcessIInv,
                    Signal \/ Killed \/ ServerStarts \/ ServerFails \/ EventArrives
                    \/ RecordNothing
                    \/ \E q \in Requests : AcceptRequest(q) \/ AnswerRequest(q)
             PROVE  ProcessIInv'
  OBVIOUS
<1> USE DEF ProcessIInv, Running, mainVars, serverVars, libvirtVars, vars
<1>1. CASE Signal \/ Killed
  <2> USE <1>1 DEF Signal, Killed, Notified
  <2>0. UNCHANGED <<handler, chan, closed, accepted, request, phase, code, listener,
                    connection>>
    OBVIOUS
  <2>1. ProcessTypes' /\ Starting' BY <2>0 DEF ProcessTypes, Starting
  <2>2. Draining' BY <2>0 DEF Draining, Idle
  <2>3. Connected' BY <2>0 DEF Connected
  <2>4. Ending' BY <2>0 DEF Ending
  <2>5. Unaccepted' BY <2>0 DEF Unaccepted
  <2> QED BY <2>1, <2>2, <2>3, <2>4, <2>5
<1>2. CASE ServerStarts \/ ServerFails \/ EventArrives \/ RecordNothing
  <2> USE <1>2 DEF ServerStarts, ServerFails, EventArrives, RecordNothing
  <2>0. UNCHANGED <<handler, chan, closed, accepted, request, phase, code, exit,
                    signalled, connection>>
    OBVIOUS
  <2>1. ProcessTypes' /\ Starting' BY <2>0 DEF ProcessTypes, Starting
  <2>2. Draining' BY <2>0 DEF Draining, Idle
  <2>3. Connected' BY <2>0 DEF Connected
  <2>4. Ending' BY <2>0 DEF Ending
  <2>5. Unaccepted' BY <2>0 DEF Unaccepted
  <2> QED BY <2>1, <2>2, <2>3, <2>4, <2>5
<1>3. ASSUME NEW q \in Requests, AcceptRequest(q) \/ AnswerRequest(q)
      PROVE  ProcessIInv'
  <2> USE <1>3 DEF AcceptRequest, AnswerRequest
  <2>0. UNCHANGED <<handler, chan, closed, accepted, listener, phase, code, exit,
                    signalled, connection>>
    OBVIOUS
  <2>1. ProcessTypes' BY <2>0 DEF ProcessTypes
  <2>2. Starting' BY <2>0 DEF Starting
  <2>3. Draining' BY <2>0 DEF Draining, Idle, ProcessTypes
  <2>4. Connected' BY <2>0 DEF Connected
  <2>5. Ending' BY <2>0 DEF Ending
  <2>6. Unaccepted' BY <2>0 DEF Unaccepted
  <2> QED BY <2>1, <2>2, <2>3, <2>4, <2>5, <2>6
<1> QED BY <1>1, <1>2, <1>3

(* The steps of the broker inside the process: none of them brings a       *)
(* handler back, and none opens a channel but a subscription's own.        *)
LEMMA BrokerFrame ==
    ASSUME TypeOK, ProcessIInv,
           UNCHANGED <<mainVars, serverVars, connection>>,
           \A s \in Subs : handler[s] = "gone" => handler'[s] = "gone",
           \A s \in Subs \ accepted :
               handler'[s] = handler[s] /\ (chan[s] # "open" => chan'[s] # "open"),
           closed => closed'
    PROVE  ProcessIInv'
<1> USE DEF ProcessIInv, Running, mainVars, serverVars
<1>1. ProcessTypes' /\ Starting' BY DEF ProcessTypes, Starting
<1>2. Draining' BY DEF Draining, Idle, ProcessTypes
<1>3. Connected' BY DEF Connected
<1>4. Ending' BY DEF Ending
<1>5. Unaccepted' BY DEF Unaccepted
<1> QED BY <1>1, <1>2, <1>3, <1>4, <1>5

(* A stream's own steps.                                                   *)
LEMMA StreamKeeps ==
    ASSUME TypeOK, ProcessIInv, NEW s \in Subs, StreamSteps(s) \/ StreamDisconnects(s)
    PROVE  ProcessIInv'
<1>1. UNCHANGED <<mainVars, serverVars, connection>>
  BY DEF StreamSteps, StreamDisconnects, libvirtVars
<1>2. CASE StreamDisconnects(s)
  <2>1. UNCHANGED <<handler, chan, closed>>
    BY <1>2 DEF StreamDisconnects, Disconnect, brokerVars, chanVars
  <2> QED BY <1>1, <2>1, BrokerFrame
<1>3. CASE StreamSteps(s)
  <2> USE DEF brokerVars, chanVars, Quiet, HandlerMoves, CloseDone, Unsubscribe, OwnChannel,
              TypeOK
  <2>1. /\ s \in accepted /\ closed' = closed
        /\ handler[s] = "gone" => handler'[s] = "gone"
        /\ \A t \in Subs \ {s} : handler'[t] = handler[t] /\ chan'[t] = chan[t]
    <3>1. CASE SubscribeLock(s, EmptyCursor) \/ SubscribeClosed(s)
      BY <3>1, <1>3 DEF StreamSteps, SubscribeLock, SubscribeClosed
    <3>2. CASE Watcher(s)
      BY <3>2, <1>3 DEF StreamSteps, Watcher, WatcherCancels, WatcherLate,
         WatcherUnsubscribes, WatcherReleased
    <3>3. CASE Handler(s)
      BY <3>3, <1>3 DEF StreamSteps, Handler, Replay, Register, Receive, StreamClosed,
         ContextDone, HandlerCancels, HandlerUnsubscribes, HandlerReturns
    <3>4. CASE Heartbeat(s) \/ Written(s) \/ WriteFails(s)
      BY <3>4, <1>3 DEF StreamSteps, Heartbeat, Written, WriteFails
    <3> QED BY <1>3, <3>1, <3>2, <3>3, <3>4 DEF StreamSteps
  <2> QED BY <1>1, <2>1, BrokerFrame
<1> QED BY <1>2, <1>3

(* A new stream, an event that is published, and the end of the broker.    *)
LEMMA BrokerKeeps ==
    ASSUME TypeOK, ProcessIInv,
           Record \/ CloseBroker \/ \E s \in Subs : AcceptStream(s)
    PROVE  ProcessIInv'
<1>1. CASE Record
  <2>1. /\ UNCHANGED <<mainVars, serverVars, connection, handler, closed>>
        /\ \A s \in Subs : chan[s] # "open" => chan'[s] # "open"
    BY <1>1 DEF Record, Publish, Dropped
  <2> QED BY <2>1, BrokerFrame
<1>2. CASE CloseBroker
  <2> USE <1>2 DEF CloseBroker, Close, Goes, Running, serverVars, libvirtVars, ProcessIInv
  <2>0. /\ closed' /\ UNCHANGED <<handler, accepted, request, exit, code, signalled,
                                  listener, connection>>
        /\ \A s \in Subs : chan[s] # "open" => chan'[s] # "open"
    OBVIOUS
  <2>1. ProcessTypes' /\ Starting' BY <2>0 DEF ProcessTypes, Starting
  <2>2. Draining' BY <2>0 DEF Draining, Idle
  <2>3. Connected' BY <2>0 DEF Connected
  <2>4. Ending' BY <2>0 DEF Ending
  <2>5. Unaccepted' BY <2>0 DEF Unaccepted
  <2> QED BY <2>1, <2>2, <2>3, <2>4, <2>5
<1>3. ASSUME NEW s \in Subs, AcceptStream(s) PROVE ProcessIInv'
  <2> USE <1>3 DEF AcceptStream, Running, mainVars, libvirtVars, vars, ProcessIInv
  <2>0. UNCHANGED <<handler, chan, closed, request, phase, exit, code, signalled,
                    listener, connection>>
    OBVIOUS
  <2>1. ProcessTypes' /\ Starting' BY <2>0 DEF ProcessTypes, Starting
  <2>2. Draining' BY <2>0 DEF Draining, Idle
  <2>3. Connected' BY <2>0 DEF Connected
  <2>4. Ending' BY <2>0 DEF Ending
  <2>5. Unaccepted' BY <2>0 DEF Unaccepted
  <2> QED BY <2>1, <2>2, <2>3, <2>4, <2>5
<1> QED BY <1>1, <1>2, <1>3

(* The invariant holds of every process.                                   *)
THEOREM ProcessInvariant == ProcessSpec => []ProcessIInv
<1>1. TypeOK /\ ProcessIInv /\ [ProcessNext]_processVars => ProcessIInv'
  <2> SUFFICES ASSUME TypeOK, ProcessIInv, [ProcessNext]_processVars PROVE ProcessIInv'
    OBVIOUS
  <2>1. CASE Main BY <2>1, StartKeeps, StopKeeps, BrokerKeeps DEF Main
  <2>2. CASE ProcessNext /\ ~Main
    BY <2>2, ServerKeeps, StreamKeeps, BrokerKeeps DEF ProcessNext
  <2>3. CASE UNCHANGED processVars
    <3>1. UNCHANGED <<mainVars, serverVars, connection, handler, chan, closed>>
      BY <2>3 DEF processVars, vars, libvirtVars
    <3> QED BY <3>1, BrokerFrame
  <2> QED BY <2>1, <2>2, <2>3 
<1> QED BY <1>1, ProcessBegins, ProcessRunsBroker, TypeCorrect, PTL DEF ProcessSpec

(* Exit code 0 of run means that it was signalled and all was served.      *)
THEOREM SuccessIsService == ProcessSpec => []SuccessMeansServed
<1>1. ProcessIInv => SuccessMeansServed
  BY DEF ProcessIInv, Ending, Draining, Idle, SuccessMeansServed
<1> QED BY <1>1, ProcessInvariant, PTL

(* Every return of run leaves no connection and no stream open.            *)
THEOREM RunClosesAll == ProcessSpec => []NothingLeftOpen
<1>1. ProcessIInv /\ ClosedBrokerHasNoStreams => NothingLeftOpen
  BY DEF ProcessIInv, Ending, Connected, Unaccepted, ClosedBrokerHasNoStreams,
         NothingLeftOpen
<1> QED BY <1>1, ProcessInvariant, ProcessRunsBroker, StreamsEnd, PTL

(* Requests have the connection until Close ends it, and only a failed or  *)
(* late shutdown ends it under one of them.                                *)
THEOREM ConnectionOutlivesRequests == ProcessSpec => []ServedWithConnection
<1>1. ProcessIInv => ServedWithConnection
  BY DEF ProcessIInv, ProcessTypes, Starting, Draining, Connected, Ending, Idle, Running,
         ServedWithConnection
<1> QED BY <1>1, ProcessInvariant, PTL
=============================================================================
