------------------------------ MODULE Process ------------------------------
(***************************************************************************)
(* The life of the process: run of cmd/libvirt-rest-api/main.go with       *)
(* Connect, Close and recordLifecycleEvent of                              *)
(* internal/hypervisor/libvirt.go, around the broker and the event streams *)
(* of EventBroker.                                                         *)
(*                                                                         *)
(* run loads, connects, serves until the server fails or a signal comes,   *)
(* shuts the server down with a limit of ten seconds, and then makes its   *)
(* deferred calls.  When it returns the process exits, whatever its other  *)
(* goroutines are doing.  http.Server.Shutdown (external) closes the       *)
(* listener and waits for the requests that were accepted; it does not     *)
(* cancel their contexts, so that it waits for event streams too.          *)
(***************************************************************************)
EXTENDS EventBroker

CONSTANT Requests   \* requests other than event streams

VARIABLES
    phase,      \* where run is
    exit,       \* "running", then what the process exits with: "0", "1", "killed"
    code,       \* what run returns: "0" for nil, "1" for an error
    signalled,  \* SIGINT or SIGTERM was received
    listener,   \* "none", "starting", "open", "failed", "closed"
    connection, \* the libvirt connection: "none", "open", "closed"
    callback,   \* the lifecycle callback is registered
    recording,  \* recordLifecycleEvent is running
    accepted,   \* event streams whose requests were accepted
    request     \* request[q]: "unsent", "running", "done"

mainVars == <<phase, exit, code, signalled>>
serverVars == <<listener, accepted, request>>
libvirtVars == <<connection, callback, recording>>
processVars == <<vars, mainVars, serverVars, libvirtVars>>

ProcessInit ==
    /\ Init
    /\ phase = "load" /\ exit = "running" /\ code = "1" /\ signalled = FALSE
    /\ listener = "none" /\ connection = "none"
    /\ callback = FALSE /\ recording = FALSE
    /\ accepted = {}
    /\ request = [q \in Requests |-> "unsent"]

Running == exit = "running"
Goes(from, to) == Running /\ phase = from /\ phase' = to

-----------------------------------------------------------------------------
(***************************************************************************)
(* run, up to its select.                                                  *)
(***************************************************************************)

(* An error before the service exists: nothing is deferred yet.            *)
Fails(from) ==
    /\ Running /\ phase = from
    /\ phase' = "returned" /\ exit' = "1"
    /\ UNCHANGED <<code, signalled>>

(* config.Load, and EventRegisterDefaultImpl at the start of Connect.      *)
Load ==
    /\ \/ Goes("load", "dial") /\ UNCHANGED <<exit, code, signalled>>
       \/ Fails("load")
    /\ UNCHANGED <<vars, serverVars, libvirtVars>>

(* NewConnect.                                                             *)
Dial ==
    /\ \/ /\ Goes("dial", "register")
          /\ connection' = "open"
          /\ UNCHANGED <<exit, code, signalled>>
       \/ Fails("dial") /\ UNCHANGED connection
    /\ UNCHANGED <<vars, serverVars, callback, recording>>

(* Mutant of RegisterCallback: its failure leaves the connection open.     *)
RegisterCallbackLeaks ==
    /\ \/ /\ Goes("register", "listen")
          /\ callback' = TRUE
          /\ UNCHANGED <<exit, code, signalled, connection>>
       \/ Fails("register") /\ UNCHANGED <<connection, callback>>
    /\ UNCHANGED <<vars, serverVars, recording>>

(* DomainEventLifecycleRegister; its failure closes the connection.        *)
RegisterCallback ==
    /\ \/ /\ Goes("register", "listen")
          /\ callback' = TRUE
          /\ UNCHANGED <<exit, code, signalled, connection>>
       \/ /\ Fails("register")
          /\ connection' = "closed"
          /\ UNCHANGED callback
    /\ UNCHANGED <<vars, serverVars, recording>>

(* NotifyContext, and the goroutine that serves is started.                *)
Listen ==
    /\ Goes("listen", "select")
    /\ listener' = "starting"
    /\ UNCHANGED <<vars, exit, code, signalled, accepted, request, libvirtVars>>

-----------------------------------------------------------------------------
(***************************************************************************)
(* Signals.  Between NotifyContext and its stop they end shutdownContext,  *)
(* and a second one changes nothing; before and after, they kill.          *)
(***************************************************************************)

Notified == phase \in {"select", "draining", "stop"}

Signal ==
    /\ Running /\ Notified /\ ~signalled
    /\ signalled' = TRUE
    /\ UNCHANGED <<vars, phase, exit, code, serverVars, libvirtVars>>

Killed ==
    /\ Running /\ ~Notified
    /\ exit' = "killed"
    /\ UNCHANGED <<vars, phase, code, signalled, serverVars, libvirtVars>>

-----------------------------------------------------------------------------
(***************************************************************************)
(* The server (external): ListenAndServe and Shutdown.                     *)
(***************************************************************************)

(* The address is bound or cannot be; an open listener may fail later.     *)
ServerStarts ==
    /\ Running /\ listener = "starting"
    /\ listener' \in {"open", "failed"}
    /\ UNCHANGED <<vars, mainVars, accepted, request, libvirtVars>>

ServerFails ==
    /\ Running /\ listener = "open"
    /\ listener' = "failed"
    /\ UNCHANGED <<vars, mainVars, accepted, request, libvirtVars>>

AcceptStream(s) ==
    /\ Running /\ listener = "open" /\ s \notin accepted
    /\ accepted' = accepted \cup {s}
    /\ UNCHANGED <<vars, mainVars, listener, request, libvirtVars>>

AcceptRequest(q) ==
    /\ Running /\ listener = "open" /\ request[q] = "unsent"
    /\ request' = [request EXCEPT ![q] = "running"]
    /\ UNCHANGED <<vars, mainVars, listener, accepted, libvirtVars>>

AnswerRequest(q) ==
    /\ Running /\ request[q] = "running"
    /\ request' = [request EXCEPT ![q] = "done"]
    /\ UNCHANGED <<vars, mainVars, listener, accepted, libvirtVars>>

(* Mutant of Idle: the server is closed, not shut down.                    *)
IdleAlways == TRUE

(* Mutant of Idle: Shutdown does not wait for event streams.               *)
IdleButStreams == \A q \in Requests : request[q] # "running"

Idle == /\ \A q \in Requests : request[q] # "running"
        /\ \A s \in accepted : handler[s] = "gone"

-----------------------------------------------------------------------------
(***************************************************************************)
(* run, its select and what it defers.                                     *)
(***************************************************************************)

(* case err := <-serverErrors                                              *)
SelectServerError ==
    /\ Goes("select", "stop")
    /\ listener = "failed"
    /\ code' = "1"
    /\ UNCHANGED <<vars, exit, signalled, serverVars, libvirtVars>>

(* case <-shutdownContext.Done(): Shutdown closes the listener; one that   *)
(* was not yet open never opens.                                           *)
SelectSignal ==
    /\ Goes("select", "draining")
    /\ signalled
    /\ listener' = "closed"
    /\ UNCHANGED <<vars, exit, code, signalled, accepted, request, libvirtVars>>

(* Shutdown returns nil.                                                   *)
Drained ==
    /\ Goes("draining", "stop")
    /\ Idle
    /\ code' = "0"
    /\ UNCHANGED <<vars, exit, signalled, serverVars, libvirtVars>>

(* Mutant of Timeout: Shutdown is given no deadline.                       *)
TimeoutNever == FALSE /\ UNCHANGED processVars

(* Shutdown returns the error of its context after ten seconds.            *)
Timeout ==
    /\ Goes("draining", "stop")
    /\ code' = "1"
    /\ UNCHANGED <<vars, exit, signalled, serverVars, libvirtVars>>

(* The deferred stop(): signals are no longer caught.                      *)
Stop ==
    /\ Goes("stop", "deregister")
    /\ UNCHANGED <<vars, exit, code, signalled, serverVars, libvirtVars>>

(* The deferred service.Close(): DomainEventDeregister, whose error is     *)
(* ignored, so that events may go on arriving ...                          *)
Deregister ==
    /\ Goes("deregister", "closeBroker")
    /\ callback' \in {FALSE, callback}
    /\ UNCHANGED <<vars, exit, code, signalled, serverVars, connection, recording>>

(* ... broker.close() ...                                                  *)
CloseBroker ==
    /\ Goes("closeBroker", "disconnect")
    /\ Close
    /\ UNCHANGED <<exit, code, signalled, serverVars, libvirtVars>>

(* ... and connection.Close(), whose error nobody reads.                   *)
CloseConnection ==
    /\ Goes("disconnect", "exit")
    /\ connection' = "closed"
    /\ UNCHANGED <<vars, exit, code, signalled, serverVars, callback, recording>>

(* run returns, and the process exits.                                     *)
Exit ==
    /\ Goes("exit", "returned")
    /\ exit' = code
    /\ UNCHANGED <<vars, code, signalled, serverVars, libvirtVars>>

-----------------------------------------------------------------------------
(***************************************************************************)
(* recordLifecycleEvent, on libvirt's event loop.  One that has begun goes *)
(* on after the callback is deregistered.                                  *)
(***************************************************************************)

EventArrives ==
    /\ Running /\ callback /\ ~recording
    /\ recording' = TRUE
    /\ UNCHANGED <<vars, mainVars, serverVars, connection, callback>>

(* The domain has a name and a UUID, and the event is published.           *)
Record ==
    /\ Running /\ recording
    /\ recording' = FALSE
    /\ Publish
    /\ UNCHANGED <<mainVars, serverVars, connection, callback>>

(* The domain has lost them, or the broker is closed.                      *)
RecordNothing ==
    /\ Running /\ recording
    /\ recording' = FALSE
    /\ UNCHANGED <<vars, mainVars, serverVars, connection, callback>>

(* The event streams of accepted requests.                                 *)
StreamSteps(s) ==
    /\ Running /\ s \in accepted
    /\ \/ SubscribeLock(s, EmptyCursor) \/ SubscribeClosed(s)
       \/ Watcher(s) \/ Handler(s)
       \/ Heartbeat(s) \/ Written(s) \/ WriteFails(s)
    /\ UNCHANGED <<mainVars, serverVars, libvirtVars>>

StreamDisconnects(s) ==
    /\ Running /\ Disconnect(s)
    /\ UNCHANGED <<mainVars, serverVars, libvirtVars>>

-----------------------------------------------------------------------------

Main == \/ Load \/ Dial \/ RegisterCallback \/ Listen
        \/ SelectServerError \/ SelectSignal \/ Drained \/ Timeout
        \/ Stop \/ Deregister \/ CloseBroker \/ CloseConnection \/ Exit

ProcessNext ==
    \/ Main \/ Signal \/ Killed
    \/ ServerStarts \/ ServerFails
    \/ EventArrives \/ Record \/ RecordNothing
    \/ \E q \in Requests : AcceptRequest(q) \/ AnswerRequest(q)
    \/ \E s \in Subs : AcceptStream(s) \/ StreamSteps(s) \/ StreamDisconnects(s)

ProcessSpec == ProcessInit /\ [][ProcessNext]_processVars

(* run goes on when it can, and the ten seconds pass; a request need never *)
(* be answered, nor a client go away, nor one that stays read.  The        *)
(* goroutines of a stream run, as in EventBroker: mu is handed over in     *)
(* turn, a done context is not passed over for ever, and a write to a      *)
(* client that is gone fails.                                              *)
Elsewhere == Running /\ UNCHANGED <<mainVars, serverVars, libvirtVars>>

FairProcessSpec ==
    /\ ProcessSpec
    /\ WF_processVars(Main) /\ SF_processVars(CloseBroker)
    /\ \A s \in Subs :
         /\ WF_processVars(Handler(s) /\ Elsewhere)
         /\ WF_processVars(Watcher(s) /\ Elsewhere)
         /\ SF_processVars(HandlerUnsubscribes(s) /\ Elsewhere)
         /\ SF_processVars(WatcherUnsubscribes(s) /\ Elsewhere)
         /\ SF_processVars(ContextDone(s) /\ Elsewhere)
         /\ WF_processVars(ctx[s] /\ WriteFails(s) /\ Elsewhere)

-----------------------------------------------------------------------------
(***************************************************************************)
(* Properties.                                                             *)
(***************************************************************************)

(* The process reports success only when it was asked to stop and every    *)
(* request it accepted has been served to its end; an event stream that    *)
(* its client keeps open makes it report an error.                         *)
SuccessMeansServed ==
    exit = "0" => /\ signalled
                  /\ \A q \in Requests : request[q] # "running"
                  /\ \A s \in accepted : handler[s] = "gone"

(* However run returns, by a failure to start, of the server, of Shutdown  *)
(* or in order, it has closed the connection it opened and every event     *)
(* stream, though events and clients may go on arriving until it exits.    *)
NothingLeftOpen ==
    exit \in {"0", "1"} =>
        /\ connection # "open"
        /\ \A s \in Subs : chan[s] # "open"

(* No request runs without the connection until Close has ended it, and it *)
(* is ended under a request that is still running only when the server     *)
(* failed or Shutdown ran out of time.                                     *)
ServedWithConnection ==
    (Running /\ (\E q \in Requests : request[q] = "running") /\ connection # "open")
        => phase = "exit" /\ code = "1"

(* A process that was asked to stop stops, with requests that hang in      *)
(* libvirt and streams that stay open, and with more signals coming.       *)
SignalStops == signalled ~> exit # "running"

(* When the client of a stream has gone, or its handler has decided to     *)
(* return, both goroutines of the subscription end and the broker forgets  *)
(* it, unless the process exits first.                                     *)
StreamReleased ==
    \A s \in Subs :
        (ctx[s] \/ handler[s] = "returning")
            ~> \/ ~Running
               \/ handler[s] = "gone" /\ watcher[s] = "none" /\ s \notin subscribers
=============================================================================
