----------------------------- MODULE Screenshot -----------------------------
(***************************************************************************)
(* One request for a screenshot: vmScreenshot of internal/api/server.go    *)
(* and Screenshot of internal/hypervisor/libvirt.go.                       *)
(*                                                                         *)
(* Three goroutines take part.  The handler copies the image from an       *)
(* io.Pipe to the client.  The receiver runs stream.RecvAll, whose         *)
(* callback writes each chunk to the pipe.  The supervisor waits for the   *)
(* receiver or for the request's context, ends the stream, closes the      *)
(* write end of the pipe and frees libvirt's handles.  A write to the pipe *)
(* blocks until the chunk is read or the read end is closed.               *)
(***************************************************************************)
EXTENDS Integers

CONSTANT
    Chunks      \* number of chunks of the image

ASSUME ScreenshotAssumption == Chunks \in Nat

VARIABLES
    handler,    \* where the handler is
    status,     \* status written to the client: "none", "200", "404", "503"
    got,        \* chunks the handler has read from the pipe
    end,        \* how the handler's copy ended: "none", "eof", "error"
    ctx,        \* the request's context is done
    receiver,   \* "none", "receiving", "writing", "ended"
    done,       \* the done channel: "empty", "ok", "failed"
    supervisor, \* where the supervisor is
    verdict,    \* what CloseWithError will be given: "eof" or "error"
    reader,     \* the read end of the pipe: "open" or "closed"
    writer,     \* the write end of the pipe: "open", "eof" or "error"
    left,       \* chunks libvirt has still to send
    flow,       \* the libvirt stream: "open", "aborted" or "finished"
    streamRefs, \* handles held on the stream
    domainRefs, \* handles held on the domain
    failed      \* libvirt has returned an error in this request

handlerVars == <<handler, status, got, end, reader>>
supervisorVars == <<supervisor, verdict, writer>>
libvirtVars == <<left, flow, streamRefs, domainRefs, failed>>
screenshotVars == <<handlerVars, ctx, receiver, done, supervisorVars, libvirtVars>>

ScreenshotInit ==
    /\ handler = "lookup" /\ status = "none" /\ got = 0 /\ end = "none"
    /\ ctx = FALSE
    /\ receiver = "none" /\ done = "empty"
    /\ supervisor = "none" /\ verdict = "error"
    /\ reader = "open" /\ writer = "open"
    /\ left = Chunks /\ flow = "open" /\ failed = FALSE
    /\ streamRefs = 0 /\ domainRefs = 0

-----------------------------------------------------------------------------
(***************************************************************************)
(* The handler.                                                            *)
(***************************************************************************)

Answers(code) == handler' = "returned" /\ status' = code

Lookup ==
    /\ handler = "lookup"
    /\ \/ handler' = "newStream" /\ domainRefs' = domainRefs + 1 /\ UNCHANGED <<status, failed>>
       \/ Answers("404") /\ UNCHANGED <<domainRefs, failed>>
       \/ Answers("503") /\ failed' = TRUE /\ UNCHANGED domainRefs
    /\ UNCHANGED <<got, end, reader, ctx, receiver, done, supervisorVars, left,
                   flow, streamRefs>>

(* Mutant of NewStream: its failure does not free the domain.              *)
NewStreamLeaks ==
    /\ handler = "newStream"
    /\ \/ /\ handler' = "capture" /\ streamRefs' = streamRefs + 1
          /\ UNCHANGED <<status, domainRefs, failed>>
       \/ /\ Answers("503") /\ failed' = TRUE
          /\ UNCHANGED <<streamRefs, domainRefs>>
    /\ UNCHANGED <<got, end, reader, ctx, receiver, done, supervisorVars, left, flow>>

(* NewStream; its failure frees the domain.                                *)
NewStream ==
    /\ handler = "newStream"
    /\ \/ /\ handler' = "capture" /\ streamRefs' = streamRefs + 1
          /\ UNCHANGED <<status, domainRefs, failed>>
       \/ /\ Answers("503") /\ domainRefs' = domainRefs - 1 /\ failed' = TRUE
          /\ UNCHANGED streamRefs
    /\ UNCHANGED <<got, end, reader, ctx, receiver, done, supervisorVars, left, flow>>

(* domain.Screenshot; its failure frees both handles.  Otherwise the       *)
(* goroutines start and the handler writes the header.                     *)
Capture ==
    /\ handler = "capture"
    /\ \/ /\ handler' = "reading" /\ status' = "200"
          /\ receiver' = "receiving" /\ supervisor' = "selecting"
          /\ UNCHANGED <<streamRefs, domainRefs, failed>>
       \/ /\ Answers("503") /\ failed' = TRUE
          /\ streamRefs' = streamRefs - 1 /\ domainRefs' = domainRefs - 1
          /\ UNCHANGED <<receiver, supervisor>>
    /\ UNCHANGED <<got, end, reader, ctx, done, verdict, writer, left, flow>>

(* io.Copy: a chunk passes through the pipe, and the receiver's write      *)
(* returns ...                                                             *)
ReadChunk ==
    /\ handler = "reading" /\ receiver = "writing"
    /\ handler' = "sending" /\ receiver' = "receiving"
    /\ got' = got + 1
    /\ UNCHANGED <<status, end, reader, ctx, done, supervisorVars, libvirtVars>>

(* ... or the write end is closed, with or without an error.               *)
ReadEnd ==
    /\ handler = "reading" /\ writer # "open"
    /\ handler' = "closing" /\ end' = writer
    /\ UNCHANGED <<status, got, reader, ctx, receiver, done, supervisorVars, libvirtVars>>

(* The write to the client: it succeeds, or fails because the client is    *)
(* gone or the server's write timeout has passed.                          *)
Send ==
    /\ handler = "sending"
    /\ \/ handler' = "reading" /\ UNCHANGED end
       \/ handler' = "closing" /\ end' = "error"
    /\ UNCHANGED <<status, got, reader, ctx, receiver, done, supervisorVars, libvirtVars>>

(* Mutant of CloseReader: the deferred Data.Close() is missing.            *)
CloseReaderForgotten ==
    /\ handler = "closing"
    /\ handler' = "returned"
    /\ UNCHANGED <<status, got, end, reader, ctx, receiver, done, supervisorVars, libvirtVars>>

(* The deferred Data.Close(), and the handler returns.                     *)
CloseReader ==
    /\ handler = "closing"
    /\ handler' = "returned" /\ reader' = "closed"
    /\ UNCHANGED <<status, got, end, ctx, receiver, done, supervisorVars, libvirtVars>>

(* net/http ends the context when the client goes away, at any time, and   *)
(* when the handler has returned.                                          *)
ContextEnds ==
    /\ ~ctx
    /\ ctx' = TRUE
    /\ UNCHANGED <<handlerVars, receiver, done, supervisorVars, libvirtVars>>

-----------------------------------------------------------------------------
(***************************************************************************)
(* The receiver, stream.RecvAll.  It aborts the stream when a receive or   *)
(* the callback fails (external).                                          *)
(***************************************************************************)

Receives ==
    /\ receiver = "receiving" /\ flow = "open" /\ left > 0
    /\ left' = left - 1
    /\ receiver' = "writing"
    /\ UNCHANGED <<handlerVars, ctx, done, supervisorVars, flow, streamRefs,
                   domainRefs, failed>>

ReceivesEnd ==
    /\ receiver = "receiving" /\ flow = "open" /\ left = 0
    /\ receiver' = "ended" /\ done' = "ok"
    /\ UNCHANGED <<handlerVars, ctx, supervisorVars, libvirtVars>>

RecvAllFails == receiver' = "ended" /\ done' = "failed" /\ flow' = "aborted"

(* A receive on an aborted stream fails; one on an open stream may.        *)
ReceiveFails ==
    /\ receiver = "receiving"
    /\ RecvAllFails
    /\ failed' = (failed \/ flow = "open")
    /\ UNCHANGED <<handlerVars, ctx, supervisorVars, left, streamRefs, domainRefs>>

(* The callback's write to a pipe whose read end is closed.                *)
PipeClosed ==
    /\ receiver = "writing" /\ reader = "closed"
    /\ RecvAllFails
    /\ UNCHANGED <<handlerVars, ctx, supervisorVars, left, streamRefs, domainRefs, failed>>

-----------------------------------------------------------------------------
(***************************************************************************)
(* The supervisor.                                                         *)
(***************************************************************************)

(* select, case err := <-done.                                             *)
Completed ==
    /\ supervisor = "selecting" /\ done # "empty"
    /\ supervisor' = IF done = "ok" THEN "finish" ELSE "abort"
    /\ done' = "empty"
    /\ UNCHANGED <<handlerVars, ctx, receiver, verdict, writer, libvirtVars>>

(* stream.Finish, whose error is passed on to the reader.                  *)
Finish ==
    /\ supervisor = "finish"
    /\ supervisor' = "closeWriter" /\ flow' = "finished"
    /\ \/ verdict' = "eof" /\ UNCHANGED failed
       \/ verdict' = "error" /\ failed' = TRUE
    /\ UNCHANGED <<handlerVars, ctx, receiver, done, writer, left, streamRefs, domainRefs>>

(* stream.Abort after RecvAll failed.                                      *)
Abort ==
    /\ supervisor = "abort"
    /\ supervisor' = "closeWriter" /\ flow' = "aborted"
    /\ UNCHANGED <<handlerVars, ctx, receiver, done, verdict, writer, left,
                   streamRefs, domainRefs, failed>>

(* Mutant of ContextDone: the supervisor does not wait for the receiver.   *)
ContextDoneHurried ==
    /\ supervisor = "selecting" /\ ctx
    /\ supervisor' = "closeWriter" /\ flow' = "aborted"
    /\ UNCHANGED <<handlerVars, ctx, receiver, done, verdict, writer, left,
                   streamRefs, domainRefs, failed>>

(* select, case <-ctx.Done(): stream.Abort.                                *)
ContextDone ==
    /\ supervisor = "selecting" /\ ctx
    /\ supervisor' = "drain" /\ flow' = "aborted"
    /\ UNCHANGED <<handlerVars, ctx, receiver, done, verdict, writer, left,
                   streamRefs, domainRefs, failed>>

(* Mutant of Drain: the result of RecvAll decides, not the context.        *)
DrainTrusts ==
    /\ supervisor = "drain" /\ done # "empty"
    /\ supervisor' = "closeWriter" /\ done' = "empty"
    /\ verdict' = "eof"
    /\ UNCHANGED <<handlerVars, ctx, receiver, writer, libvirtVars>>

(* <-done                                                                  *)
Drain ==
    /\ supervisor = "drain" /\ done # "empty"
    /\ supervisor' = "closeWriter" /\ done' = "empty"
    /\ UNCHANGED <<handlerVars, ctx, receiver, verdict, writer, libvirtVars>>

(* writer.CloseWithError.                                                  *)
CloseWriter ==
    /\ supervisor = "closeWriter"
    /\ supervisor' = "free" /\ writer' = verdict
    /\ UNCHANGED <<handlerVars, ctx, receiver, done, verdict, libvirtVars>>

(* The deferred domain.Free and stream.Free.                               *)
FreeHandles ==
    /\ supervisor = "free"
    /\ supervisor' = "ended"
    /\ domainRefs' = domainRefs - 1 /\ streamRefs' = streamRefs - 1
    /\ UNCHANGED <<handlerVars, ctx, receiver, done, verdict, writer, left, flow, failed>>

-----------------------------------------------------------------------------

HandlerSteps == \/ Lookup \/ NewStream \/ Capture
                \/ ReadChunk \/ ReadEnd \/ Send \/ CloseReader
SupervisorSteps == \/ Completed \/ Finish \/ Abort \/ ContextDone \/ Drain
                   \/ CloseWriter \/ FreeHandles
ReceiverSteps == Receives \/ ReceivesEnd \/ ReceiveFails \/ PipeClosed

ScreenshotNext == HandlerSteps \/ SupervisorSteps \/ ReceiverSteps \/ ContextEnds

ScreenshotSpec == ScreenshotInit /\ [][ScreenshotNext]_screenshotVars

(* Goroutines that can run do run, libvirt's calls return, and the write   *)
(* timeout ends every write to the client.  But libvirt may send nothing   *)
(* for ever: a receive is certain to return only on an aborted stream.     *)
FairScreenshotSpec ==
    /\ ScreenshotSpec
    /\ WF_screenshotVars(HandlerSteps)
    /\ WF_screenshotVars(SupervisorSteps)
    /\ WF_screenshotVars(PipeClosed)
    /\ WF_screenshotVars(flow = "aborted" /\ ReceiveFails)
    /\ WF_screenshotVars(handler = "returned" /\ ContextEnds)

-----------------------------------------------------------------------------
(***************************************************************************)
(* Properties.                                                             *)
(***************************************************************************)

(* Whichever of client, libvirt and context ends the transfer first,       *)
(* RecvAll never runs on a stream that was freed, and no handle is freed   *)
(* twice.                                                                  *)
NoUseAfterFree ==
    /\ receiver \in {"receiving", "writing"} => streamRefs = 1
    /\ streamRefs \in 0 .. 1 /\ domainRefs \in 0 .. 1

(* The handler's read of the pipe ends cleanly only when it has read every *)
(* chunk and libvirt has confirmed the transfer: an aborted, failed or     *)
(* cancelled one always shows as an error of io.Copy.  vmScreenshot only   *)
(* logs that error and returns, so that the client gets a truncated body   *)
(* that ends normally: the promise is to the handler, not to the client.   *)
EofMeansWhole == end = "eof" => got = Chunks /\ ~failed

(* When a request is over, however it ended, both handles are freed.       *)
Over == handler = "returned" /\ supervisor \in {"none", "ended"}
HandlesFreed == Over => streamRefs = 0 /\ domainRefs = 0 /\ receiver \in {"none", "ended"}

(* Once the client is gone or the handler has returned, no goroutine stays *)
(* behind: not the receiver in a write nobody reads, not the supervisor    *)
(* waiting for it, not the handler waiting for data.                       *)
NobodyStaysBehind == ctx ~> Over
=============================================================================
