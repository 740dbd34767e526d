-------------------------- MODULE ScreenshotProofs --------------------------
(***************************************************************************)
(* The safety of a screenshot request, for images of every length.         *)
(***************************************************************************)
EXTENDS Screenshot, TLAPS

(* Where the goroutines and the ends of the pipe can be.                   *)
ShotTypes ==
    /\ handler \in {"lookup", "newStream", "capture", "reading", "sending", "closing",
                    "returned"}
    /\ receiver \in {"none", "receiving", "writing", "ended"}
    /\ supervisor \in {"none", "selecting", "finish", "abort", "drain", "closeWriter",
                       "free", "ended"}
    /\ done \in {"empty", "ok", "failed"}
    /\ verdict \in {"eof", "error"} /\ writer \in {"open", "eof", "error"}
    /\ failed \in BOOLEAN
    /\ got \in Nat /\ left \in Nat

(* The handles belong to the handler until the goroutines start, and to    *)
(* the supervisor from then on.                                            *)
Owned ==
    /\ supervisor = "none" =>
         /\ handler \in {"lookup", "newStream", "capture", "returned"}
         /\ streamRefs = (IF handler = "capture" THEN 1 ELSE 0)
         /\ domainRefs = (IF handler \in {"newStream", "capture"} THEN 1 ELSE 0)
    /\ supervisor # "none" =>
         /\ handler \in {"reading", "sending", "closing", "returned"}
         /\ streamRefs = (IF supervisor = "ended" THEN 0 ELSE 1)
         /\ domainRefs = (IF supervisor = "ended" THEN 0 ELSE 1)

(* The receiver starts with the supervisor, and its one result is in the   *)
(* channel until the supervisor, which waits for it, takes it.             *)
Supervised ==
    /\ supervisor = "none" <=> receiver = "none"
    /\ supervisor \in {"none", "selecting", "drain"} =>
         (done = "empty" <=> receiver # "ended")
    /\ supervisor \notin {"none", "selecting", "drain"} => done = "empty" /\ receiver = "ended"

(* What the client has read, what is on its way and what libvirt has still *)
(* to send make up the image, until an error or the client cuts it short.  *)
Whole == got = Chunks /\ ~failed
Accounted ==
    /\ receiver = "none" => got = 0 /\ left = Chunks /\ (handler # "returned" => ~failed)
    /\ receiver = "receiving" => got + left = Chunks /\ ~failed
    /\ receiver = "writing" => got + left + 1 = Chunks /\ ~failed
    /\ done = "ok" \/ supervisor = "finish" \/ verdict = "eof" => Whole

(* Only the supervisor closes the write end, with its verdict, and only    *)
(* that ends the handler's copy cleanly.                                   *)
Judged ==
    /\ verdict = "eof" => supervisor \in {"closeWriter", "free", "ended"}
    /\ writer # "open" => writer = verdict /\ supervisor \in {"free", "ended"}
    /\ end = "eof" => writer = "eof"

ShotIInv == ShotTypes /\ Owned /\ Supervised /\ Accounted /\ Judged

(* A request begins in the invariant.                                      *)
LEMMA ShotInit == ScreenshotInit => ShotIInv
<1> SUFFICES ASSUME ScreenshotInit PROVE ShotIInv
  OBVIOUS
<1>1. ShotTypes BY ScreenshotAssumption DEF ScreenshotInit, ShotTypes
<1>2. Owned BY DEF ScreenshotInit, Owned
<1>3. Supervised BY DEF ScreenshotInit, Supervised
<1>4. Accounted BY DEF ScreenshotInit, Accounted
<1>5. Judged BY DEF ScreenshotInit, Judged
<1> QED BY <1>1, <1>2, <1>3, <1>4, <1>5 DEF ShotIInv

(* The handler's steps keep the invariant.                                 *)
LEMMA HandlerKeeps == ShotIInv /\ HandlerSteps => ShotIInv'
<1> SUFFICES ASSUME ShotIInv, HandlerSteps PROVE ShotIInv'
  OBVIOUS
<1> USE ScreenshotAssumption
        DEF ShotIInv, ShotTypes, Owned, Supervised, Accounted, Whole, Judged,
            supervisorVars, libvirtVars
<1>1. CASE Lookup
  <2>1. ShotTypes' BY <1>1 DEF Lookup, Answers
  <2>2. Owned' BY <1>1 DEF Lookup, Answers
  <2>3. Supervised' BY <1>1 DEF Lookup, Answers
  <2>4. Accounted' BY <1>1 DEF Lookup, Answers
  <2>5. Judged' BY <1>1 DEF Lookup, Answers
  <2> QED BY <2>1, <2>2, <2>3, <2>4, <2>5
<1>2. CASE NewStream
  <2>1. ShotTypes' BY <1>2 DEF NewStream, Answers
  <2>2. Owned' BY <1>2 DEF NewStream, Answers
  <2>3. Supervised' BY <1>2 DEF NewStream, Answers
  <2>4. Accounted' BY <1>2 DEF NewStream, Answers
  <2>5. Judged' BY <1>2 DEF NewStream, Answers
  <2> QED BY <2>1, <2>2, <2>3, <2>4, <2>5
<1>3. CASE Capture
  <2>1. ShotTypes' BY <1>3 DEF Capture, Answers
  <2>2. Owned' BY <1>3 DEF Capture, Answers
  <2>3. Supervised' BY <1>3 DEF Capture, Answers
  <2>4. Accounted' BY <1>3 DEF Capture, Answers
  <2>5. Judged' BY <1>3 DEF Capture, Answers
  <2> QED BY <2>1, <2>2, <2>3, <2>4, <2>5
<1>4. CASE ReadChunk BY <1>4 DEF ReadChunk
<1>5. CASE ReadEnd BY <1>5 DEF ReadEnd
<1>6. CASE Send BY <1>6 DEF Send
<1>7. CASE CloseReader BY <1>7 DEF CloseReader
<1> QED BY <1>1, <1>2, <1>3, <1>4, <1>5, <1>6, <1>7 DEF HandlerSteps

(* The supervisor's steps keep the invariant.                              *)
LEMMA SupervisorKeeps == ShotIInv /\ SupervisorSteps => ShotIInv'
<1> SUFFICES ASSUME ShotIInv, SupervisorSteps PROVE ShotIInv'
  OBVIOUS
<1> USE ScreenshotAssumption
        DEF ShotIInv, ShotTypes, Owned, Supervised, Accounted, Whole, Judged,
            handlerVars, libvirtVars
<1>1. CASE Completed BY <1>1 DEF Completed
<1>2. CASE Finish
  <2>1. ShotTypes' BY <1>2 DEF Finish
  <2>2. Owned' BY <1>2 DEF Finish
  <2>3. Supervised' BY <1>2 DEF Finish
  <2>4. Accounted' BY <1>2 DEF Finish
  <2>5. Judged' BY <1>2 DEF Finish
  <2> QED BY <2>1, <2>2, <2>3, <2>4, <2>5
<1>3. CASE Abort BY <1>3 DEF Abort
<1>4. CASE ContextDone BY <1>4 DEF ContextDone
<1>5. CASE Drain BY <1>5 DEF Drain
<1>6. CASE CloseWriter BY <1>6 DEF CloseWriter
<1>7. CASE FreeHandles BY <1>7 DEF FreeHandles
<1> QED BY <1>1, <1>2, <1>3, <1>4, <1>5, <1>6, <1>7 DEF SupervisorSteps

(* The receiver's steps, and the end of the context, keep the invariant.   *)
LEMMA ReceiverKeeps == ShotIInv /\ (ReceiverSteps \/ ContextEnds) => ShotIInv'
<1> SUFFICES ASSUME ShotIInv, ReceiverSteps \/ ContextEnds PROVE ShotIInv'
  OBVIOUS
<1> USE ScreenshotAssumption
        DEF ShotIInv, ShotTypes, Owned, Supervised, Accounted, Whole, Judged,
            handlerVars, supervisorVars, libvirtVars
<1>1. CASE Receives BY <1>1 DEF Receives
<1>2. CASE ReceivesEnd BY <1>2 DEF ReceivesEnd
<1>3. CASE ReceiveFails BY <1>3 DEF ReceiveFails, RecvAllFails
<1>4. CASE PipeClosed BY <1>4 DEF PipeClosed, RecvAllFails
<1>5. CASE ContextEnds BY <1>5 DEF ContextEnds
<1> QED BY <1>1, <1>2, <1>3, <1>4, <1>5 DEF ReceiverSteps

(* The invariant holds in every state of a request.                        *)
THEOREM ShotInvariant == ScreenshotSpec => []ShotIInv
<1>1. ShotIInv /\ [ScreenshotNext]_screenshotVars => ShotIInv'
  <2> SUFFICES ASSUME ShotIInv, [ScreenshotNext]_screenshotVars PROVE ShotIInv'
    OBVIOUS
  <2>1. CASE ScreenshotNext
    BY <2>1, HandlerKeeps, SupervisorKeeps, ReceiverKeeps DEF ScreenshotNext
  <2>2. CASE UNCHANGED screenshotVars
    BY <2>2 DEF screenshotVars, handlerVars, supervisorVars, libvirtVars, ShotIInv,
                ShotTypes, Owned, Supervised, Accounted, Whole, Judged
  <2> QED BY <2>1, <2>2
<1> QED BY <1>1, ShotInit, PTL DEF ScreenshotSpec

(* Screenshot frees the stream only after RecvAll has returned, and every  *)
(* handle once, whoever ends the transfer.                                 *)
THEOREM FreedAfterUse == ScreenshotSpec => []NoUseAfterFree
<1>1. ShotIInv => NoUseAfterFree
  BY DEF ShotIInv, ShotTypes, Owned, Supervised, NoUseAfterFree
<1> QED BY <1>1, ShotInvariant, PTL

(* vmScreenshot's io.Copy reads a clean end of the pipe only after the     *)
(* whole image; of any other end its log has a line, the client nothing.   *)
THEOREM CleanEndIsWhole == ScreenshotSpec => []EofMeansWhole
<1>1. ShotIInv => EofMeansWhole
  BY DEF ShotIInv, ShotTypes, Judged, Accounted, Whole, EofMeansWhole
<1> QED BY <1>1, ShotInvariant, PTL

(* A request that is over has freed its handles and ended its receiver.    *)
THEOREM NoHandleLeaks == ScreenshotSpec => []HandlesFreed
<1>1. ShotIInv => HandlesFreed
  BY DEF ShotIInv, ShotTypes, Owned, Supervised, HandlesFreed, Over
<1> QED BY <1>1, ShotInvariant, PTL
=============================================================================
