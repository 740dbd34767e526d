---------------------------- MODULE EventBroker ----------------------------
(***************************************************************************)
(* The lifecycle event broker (internal/hypervisor/events.go) together     *)
(* with the server-sent-events handler that is its only client             *)
(* (internal/api/server.go, events).                                       *)
(*                                                                         *)
(* One element of Subs is one call of subscribe: its channel, the watcher  *)
(* goroutine it starts, and the handler goroutine that made the call.  An  *)
(* event is its ID: publish numbers the events 1, 2, 3, ... and nothing    *)
(* the broker does depends on what else an event carries.                  *)
(*                                                                         *)
(* b.mu is explicit only while subscribe replays, because that is the only *)
(* critical section that sends on a channel with a BLOCKING send; every    *)
(* other critical section is one atomic step that needs mu to be free.     *)
(***************************************************************************)
EXTENDS Naturals, Sequences, FiniteSets

CONSTANTS
    Subs,           \* subscriptions, one per request to the events route
    Generations,    \* generation strings a cursor can carry
    EmptyCursor,    \* no Last-Event-ID header
    Garbled,        \* a sequence part that ParseUint rejects
    Nobody,         \* mu is free
    HistoryLimit,   \* 256 in the code
    Slack,          \* 33 in the code: channel capacity beyond the history
    MaxEvents       \* bound: events published in a behaviour

ASSUME BrokerAssumption ==
    /\ HistoryLimit \in Nat \ {0}
    /\ Slack \in Nat \ {0}
    /\ MaxEvents \in Nat
    /\ Nobody \notin Subs
    /\ EmptyCursor \notin [generation : Generations, sequence : Nat \cup {Garbled}]
    /\ Garbled \notin Nat

VARIABLES
    generation,     \* b.generation
    nextID,         \* b.nextID: the ID of the newest event
    history,        \* b.history, oldest first
    subscribers,    \* b.subscribers
    closed,         \* b.closed
    mu,             \* the subscription that holds b.mu in its replay, or Nobody
    scan,           \* scan[s]: index in history the replay loop looks at next
    chan,           \* chan[s]: "none", "open" or "closed"
    cap,            \* cap[s]: capacity of the channel
    buf,            \* buf[s]: what the channel buffers
    pos,            \* pos[s]: ID of the last item taken; at first the cursor's
    born,           \* born[s]: nextID when s subscribed
    ctx,            \* ctx[s]: the request context is done
    once,           \* once[s]: sync.Once of cancel: "fresh", "running", "done"
    done,           \* done[s]: the done channel is closed
    watcher,        \* watcher[s]: "none", "waiting", "cancelling"
    handler,        \* handler[s]: where the events handler is
    panicked        \* a send on, or a close of, a closed channel happened

brokerVars == <<generation, nextID, history, subscribers, closed, mu>>
chanVars == <<chan, cap, buf>>
cancelVars == <<once, done, watcher>>
vars == <<generation, nextID, history, subscribers, closed, mu, scan, chan,
          cap, buf, pos, born, ctx, once, done, watcher, handler, panicked>>

-----------------------------------------------------------------------------

Item == [id : Nat, reset : BOOLEAN]
Event(id) == [id |-> id, reset |-> FALSE]
StreamReset(id) == [id |-> id, reset |-> TRUE]

(* The Last-Event-ID values a client can send: nothing, a cursor of this   *)
(* or of an earlier process, a sequence the broker never reached, garbage. *)
Cursors == {EmptyCursor} \cup
           [generation : Generations, sequence : 0 .. (MaxEvents + 1) \cup {Garbled}]

(* Mutant of Trim: the history is never cut.                               *)
TrimNever(h) == h

(* publish, the trim to the newest HistoryLimit events.                    *)
Trim(h) == IF Len(h) > HistoryLimit
           THEN SubSeq(h, Len(h) - HistoryLimit + 1, Len(h))
           ELSE h

(* Mutants of ChannelCapacity: no room is made for the replay; or the      *)
(* channel has room for one event.                                         *)
FixedCapacity == Slack
SingleCapacity == 1

(* subscribe, the capacity of the new channel.                             *)
ChannelCapacity == Len(history) + Slack

(* Mutant of Rejected: a cursor of an earlier process is taken for one of  *)
(* this process.                                                           *)
RejectedByNumber(c) == c # EmptyCursor /\ c.sequence \notin 0 .. nextID

(* afterCursor: the sequence to resume after, and whether it is unusable.  *)
Rejected(c) == /\ c # EmptyCursor
               /\ \/ c.generation # generation
                  \/ c.sequence \notin 0 .. nextID
After(c) == IF c = EmptyCursor \/ Rejected(c) THEN 0 ELSE c.sequence

(* Mutants of Evicted: the check is missing, or is off by one.             *)
EvictedNever(after) == FALSE
EvictedEarly(after) == Len(history) > 0 /\ after <= history[1] - 1

(* subscribe: the oldest event kept is newer than the one the cursor needs *)
Evicted(after) == Len(history) > 0 /\ after < history[1] - 1
Unreplayable(c) == Rejected(c) \/ Evicted(After(c))

Init ==
    /\ generation \in Generations
    /\ nextID = 0
    /\ history = <<>>
    /\ subscribers = {}
    /\ closed = FALSE
    /\ mu = Nobody
    /\ scan = [s \in Subs |-> 1]
    /\ chan = [s \in Subs |-> "none"]
    /\ cap = [s \in Subs |-> 0]
    /\ buf = [s \in Subs |-> <<>>]
    /\ pos = [s \in Subs |-> 0]
    /\ born = [s \in Subs |-> 0]
    /\ ctx = [s \in Subs |-> FALSE]
    /\ once = [s \in Subs |-> "fresh"]
    /\ done = [s \in Subs |-> FALSE]
    /\ watcher = [s \in Subs |-> "none"]
    /\ handler = [s \in Subs |-> "idle"]
    /\ panicked = FALSE

-----------------------------------------------------------------------------
(***************************************************************************)
(* The broker.                                                             *)
(***************************************************************************)

Full(s) == Len(buf[s]) >= cap[s]

(* Sending on or closing a channel panics when the channel is closed.      *)
TouchesClosed(S) == \E s \in S : chan[s] # "open"

(* The subscribers publish drops: those whose channel has no room.         *)
Dropped == {s \in subscribers : Full(s)}

(* publish.  On a closed broker it returns at once and changes nothing.    *)
Publish ==
    /\ mu = Nobody
    /\ ~closed
    /\ nextID < MaxEvents
    /\ nextID' = nextID + 1
    /\ history' = Trim(Append(history, nextID + 1))
    /\ subscribers' = subscribers \ Dropped
    /\ chan' = [s \in Subs |-> IF s \in Dropped THEN "closed" ELSE chan[s]]
    /\ buf' = [s \in Subs |-> IF s \in subscribers \ Dropped
                                THEN Append(buf[s], Event(nextID + 1))
                                ELSE buf[s]]
    /\ panicked' = (panicked \/ TouchesClosed(subscribers))
    /\ UNCHANGED <<generation, closed, mu, scan, cap, pos, born, ctx,
                   cancelVars, handler>>

(* subscribe on a closed broker: an already closed channel and a cancel    *)
(* function that does nothing; no watcher is started.                      *)
SubscribeClosed(s) ==
    /\ handler[s] = "idle"
    /\ mu = Nobody
    /\ closed
    /\ chan' = [chan EXCEPT ![s] = "closed"]
    /\ cap' = [cap EXCEPT ![s] = ChannelCapacity]
    /\ born' = [born EXCEPT ![s] = nextID]
    /\ once' = [once EXCEPT ![s] = "done"]
    /\ handler' = [handler EXCEPT ![s] = "streaming"]
    /\ UNCHANGED <<brokerVars, scan, buf, pos, ctx, done, watcher, panicked>>

(* Mutant of SubscribeLock: whether the broker is closed is not looked at. *)
SubscribeLockUnchecked(s, c) ==
    /\ handler[s] = "idle"
    /\ mu = Nobody
    /\ mu' = s
    /\ chan' = [chan EXCEPT ![s] = "open"]
    /\ cap' = [cap EXCEPT ![s] = ChannelCapacity]
    /\ pos' = [pos EXCEPT ![s] = After(c)]
    /\ born' = [born EXCEPT ![s] = nextID]
    /\ IF Unreplayable(c)
       THEN /\ buf' = [buf EXCEPT ![s] = <<StreamReset(nextID)>>]
            /\ scan' = [scan EXCEPT ![s] = Len(history) + 1]
       ELSE UNCHANGED <<buf, scan>>
    /\ handler' = [handler EXCEPT ![s] = "replaying"]
    /\ UNCHANGED <<generation, nextID, history, subscribers, closed, ctx,
                   cancelVars, panicked>>

(* subscribe up to its replay loop: lock, make the channel, decide whether *)
(* the cursor can be replayed, and send the stream reset if it cannot.     *)
SubscribeLock(s, c) ==
    /\ handler[s] = "idle"
    /\ mu = Nobody
    /\ ~closed
    /\ mu' = s
    /\ chan' = [chan EXCEPT ![s] = "open"]
    /\ cap' = [cap EXCEPT ![s] = ChannelCapacity]
    /\ pos' = [pos EXCEPT ![s] = After(c)]
    /\ born' = [born EXCEPT ![s] = nextID]
    /\ IF Unreplayable(c)
       THEN /\ buf' = [buf EXCEPT ![s] = <<StreamReset(nextID)>>]
            /\ scan' = [scan EXCEPT ![s] = Len(history) + 1]
       ELSE UNCHANGED <<buf, scan>>
    /\ handler' = [handler EXCEPT ![s] = "replaying"]
    /\ UNCHANGED <<generation, nextID, history, subscribers, closed, ctx,
                   cancelVars, panicked>>

(* Mutant of MustReplay: the cursor's own event is sent again.             *)
MustReplayAgain(s) == history[scan[s]] >= pos[s]

(* One turn of subscribe's replay loop.  The send blocks, with mu held,    *)
(* while the channel is full.                                              *)
MustReplay(s) == history[scan[s]] > pos[s]
ReplayOver(s) == scan[s] > Len(history)
Replay(s) ==
    /\ handler[s] = "replaying"
    /\ ~ReplayOver(s)
    /\ MustReplay(s) => ~Full(s)
    /\ buf' = IF MustReplay(s)
              THEN [buf EXCEPT ![s] = Append(@, Event(history[scan[s]]))]
              ELSE buf
    /\ scan' = [scan EXCEPT ![s] = @ + 1]
    /\ UNCHANGED <<brokerVars, chan, cap, pos, born, ctx, cancelVars, handler,
                   panicked>>

(* The end of subscribe: register the channel, unlock, start the watcher.  *)
Register(s) ==
    /\ handler[s] = "replaying"
    /\ ReplayOver(s)
    /\ subscribers' = subscribers \cup {s}
    /\ mu' = Nobody
    /\ watcher' = [watcher EXCEPT ![s] = "waiting"]
    /\ handler' = [handler EXCEPT ![s] = "streaming"]
    /\ UNCHANGED <<generation, nextID, history, closed, scan, chanVars, pos,
                   born, ctx, once, done, panicked>>

(* Mutants of OwnChannel: cancel closes the channel without looking        *)
(* whether publish or close already did; cancel never closes it.           *)
OwnChannelAlways(s) == {s}
OwnChannelNever(s) == {}

(* The channels cancel closes: its own, if it is still registered.         *)
OwnChannel(s) == {s} \cap subscribers

(* The critical section of cancel.                                         *)
Unsubscribe(s) ==
    /\ mu = Nobody
    /\ once' = [once EXCEPT ![s] = "done"]
    /\ subscribers' = subscribers \ {s}
    /\ chan' = [t \in Subs |-> IF t \in OwnChannel(s) THEN "closed" ELSE chan[t]]
    /\ panicked' = (panicked \/ TouchesClosed(OwnChannel(s)))
    /\ UNCHANGED <<generation, nextID, history, closed, mu, scan, cap, buf,
                   pos, born, ctx, done>>

(* Mutant of CloseDone: the done channel is left open.                     *)
CloseDoneForgotten(s) ==
    /\ once[s] = "fresh"
    /\ once' = [once EXCEPT ![s] = "running"]
    /\ UNCHANGED <<brokerVars, scan, chanVars, pos, born, ctx, done, panicked>>

(* The start of cancel, in once.Do: close(done).                           *)
CloseDone(s) ==
    /\ once[s] = "fresh"
    /\ once' = [once EXCEPT ![s] = "running"]
    /\ done' = [done EXCEPT ![s] = TRUE]
    /\ UNCHANGED <<brokerVars, scan, chanVars, pos, born, ctx, panicked>>

(* close.  A second call returns at once and changes nothing.              *)
Close ==
    /\ mu = Nobody
    /\ ~closed
    /\ closed' = TRUE
    /\ subscribers' = {}
    /\ chan' = [s \in Subs |-> IF s \in subscribers THEN "closed" ELSE chan[s]]
    /\ panicked' = (panicked \/ TouchesClosed(subscribers))
    /\ UNCHANGED <<generation, nextID, history, mu, scan, cap, buf, pos, born,
                   ctx, cancelVars, handler>>

-----------------------------------------------------------------------------
(***************************************************************************)
(* The watcher goroutine of a subscription: it waits for the request       *)
(* context or for done, and calls cancel in the first case only.           *)
(***************************************************************************)

WatcherCancels(s) ==
    /\ watcher[s] = "waiting"
    /\ ctx[s]
    /\ CloseDone(s)
    /\ watcher' = [watcher EXCEPT ![s] = "cancelling"]
    /\ UNCHANGED handler

(* The context is done but cancel has already run: once.Do returns.        *)
WatcherLate(s) ==
    /\ watcher[s] = "waiting"
    /\ ctx[s]
    /\ once[s] = "done"
    /\ watcher' = [watcher EXCEPT ![s] = "none"]
    /\ UNCHANGED <<brokerVars, scan, chanVars, pos, born, ctx, once, done,
                   handler, panicked>>

WatcherUnsubscribes(s) ==
    /\ watcher[s] = "cancelling"
    /\ Unsubscribe(s)
    /\ watcher' = [watcher EXCEPT ![s] = "none"]
    /\ UNCHANGED handler

WatcherReleased(s) ==
    /\ watcher[s] = "waiting"
    /\ done[s]
    /\ watcher' = [watcher EXCEPT ![s] = "none"]
    /\ UNCHANGED <<brokerVars, scan, chanVars, pos, born, ctx, once, done,
                   handler, panicked>>

-----------------------------------------------------------------------------
(***************************************************************************)
(* The events handler.  The three cases of its select are Receive or       *)
(* StreamClosed, Heartbeat, and ContextDone; each write may take for ever, *)
(* because the handler clears the connection's write deadline.             *)
(***************************************************************************)

HandlerMoves(s, from, to) ==
    /\ handler[s] = from
    /\ handler' = [handler EXCEPT ![s] = to]

Receive(s) ==
    /\ HandlerMoves(s, "streaming", "writing")
    /\ buf[s] # <<>>
    /\ pos' = [pos EXCEPT ![s] = Head(buf[s]).id]
    /\ buf' = [buf EXCEPT ![s] = Tail(@)]
    /\ UNCHANGED <<brokerVars, scan, chan, cap, born, ctx, cancelVars, panicked>>

Quiet == UNCHANGED <<brokerVars, scan, chanVars, pos, born, ctx, cancelVars,
                     panicked>>

StreamClosed(s) == /\ HandlerMoves(s, "streaming", "returning")
                   /\ chan[s] = "closed" /\ buf[s] = <<>>
                   /\ Quiet
Heartbeat(s)    == HandlerMoves(s, "streaming", "writing") /\ Quiet
ContextDone(s)  == HandlerMoves(s, "streaming", "returning") /\ ctx[s] /\ Quiet
Written(s)      == HandlerMoves(s, "writing", "streaming") /\ Quiet
WriteFails(s)   == HandlerMoves(s, "writing", "returning") /\ Quiet

(* The deferred subscription.Cancel(), as the first caller of once.Do ...  *)
HandlerCancels(s) ==
    /\ HandlerMoves(s, "returning", "cancelling")
    /\ CloseDone(s)
    /\ UNCHANGED watcher

HandlerUnsubscribes(s) ==
    /\ HandlerMoves(s, "cancelling", "gone")
    /\ Unsubscribe(s)
    /\ UNCHANGED watcher

(* ... or after another call of cancel has completed.  While another call  *)
(* is running, once.Do makes the handler wait.                             *)
HandlerReturns(s) ==
    /\ HandlerMoves(s, "returning", "gone")
    /\ once[s] = "done"
    /\ Quiet

(* The client goes away: net/http cancels the request's context.           *)
Disconnect(s) ==
    /\ handler[s] \notin {"idle", "gone"}
    /\ ~ctx[s]
    /\ ctx' = [ctx EXCEPT ![s] = TRUE]
    /\ UNCHANGED <<brokerVars, scan, chanVars, pos, born, cancelVars, handler,
                   panicked>>

-----------------------------------------------------------------------------

Watcher(s) == \/ WatcherCancels(s) \/ WatcherLate(s)
              \/ WatcherUnsubscribes(s) \/ WatcherReleased(s)

Handler(s) == \/ Replay(s) \/ Register(s)
              \/ Receive(s) \/ StreamClosed(s) \/ ContextDone(s)
              \/ HandlerCancels(s) \/ HandlerUnsubscribes(s) \/ HandlerReturns(s)

Next ==
    \/ Publish
    \/ Close
    \/ \E s \in Subs :
        \/ \E c \in Cursors : SubscribeLock(s, c)
        \/ SubscribeClosed(s)
        \/ Watcher(s)
        \/ Handler(s)
        \/ Heartbeat(s) \/ Written(s) \/ WriteFails(s)
        \/ Disconnect(s)

Spec == Init /\ [][Next]_vars

-----------------------------------------------------------------------------
(***************************************************************************)
(* Properties.                                                             *)
(***************************************************************************)

(* Every variable has its type; b.history never outgrows its limit and no  *)
(* channel buffers more than its capacity.                                 *)
TypeOK ==
    /\ generation \in Generations
    /\ nextID \in Nat
    /\ history \in Seq(Nat) /\ Len(history) <= HistoryLimit
    /\ subscribers \subseteq Subs
    /\ closed \in BOOLEAN
    /\ mu \in Subs \cup {Nobody}
    /\ scan \in [Subs -> Nat]
    /\ chan \in [Subs -> {"none", "open", "closed"}]
    /\ cap \in [Subs -> Nat]
    /\ buf \in [Subs -> Seq(Item)]
    /\ \A s \in Subs : Len(buf[s]) <= cap[s]
    /\ pos \in [Subs -> Nat]
    /\ born \in [Subs -> Nat]
    /\ ctx \in [Subs -> BOOLEAN]
    /\ once \in [Subs -> {"fresh", "running", "done"}]
    /\ done \in [Subs -> BOOLEAN]
    /\ watcher \in [Subs -> {"none", "waiting", "cancelling"}]
    /\ handler \in [Subs -> {"idle", "replaying", "streaming", "writing",
                             "returning", "cancelling", "gone"}]
    /\ panicked \in BOOLEAN

(* publish, cancel and close, in any order and with any of them racing,    *)
(* never send on a closed channel and never close one twice: either would  *)
(* panic and, in publish, take the whole process down.                     *)
NoPanic == ~panicked

(* subscribe's replay loop sends with b.mu held and must never find its    *)
(* channel full: nobody can receive from it yet, so that the broker, and   *)
(* with it every publish, would be stuck for ever.                         *)
ReplayNeverBlocks ==
    \A s \in Subs :
        (handler[s] = "replaying" /\ ~ReplayOver(s)) => ~Full(s)

(* What a subscription has queued continues, without a hole and without a  *)
(* duplicate, what its handler has already taken, unless it begins with a  *)
(* stream reset.                                                           *)
Previous(s, i) == IF i = 1 THEN pos[s] ELSE buf[s][i - 1].id
NoSilentGap ==
    \A s \in Subs : \A i \in 1 .. Len(buf[s]) :
        IF buf[s][i].reset THEN i = 1
                           ELSE buf[s][i].id = Previous(s, i) + 1

(* A registered subscription is complete: the last item queued for it, or  *)
(* the last one its handler took, is the newest event of the broker.       *)
Reached(s) == IF buf[s] = <<>> THEN pos[s] ELSE buf[s][Len(buf[s])].id
UpToDate == \A s \in subscribers : Reached(s) = nextID

(* A stream reset is sent exactly when something was lost: the cursor does *)
(* not name a point of this broker's sequence, or some event after it is   *)
(* no longer kept.  Neither a needless reset nor a missing one.            *)
NamesAPoint(c) == \/ c = EmptyCursor
                  \/ c.generation = generation /\ c.sequence \in 0 .. nextID
Kept == {history[i] : i \in 1 .. Len(history)}
ResetExactlyWhenLossy ==
    \A c \in Cursors :
        Unreplayable(c) <=>
            \/ ~NamesAPoint(c)
            \/ \E id \in (After(c) + 1) .. nextID : id \notin Kept

(* publish drops a subscriber only when at least Slack events were         *)
(* published since it subscribed: a replay, however long, or a stream      *)
(* reset never eats into the room kept for live events.                    *)
SlackHonoured ==
    [][\A s \in subscribers :
         (nextID' > nextID /\ s \notin subscribers') => nextID' - born[s] >= Slack]_vars

(* Once the broker is closed no stream is open or ever opened again, not   *)
(* by a request that subscribes, or replays, while close runs: no handler  *)
(* waits for an event that cannot come, and the server can shut down.      *)
ClosedBrokerHasNoStreams == closed => \A s \in Subs : chan[s] # "open"

(* A channel that is open belongs to a registered subscriber or to the     *)
(* subscribe call that is still replaying into it: every other way out     *)
(* has closed it, so that no handler listens to a channel nobody feeds.    *)
NoOrphanStream ==
    \A s \in Subs : chan[s] = "open" => (s \in subscribers \/ mu = s)

-----------------------------------------------------------------------------
(***************************************************************************)
(* The broker and its handlers implement LifecycleFeed.  What a client has *)
(* been given is what its handler has taken from the channel.              *)
(***************************************************************************)

FeedState(s) ==
    IF handler[s] = "idle" THEN "unopened"
    ELSE IF handler[s] \in {"replaying", "streaming", "writing"} THEN "live"
    ELSE "ended"
FeedResync(s) == buf[s] # <<>> /\ Head(buf[s]).reset
FeedAt(s) == IF FeedResync(s) THEN Head(buf[s]).id ELSE pos[s]

Feed == INSTANCE LifecycleFeed WITH
    Streams <- Subs,
    newest <- nextID,
    state <- [s \in Subs |-> FeedState(s)],
    at <- [s \in Subs |-> FeedAt(s)],
    resync <- [s \in Subs |-> FeedResync(s)]

(* Whatever drops, closes, cancels and replays do, each client sees what   *)
(* LifecycleFeed promises: after its cursor or after a first reset, every  *)
(* event once and in order, until the stream ends.                         *)
ImplementsFeed == Feed!Spec
=============================================================================
