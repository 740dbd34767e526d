# A TLA+ model of libvirt-rest-api

libvirt-rest-api is an HTTP service in front of one libvirt connection: it lists
and controls domains, takes snapshots and screenshots, and streams lifecycle
events.  This directory holds TLA+ modules translated from its Go source, the TLC
configurations that check them on small instances, and proofs, checked by TLAPS,
that hold for every instance.  `PROJECT.json` maps every definition to the lines it models.

## Inventory

| Component | State | Operations | What is hard | What makes it correct |
| --- | --- | --- | --- | --- |
| Event broker (`hypervisor/events.go`) | `nextID`, `history` (at most 256), `subscribers`, `closed`, a random `generation` | `publish`, `subscribe` with replay, `cancel`, `close`, a watcher goroutine per subscription | three places that close the same channel; a blocking send under `mu`; eviction during replay; cursors of an earlier process | no panic, no deadlock, no silent gap, a reset exactly when something is lost, no leaked goroutine |
| SSE handler (`api/server.go`, `events`) | one subscription | select over events, heartbeat, context | a write may never return; the client may go at any point | the subscription is released; the client gets what the stream promises |
| Action lock (`libvirt.go`, 794-840) | map UUID to lock object, use count, one-token semaphore | lock, lock with context, unlock, retain, release | entries deleted and remade under waiters; a waiter that gives up | one mutex per domain, no leak, unlock never blocks, waiters served |
| Domain actions (`libvirt.go`, 562-792 and 358-377) | none of their own; the domains live in libvirtd | Start, Shutdown, Reboot, Pause, Resume, Reset, Stop, SetAutostart | check-then-act over several libvirt calls; other clients, guests and failures in between; name and UUID | atomic when alone; otherwise the status follows from libvirt's first error |
| Configuration (`config.go`) | the environment, once | `Load` | combinations of tokens, overrides and listeners | unauthenticated only by override |
| Routing, CORS, authorisation (`server.go`) | tokens and origins, constant | `cors`, `routeRegistry`, `requireScope`, input checks | a hand-written table of 25 routes; rules in two packages | scopes are exact, destructive calls only for the administrator |
| Event stream as its client sees it (`events.go`, `server.go`) | the client's last ID | connect, receive, break, restart of the service | messages lost on the way; IDs that begin anew after a restart | nothing twice, nothing missed without a reset |
| Snapshots (`snapshots.go`) | in libvirtd | create, revert, delete, list | several calls under a context-aware lock; a list without a lock; a comparator that is not an order | nobody else acts under the lock; answers true when made; nothing done for a client that is gone |
| Screenshots (`libvirt.go`, 515-560) | a pipe, a stream, three goroutines | start, copy, finish, abort | client, libvirt and context end in any order | no use after free, the handler reads a clean end only for a whole image, nobody stays blocked |
| Process lifecycle (`main.go`, `Connect`, `Close`) | server, signal context, connection, callback | start, serve, shut down | shutdown with open streams and hanging requests; callbacks during close | a signal stops it; success means served; what was opened is closed |
| Read-only queries (`libvirt.go`, 119-356, 453-513, 902-931) | none | list, describe, statistics, addresses, XML, viewer, host | several calls without a lock while domains and devices change | each part was true; parts agree when nothing changed; a refusal has a cause |
| XML and name conversions | none | | | those with control are operators of the modules above |

The SSE handler is the only client of the broker.  The broker's publisher is
libvirt's event callback.  Actions and snapshots call the lock, and all are called
by handlers behind the authorisation chain.  Queries and screenshots take no lock.
The process starts and ends them all.  Components share no other state but the
domains in libvirtd.

## Modules

| Module | Models | Uses |
| --- | --- | --- |
| `LifecycleFeed` | abstract: what a client of the events route is promised | |
| `EventBroker` | broker, watcher and handler goroutines | INSTANCE `LifecycleFeed` |
| `DomainMutex` | abstract: one mutex per domain | |
| `DomainActionLock` | the counted lock objects | INSTANCE `DomainMutex` |
| `AtomicActions` | abstract: each action is one step | |
| `DomainActions` | the action routes over the lock | EXTENDS `DomainActionLock`, INSTANCE `AtomicActions` |
| `Snapshots` | the snapshot routes next to the action routes | EXTENDS `DomainActions`, `SnapshotOrder` |
| `SnapshotOrder` | the comparator of `ListSnapshots` and the sort | |
| `DomainQueries` | the reading routes | EXTENDS `DomainActions` |
| `Screenshot` | one screenshot request and its goroutines | |
| `EventStream` | one client across connections and restarts | EXTENDS `EventBroker` |
| `Process` | `run`, `Connect`, `Close`, the callback, the server | EXTENDS `EventBroker` |
| `ApiAccess` | configuration, routes, CORS, scopes, input checks | |
| `MC...` | constants and symmetry for TLC, where a cfg cannot say them | |
| `EventBrokerProofs`, `DomainActionLockProofs`, `ScreenshotProofs`, `ApiAccessProofs`, `DomainQueriesProofs` | theorems | EXTENDS the module they are about |
| `ProcessProofs`, `EventStreamProofs` | theorems about `Process` and `EventStream` | EXTENDS also `EventBrokerProofs` |
| `RouteProofs` | theorems about `DomainActions` and `Snapshots` | EXTENDS also `DomainActionLockProofs` |

A definition named `...` with a comment "Mutant of" is a plausible bug in the
code; `PROJECT.json` names the property that catches it.  No specification uses
one.

### EventBroker

One element of `Subs` is one call of `subscribe`, with its channel, its watcher
goroutine and the handler that made the call.  An event is its ID.  Every
critical section under `b.mu` is one step, except that of `subscribe`: its replay
loop sends with a blocking send while it holds `mu`, so `mu` is a variable, and
`SubscribeLock`, `Replay` (one turn of the loop) and `Register` are separate
steps.  `cancel` is `close(done)` followed by a critical section, guarded by
`sync.Once` (`once`): a second caller waits while the first runs.  Sends on and
closes of closed channels set `panicked`.  `publish` and `close` on a closed
broker return at once and are left out as stuttering steps.  `nextID` is a
64-bit counter in the code; it is a natural number here, since 2^64 events are
out of reach.  `pos[s]` is the ID of the last item the handler took, which is
what the client would resume from, and `born[s]` remembers `nextID` at
subscription for `SlackHonoured`.

### DomainActionLock

`retain` and `release` are one step each (under `locksMu`), and so is each
operation on a semaphore.  `Keys` are the strings callers lock; all pass UUIDs.
A lock object may be made anew only when nothing refers to it.
`lockDomainAction` and `lockDomainActionContext` differ in `aware`; the context
of a request may be cancelled while it waits or holds.  At most as many lock
objects are in use as there are requests, so `Locks` of that size is no bound.

### DomainActions

Each libvirt call is one step: the lookups by name and by UUID, the identity,
`IsActive`, `GetState`, the operation, and the query after a failed or accepted
operation.  libvirtd is external: a domain is persistent, transient or gone, and
shut off, running or paused.  `CallErrors` says what a call can return,
`Environment` what may disturb a request: the guest powering off, another client,
failing calls, unsupported operations.  `ActionsNext` has only the steps of this
service, with calls that fail or are not supported; guests and other clients act in
`Snapshots` and `DomainQueries`, which extend it.  `ImplementsAtomic` maps an answer that reports a failure of libvirt
to the abstract `Fail`, which changes nothing.  The report of an operation is the
state the domain is in when it is made, with one exception, which `AtomicActions`
states as it is: Reset passes the fixed state "running" to `simpleAction`, and a reset
of a paused domain reports "running" though the domain stays paused.  No line of the
documentation says what Reset reports, so this is no disagreement, but a client that
relies on the report is misled.  The Go code's classification of errors is
`Classified`, per operation: Start and Stop classify nothing, SetAutostart no
invalid state, and only Shutdown the `CONFIG_UNSUPPORTED` (`"CONFIG"`) and
`ARGUMENT_UNSUPPORTED` (`"ARGUMENT"`) errors.  An error Start, Stop or Shutdown does
not classify is answered 409 only if the query that follows saw the conflict
(`ConflictSeen`).
Names and UUIDs are disjoint: a domain named like another domain's UUID, which
libvirt allows, is not modelled.  The power modes only select flags and are left
out.

### Snapshots and SnapshotOrder

The stages of a request continue those of `DomainActions`: lookup, identity and
unlock are the same actions.  `LockSnapshotAction` locks with the context;
`Granted` and `GiveUp` are the two cases of its `select`, both possible when the
lock comes free for a client that has left; `Check` is the `ctx.Err()` before the
call that changes something.  `ListSnapshots` takes no lock and reads the current
name, the list and each description in separate steps.  libvirt's tree of snapshots
is `tree` and `current`; a deleted snapshot's children pass to its parent.
`overlapped` records, for the properties, which lists met a change.  Quiesce, force
and the description are left out: libvirt alone interprets them.  Of their errors
`snapshotOperationError` takes `CONFIG_UNSUPPORTED` for 422 and leaves
`ARGUMENT_UNSUPPORTED`, libvirt's answer to a flag the domain cannot honour, at 503.

Two things the model shows and the properties allow: a creation whose metadata
cannot be read is answered 503 though the snapshot exists, and a list during which a
snapshot is deleted is answered 503 as a whole, or marks a snapshot current that no
longer is.

`SnapshotOrder` has no variables.  `Less` is the comparison function, and
`SortSnapshots` the set of results `slices.SortFunc` may give.  Where a time is missing
the comparison is not transitive: a dated snapshot is compared with an undated one by
name, and three can form a circle.  Up to twelve elements (`InsertionLimit`)
`slices.SortFunc` is an insertion sort, which at least leaves every two neighbours in
order; beyond, it promises an order only for a comparison that is one, so that the
result is any reordering unless all or none of the snapshots are dated.  `ListExact`
says what can be relied on: dated snapshots in full order, and up to twelve neighbours
in order.

Another client of libvirtd changes the snapshots only while a request that looks at
them is served, and at most `MaxMeddling` times; a change before that is one of the
initial states, and a change after it is seen by nobody.

### DomainQueries

For every query a table says which libvirt call follows which (`HostCalls` to
`ViewerCalls`).  `call` is the call a request makes next and `todo` the calls that
begin the turns left of its loop: the summaries of the domains listed, or the
statistics of the devices the XML names, the disks before the interfaces.
`MakeCall` makes one call; `GoesOn` finds the next, the ID only for a domain found
active.  A handle keeps the ID its
domain had when the handle was made.  Domains and devices change only under a request
that reads them.  `was` records, for the properties, what has
been true of the domains since the request looked them up.  Within one answer
`state`, `state_code`, `active` and `id` may belong to different moments, and a list
of active domains may show one that has stopped; `EachFieldWasTrue` and
`UndisturbedIsExact` are what can be relied on.  Addresses may be unavailable in two
ways (`Unavailable`): `DomainInterfaces` answers 422 when the driver does not support
the source, but 503, as for any failure, when the domain is not configured for it
(`ARGUMENT_UNSUPPORTED`, no guest agent).

### Screenshot

The handler, the receiver (`RecvAll` and its callback) and the supervisor (the
goroutine of `Screenshot`) are three processes; a write to the pipe takes effect when
it is read or when the read end is closed.  libvirt may fail at any moment or send
nothing for ever.  Handles are counted.  The status 200 is written when
`domain.Screenshot` has returned.  An error of libvirt after that reaches the handler
as an error of its read of the pipe, and `EofMeansWhole` says that it always does: the
read ends cleanly only after the whole image.  The handler alone learns of it.  It logs
the error of `io.Copy` and returns (`server.go`, 445-447), `net/http` then ends the body
as usual, and the client of a transfer that was cut off gets a truncated image it cannot
tell from a whole one by the HTTP exchange.

### EventStream

`owed` is what the client was neither given nor told it missed, kept for the
properties.  A stream reset settles what lies before it.  A client that was never
given a cursor cannot be told after a restart what it missed: it has none to send,
and nothing is owed to it across a restart.  `Restart` gives every subscription back
for use, with a new generation.  Unused subscriptions, and unused generations, are
alike: a fixed one is taken, in place of a symmetry that liveness checking forbids.

### Process

`phase` is where `run` is.  `http.Server` is external: `Shutdown` closes the listener
and waits for accepted requests, and does not cancel their contexts, so that it waits
for event streams until its ten seconds are over.  A signal between `NotifyContext`
and `stop` ends the context; before and after, it kills.  The callback may go on after
its deregistration, whose failure the code ignores.

### ApiAccess

The chain of handlers keeps no state between requests, so serving one request is
one step, composed of operators that follow the chain: `cors`, the route table,
`requireScope`, the handler's input check.  The environment variables are
abstracted to the classes the code tells apart (a token with white space, a host
name that is not an IP address, a malformed origin, a boolean that does not
parse).  Order of the checks in `Load` does not matter, because each failure ends
the process, so `Loads` is a conjunction.  `recoverPanic`, logging, security
headers and path cleaning by `ServeMux` are left out.

## Runs

| Run | Bounds | Shows |
| --- | --- | --- |
| `broker` | 2 subscriptions, history 2, slack 2, 4 events | `NoPanic`, `NoOrphanStream`, `ClosedBrokerHasNoStreams`, `ReplayNeverBlocks`, `ResetExactlyWhenLossy`, `SlackHonoured`, refinement of `LifecycleFeed` |
| `event_stream` | 2 connections per process, 2 processes, history 1, slack 1, 2 events each | `NothingMissed`, `NextIsNext`, `OwedIsPaid` |
| `process` | 1 stream, 1 request, 2 events | `SuccessMeansServed`, `NothingLeftOpen`, `ServedWithConnection`, `SignalStops`, `StreamReleased` |
| `lock` | 3 requests, 2 keys, 3 lock objects | `MutualExclusion`, `NoLeak`, `UnlockNeverBlocks`, refinement of `DomainMutex`, `WaiterServed`, no deadlock |
| `actions` | 2 requests, 1 domain with 2 identifiers, all operations, failing and unsupported calls | refinement of `AtomicActions` |
| `outside` | 1 request of any action or snapshot operation, by UUID, 3 snapshots at first and 4 names, 7 datings (`MCDatings`), one change of the snapshots by another client (`MaxMeddling`), every other disturbance at will | `AnswerMatchesCause`, `ListExact` |
| `snapshots` | 2 requests, 2 names, every dating, Stop as the other action | `NobodyElseActs`, `AnswerTrueWhenMade`, `NoUnexplainedFailure`, `GoneBeforeItsTurn`, `LeaversNotHeldUp`, `SnapshotAnswered` |
| `queries` | 2 domains, 4 devices, IDs up to 2 | `EachFieldWasTrue`, `UndisturbedIsExact`, `RefusedForACause`, `ListComplete` |
| `screenshot` | 4 chunks | `NoUseAfterFree`, `EofMeansWhole`, `HandlesFreed`, `NobodyStaysBehind` |
| `access` | 4 token variables over 2 values, spaced and unset, every address, flag and origin class; two sound environments with every route, method, credential, origin and input | `OpenOnlyByOverride`, `HierarchyExact` |
| `missing_domain`, `empty_token` | | two places where documentation and code disagree, below |

`broker` also checks the type invariant `TypeOK`.  `LockTypeOK`, `NoSilentGap` and
`UpToDate` are in no run: they are proved, below, and the refinements that are checked
rest on them.

Why the bounds suffice.  With a history of two events and a slack of two, four
events are enough to evict, to replay in part and in full, to fill a channel during
and after the replay, and to drop a subscriber; with a slack of one `SlackHonoured`
would hold of any drop.  Two subscriptions race each other through `mu` and
`subscribers`, all that they share.  Two events in each of two processes let a cursor
of the first be a valid number of the second, and with a history of one let the next
event be evicted between two connections.  One stream is enough for the process,
which treats all alike; the races of two are those of `broker`.  Three requests
let an entry be deleted and remade while two others are between retaining and
releasing.  Two requests on one domain are enough for any pairwise race of
actions; the lock itself is checked with three.  In `outside` the disturbances act at
will, other requests of this service among the things another client can do, so that
one request suffices; only the changes another client makes to the snapshots are
bounded by one: the status of a create, revert or delete depends on at most two looks
at the snapshots, and of a list that met a change only the order is claimed, which is
that of whatever was read.  Its domain has no name, because a request by UUID takes
the steps of one by name, and one more; names are in `actions` and `queries`.  Three
snapshots are the fewest on which the comparator can form a circle; `MCDatings` has a
dating for each way their three comparisons can come out, among them the circle, all
dated, some dated and none, and the fourth name is for one that is created.  Two equal, two different, unset
and spaced tokens are all the code can tell apart.  In `snapshots` two
snapshots are a parent and a child, and two names of which one is taken.  Four chunks let each goroutine be ahead
of each other; the pipe has no buffer.  Queries take no lock and change nothing, so
that one request with an environment that acts at will stands for any number.  An ID
up to 2 lets a domain start under a request.  Of the four devices a disk and an
interface are asked for, one after the other, and a cdrom drive and an interface
without a target are not.  `MaxUint` is 7 in place of 2^32 - 1: it
only has to be no ID.  What the runs show with the
bounds on subscriptions, history, slack, events, requests and lock objects, the
theorems below show without them.

Deadlock is checked in `lock`.  The other systems may really stop: the events are
bounded and every subscription used once, every request answered, or the process
has exited.

Symmetry is used in `broker`, `actions` and `missing_domain`, which have no liveness
property.

### Fairness

* Goroutines that can run do run (weak fairness); libvirt calls return.
* `mu` and the semaphores are strongly fair: Go hands a mutex to a waiter that
  starved for a millisecond, and serves the receivers of a channel in the order
  they arrived.
* `ContextDone` is strongly fair: `select` picks among its ready cases at random.
* In `Screenshot` a write to the client ends, by the server's write timeout, but a
  receive from libvirt is certain to return only on an aborted stream.
* In `SlowSnapshotsSpec` the holder of a lock need never go on; only the steps of
  requests that hold none are fair.  `SnapshotAnswered` says what follows when every
  holder does go on.
* In `EventStream` the client reads and reconnects, and only the goroutines of its
  present connection, and whoever holds `mu`, need run.
* In `Process` neither requests nor clients need ever end, only `run` and the
  goroutines of the streams go on and the ten seconds pass.
* In `Process` no fairness makes a write of the events route complete: the handler
  clears the write deadline, and a client may stop reading for ever.  Only a write to
  a client that is gone is taken to fail.  `StreamReleased` therefore promises nothing
  for a stalled client while the process runs.

## Where documentation and code disagree

* `missing_domain`: the README says "A missing domain returns `404 Not Found`".
  When a transient domain ceases to exist between the lookup and `IsActive`, for
  instance because a concurrent Stop destroyed it, the answer is 503.
* `empty_token`: the comment on `Config` says "An empty APIToken is accepted only
  when an explicit insecure-listen override is enabled", and the README that
  startup fails without `API_BEARER_TOKEN` unless an override applies.  `Load`
  also accepts it when any scoped token is set.  Nothing is left unauthenticated
  by that (`OpenOnlyByOverride`).

## Proofs

The theorems hold for all values of the constants that satisfy the assumptions of
their modules, which TLC evaluates in the runs: `BrokerAssumption` (limits positive,
the special values distinct from ordinary ones), `LockAssumption` (finitely many
requests, at least one key), `ActionsAssumption` (a lockable key is a name or a UUID,
never both), `SnapshotsAssumption` (names and times are numbers, for the comparator),
`StreamAssumption` (being offline is no connection), `QueriesAssumption` (the
operations are those of the reading routes, a domain begins as a persistent or a
transient one, an ID is never 2^32 - 1), `ScreenshotAssumption` (an image has some
number of chunks) and `AccessAssumption` (the classes of environment values).
`ActionsAssumption` and `QueriesAssumption` also keep `Nothing` apart from what it
stands in for.  A theorem that needs an undisturbed `Environment` says so in an
ASSUME of its own; each such instance is that of a run.

`EventBrokerProofs`.  None of the properties is inductive by itself.  `IInv` is
the conjunction of `TypeOK`, `NoPanic`, and

* `HistoryInv`: the history is the consecutive run of IDs that ends in `nextID`;
* `LockInv`: `mu` is held by `s` exactly while `s` replays, and the broker is then
  not closed;
* `StreamInv`, per subscription: the queue is gap-free from `pos` on, a registered
  subscription has reached `nextID`, a replaying one has reached the event before
  its `scan` index and has room for the rest, an open channel is registered or
  replaying, and the room left is at least the slack minus what was published since
  it subscribed.

From it follow `TypeCorrect`, `NeverPanics`, `ReplayHasRoom`, `GapFree`,
`Complete`, `StreamsAreFed`, `StreamsEnd`, `ResetIffLossy`, the action property `SlackKept`, and
`RefinesFeed`: publish is the abstract `Happen`, `SubscribeLock` is `Resume` or
`Restart`, `Receive` is `Deliver` or `DeliverReset`, leaving the stream is `End`,
and every other step stutters.

`DomainActionLockProofs`.  `LockIInv` adds to the types that requests and map agree
on the lock object of a key, that the use count of an entry is the number of
requests that refer to it (cardinality lemmas of the library), and that the token
is away exactly while one request holds.  From it follow `LockTypeCorrect`,
`ActionsExclude`, `LocksDoNotLeak`, `UnlockIsImmediate` and `RefinesMutex`.

`ScreenshotProofs`.  `ShotIInv` says who owns the handles (`Owned`), that the
receiver's one result is in the channel until the supervisor takes it
(`Supervised`), that what was read, what is on its way and what is left make up the
image until something fails (`Accounted`), and that only the supervisor's verdict
ends the copy cleanly (`Judged`).  From it follow `FreedAfterUse`,
`CleanEndIsWhole` and `NoHandleLeaks`, for images of any length.

`ProcessProofs`.  `ProcessRunsBroker` shows that every step of the process is a step
of the broker or leaves it alone, so that the theorems of `EventBrokerProofs` hold
inside the process: `ProcessNeverPanics` is one of them.  `ProcessIInv` ties the
connection, the listener, the exit code and the accepted requests to `phase`; with it
and `StreamsEnd` follow `SuccessIsService`, `RunClosesAll` and
`ConnectionOutlivesRequests`, for any number of requests and streams.

`ApiAccessProofs`.  `AccessIInv` says that the answer is that of the chain to the
last request, under an environment that `Load` accepted.  `RouteScopes`,
`ReservedHaveRoutes` and `GrantIsExact` are lemmas about the route table and
`scopeForToken`; the last needs `validateTokens`, without which a token could be
shadowed.  From them follow `OpenByOverride` and `ScopesAreExact`, for any set of
environments, tokens and origins.  The latter is an equivalence: a token is refused by
scope exactly where the variable that holds it does not grant the method and path, so
that a read token that could not read would violate it as well as one that could stop
a domain.

`RouteProofs`.  `StepInv` relates where a request is in its work to where it is in
the lock, and says that the key it locks is the UUID of its domain.  With it every step of
an action or snapshot route is a step of the lock or leaves it alone
(`RoutesRunLock`), so that the theorems about the lock hold of the routes.  On top of it:

* `ActionsAreAtomic`.  `AtomicInv` says that what a request has found under the lock is
  still so when it operates (`Checked`).  It is inductive because a step of another
  request changes only the domain whose lock it holds.  The operation, the conflict or
  the failure is then the abstract step, and every other step stutters.  Domains are
  persistent, as in `actions`; what two Stop requests make of a transient one is shown
  by `missing_domain`.
* `LockProtectsSnapshots` follows from mutual exclusion and from what each step may
  change in libvirtd; it assumes that no guest and no other client of libvirtd acts,
  against which the service's lock is no protection.
* `AnswersFollowFromErrors`.  `CausedInv` says at which stages a first error has been
  seen and that a status, once decided, follows from it.  Nothing is assumed of the
  environment.
* `AnswersAreTrue`.  `TruthInv` carries what a create, revert or delete has done from
  the step that does it to the unlock, through the steps of the others, which
  `LockProtectsSnapshots` keeps away from the domain.  No guest and no other client
  acts.
* `FailuresAreExplained`.  `CourseInv` says that a snapshot that was found under the
  lock still exists, that a list either met a change or has only existing snapshots
  ahead, and that a decided answer is explained.  Nothing disturbs, and domains are
  persistent.
* `LeaversChangeNothing`.  An action property: from the step in which a client leaves
  its request can only fail the `ctx.Err()` check or give up.

`EventStreamProofs`.  `ClientInv` is about one client and one process after the other:
the messages on their way follow one another and what the client has (`NetInv`), the
handler's position continues them (`Continues`), a client whose cursor is of an earlier
process has a stream reset coming before anything else, and it is owed only what
follows its cursor (`OwedInv`).  Within a process the invariant of the broker applies,
because every step of `EventStream` but `Restart` is a step of the broker or leaves it
alone, and a restart begins in an initial state of it.  From it follow
`ClientMissesNothing` and `ClientSeesEachOnce`.

`DomainQueriesProofs`.  `ReaderInv` ties together, per request, the call it has come to
and the table of its query (`CourseInv`), the entry its calls complete, which is the
last of the report, what it knows of the domains it has yet to ask for (`KnownInv`) and
that every part of every entry was true (`BackedInv`).  Each reading step is one case,
and a change of a domain only adds to what was true.  Four theorems rest on it:

* `AnswersWereTrue`, at once.
* `UndisturbedAnswersAgree`.  `ExactInv` says, call by call, which fields of the last
  entry already agree with the one fact known of its domain.
* `ListsAreComplete`.  `ListInv` divides the domains of a list into those shown and
  those ahead: they are disjoint, no turn is made twice, and together they hold every
  domain that matched all the while and only such as matched once.  A call of
  `domainSummary` moves one domain across.  That the shown are as many as the entries
  is a bijection lemma.
* `RefusalsHaveACause`.  `RefusalInv` says that statistics past the activity check were
  asked of a domain that ran, and that the cause of a refusal, once met, stays: domains
  that are gone and devices that were unplugged do not come back.

The last two assume that libvirt does not fail by itself (no `"faults"`), as the run
does: a fault would be a refusal without a cause in the domains.

Only model-checked: the liveness properties `OwedIsPaid`, `SignalStops`,
`StreamReleased`, `WaiterServed`, `LeaversNotHeldUp`, `SnapshotAnswered` and
`NobodyStaysBehind` (fairness and ENABLED are out of the prover's reach), and
`ListExact`, which is about the result of a sort: a recursive computation on data,
which only TLC can check.  Every other property of a passing run is a theorem.

## Not modelled

* `memoryStatName`, `lifecycleEventName`, the copying of counters, sizes and
  addresses, and the text of XML and JSON: names and values without control.
* `recoverPanic`, logging, security headers, path cleaning by `ServeMux`.
* Domains whose name is another domain's UUID.
* The failure of `rand.Read` in `newEventBroker`, after which the generation is the
  time: a generation is a value no earlier process used either way.

## Plan

The modules are complete, and every safety property of a passing run but `ListExact`
is a theorem.  What is left:

1. `Snapshots`: the part of `ListExact` that is not about the order (an undisturbed
   list shows each snapshot once, as it is) does not depend on the sort beyond its
   being a permutation; that part could be stated of the unsorted list and proved.
2. `SnapshotOrder`: the facts about `Less` that need no induction (irreflexive,
   asymmetric, total on snapshots with a time).
