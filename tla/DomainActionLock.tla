------------------------- MODULE DomainActionLock -------------------------
(***************************************************************************)
(* The reference-counted lock per domain of internal/hypervisor/libvirt.go *)
(* (lockDomainAction, lockDomainActionContext, retainDomainActionLock,     *)
(* releaseDomainActionLock).                                               *)
(*                                                                         *)
(* A lock object is made when the first request asks for a domain, is      *)
(* counted by users, and is removed from the map by the last request that  *)
(* releases it.  Each critical section under l.locksMu is one step, each   *)
(* channel operation on a semaphore is one step, and requests interleave   *)
(* between all of them.  An object of Locks can be made anew once nothing  *)
(* refers to it, as the garbage collector would have it.                   *)
(***************************************************************************)
EXTENDS Naturals, FiniteSets

CONSTANTS
    Requests,   \* requests in flight at the same time
    Keys,       \* strings a caller may lock; every caller passes a UUID
    Locks,      \* lock objects
    NoLock      \* no entry in the map, no lock held

ASSUME LockAssumption ==
    /\ IsFiniteSet(Requests)
    /\ Keys # {}
    /\ NoLock \notin Locks

VARIABLES
    actionLocks,    \* l.actionLocks
    users,          \* users[k]: lock.users
    semaphore,      \* semaphore[k]: tokens in the channel of capacity 1
    pc,             \* pc[r]: "idle", "waiting", "holding", "releasing"
    key,           \* key[r]: the key r locks
    lock,           \* lock[r]: the lock object r refers to
    aware,          \* aware[r]: r locks with lockDomainActionContext
    ctxDone         \* ctxDone[r]: the context of r is done

lockVars == <<actionLocks, users, semaphore, pc, key, lock, aware, ctxDone>>

LockInit ==
    /\ actionLocks = [u \in Keys |-> NoLock]
    /\ users = [k \in Locks |-> 0]
    /\ semaphore = [k \in Locks |-> 0]
    /\ pc = [r \in Requests |-> "idle"]
    /\ key \in [Requests -> Keys]
    /\ \A r, q \in Requests : key[r] = key[q]
    /\ lock = [r \in Requests |-> NoLock]
    /\ aware = [r \in Requests |-> FALSE]
    /\ ctxDone = [r \in Requests |-> FALSE]

-----------------------------------------------------------------------------

Unreferenced(k) == /\ \A u \in Keys : actionLocks[u] # k
                   /\ \A r \in Requests : lock[r] # k

(* retainDomainActionLock, when the map has no lock for u: a new object,   *)
(* with one token in its semaphore.                                        *)
RetainNew(r, u, k) ==
    /\ actionLocks[u] = NoLock
    /\ Unreferenced(k)
    /\ actionLocks' = [actionLocks EXCEPT ![u] = k]
    /\ semaphore' = [semaphore EXCEPT ![k] = 1]
    /\ users' = [users EXCEPT ![k] = 1]
    /\ lock' = [lock EXCEPT ![r] = k]

(* retainDomainActionLock, when the map has a lock for u.                  *)
RetainOld(r, u) ==
    /\ actionLocks[u] # NoLock
    /\ users' = [users EXCEPT ![actionLocks[u]] = @ + 1]
    /\ lock' = [lock EXCEPT ![r] = actionLocks[u]]
    /\ UNCHANGED <<actionLocks, semaphore>>

(* lockDomainAction, or with a context lockDomainActionContext, up to the  *)
(* receive on the semaphore.                                               *)
Retain(r, u, withContext) ==
    /\ pc[r] = "idle"
    /\ \/ RetainOld(r, u)
       \/ \E k \in Locks : RetainNew(r, u, k)
    /\ pc' = [pc EXCEPT ![r] = "waiting"]
    /\ key' = [key EXCEPT ![r] = u]
    /\ aware' = [aware EXCEPT ![r] = withContext]
    /\ ctxDone' = [ctxDone EXCEPT ![r] = FALSE]

(* <-lock.semaphore                                                        *)
Acquire(r) ==
    /\ pc[r] = "waiting"
    /\ semaphore[lock[r]] = 1
    /\ semaphore' = [semaphore EXCEPT ![lock[r]] = 0]
    /\ pc' = [pc EXCEPT ![r] = "holding"]
    /\ UNCHANGED <<actionLocks, users, key, lock, aware, ctxDone>>

(* Mutant of Abandon: the request that gives up also returns a token.      *)
AbandonReturnsToken(r) ==
    /\ pc[r] = "waiting"
    /\ aware[r] /\ ctxDone[r]
    /\ semaphore' = [semaphore EXCEPT ![lock[r]] = 1]
    /\ pc' = [pc EXCEPT ![r] = "releasing"]
    /\ UNCHANGED <<actionLocks, users, key, lock, aware, ctxDone>>

(* <-ctx.Done() in lockDomainActionContext.                                *)
Abandon(r) ==
    /\ pc[r] = "waiting"
    /\ aware[r] /\ ctxDone[r]
    /\ pc' = [pc EXCEPT ![r] = "releasing"]
    /\ UNCHANGED <<actionLocks, users, semaphore, key, lock, aware, ctxDone>>

(* Mutant of Unlock: the token is lost.                                    *)
UnlockForgets(r) ==
    /\ pc[r] = "holding"
    /\ pc' = [pc EXCEPT ![r] = "releasing"]
    /\ UNCHANGED <<actionLocks, users, semaphore, key, lock, aware, ctxDone>>

(* The unlock function: lock.semaphore <- struct{}{}, which would block if *)
(* the channel still held its token.                                       *)
Unlock(r) ==
    /\ pc[r] = "holding"
    /\ semaphore[lock[r]] = 0
    /\ semaphore' = [semaphore EXCEPT ![lock[r]] = 1]
    /\ pc' = [pc EXCEPT ![r] = "releasing"]
    /\ UNCHANGED <<actionLocks, users, key, lock, aware, ctxDone>>

(* Mutants of LastUser: the entry is never deleted, or always.             *)
LastUserNever(k) == FALSE
LastUserAlways(k) == TRUE
LastUser(k) == users[k] - 1 = 0

(* releaseDomainActionLock: it deletes the entry under its key, whatever   *)
(* lock object that entry holds.                                           *)
Release(r) ==
    /\ pc[r] = "releasing"
    /\ users' = [users EXCEPT ![lock[r]] = @ - 1]
    /\ actionLocks' = IF LastUser(lock[r])
                      THEN [actionLocks EXCEPT ![key[r]] = NoLock]
                      ELSE actionLocks
    /\ lock' = [lock EXCEPT ![r] = NoLock]
    /\ pc' = [pc EXCEPT ![r] = "idle"]
    /\ UNCHANGED <<semaphore, key, aware, ctxDone>>

(* The client goes away while its request waits or works.                  *)
CancelContext(r) ==
    /\ pc[r] \in {"waiting", "holding"}
    /\ aware[r] /\ ~ctxDone[r]
    /\ ctxDone' = [ctxDone EXCEPT ![r] = TRUE]
    /\ UNCHANGED <<actionLocks, users, semaphore, pc, key, lock, aware>>

LockNext ==
    \E r \in Requests :
        \/ \E u \in Keys, withContext \in BOOLEAN : Retain(r, u, withContext)
        \/ Acquire(r) \/ Abandon(r) \/ Unlock(r) \/ Release(r) \/ CancelContext(r)

LockSpec == LockInit /\ [][LockNext]_lockVars

(* Receivers that wait on a channel are served first come first served, so *)
(* that Acquire is strongly fair; a holder's libvirt call returns.         *)
LockFairness ==
    \A r \in Requests :
        /\ SF_lockVars(Acquire(r))
        /\ WF_lockVars(Abandon(r))
        /\ WF_lockVars(Unlock(r))
        /\ WF_lockVars(Release(r))

FairLockSpec == LockSpec /\ LockFairness

-----------------------------------------------------------------------------
(***************************************************************************)
(* Properties.                                                             *)
(***************************************************************************)

LockTypeOK ==
    /\ actionLocks \in [Keys -> Locks \cup {NoLock}]
    /\ users \in [Locks -> Nat]
    /\ semaphore \in [Locks -> {0, 1}]
    /\ pc \in [Requests -> {"idle", "waiting", "holding", "releasing"}]
    /\ key \in [Requests -> Keys]
    /\ lock \in [Requests -> Locks \cup {NoLock}]
    /\ aware \in [Requests -> BOOLEAN]
    /\ ctxDone \in [Requests -> BOOLEAN]

(* Two requests never hold the action lock of the same domain at once,     *)
(* however the map entry is deleted and remade between them.               *)
MutualExclusion ==
    \A r, q \in Requests :
        (r # q /\ pc[r] = "holding" /\ pc[q] = "holding") => key[r] # key[q]

(* The map has an entry for a domain exactly while some request uses it:   *)
(* the entries of deleted or idle domains do not accumulate, and no entry  *)
(* vanishes under a request.                                               *)
NoLeak ==
    \A u \in Keys :
        actionLocks[u] # NoLock <=> \E r \in Requests : pc[r] # "idle" /\ key[r] = u

(* The unlock function never blocks: a holder's semaphore has no token.    *)
UnlockNeverBlocks ==
    \A r \in Requests : pc[r] = "holding" => semaphore[lock[r]] = 0

(* A request that waits for a domain's lock gets it or gives up.           *)
WaiterServed ==
    \A r \in Requests : pc[r] = "waiting" ~> pc[r] # "waiting"

Phase(r) == IF pc[r] = "holding" THEN "inside"
            ELSE IF pc[r] = "waiting" THEN "waiting" ELSE "out"

Mutex == INSTANCE DomainMutex WITH
    Clients <- Requests,
    Domains <- Keys,
    phase <- [r \in Requests |-> Phase(r)],
    target <- key

(* The counted, deleted and remade lock objects implement one mutex per    *)
(* domain.                                                                 *)
ImplementsMutex == Mutex!Spec
=============================================================================
