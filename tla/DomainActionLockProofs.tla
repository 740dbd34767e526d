---------------------- MODULE DomainActionLockProofs ----------------------
(***************************************************************************)
(* Proofs about DomainActionLock for any finite set of requests and any    *)
(* sets of domains and lock objects.                                       *)
(***************************************************************************)
EXTENDS DomainActionLock, FiniteSetTheorems, TLAPS

(* The requests that refer to a lock object.                               *)
Refs(k) == {r \in Requests : lock[r] = k}

(* A request that is not idle refers to the lock its key maps to ...       *)
Agreed(r) == IF pc[r] = "idle" THEN lock[r] = NoLock
             ELSE lock[r] \in Locks /\ actionLocks[key[r]] = lock[r]

(* ... a lock in the map belongs to one key, and is counted right ...      *)
Counted(u) == actionLocks[u] # NoLock =>
                /\ users[actionLocks[u]] = Cardinality(Refs(actionLocks[u]))
                /\ Refs(actionLocks[u]) # {}
                /\ \A v \in Keys : actionLocks[v] = actionLocks[u] => v = u

(* ... and its token is taken by its one holder.                           *)
Taken(r) == pc[r] = "holding" =>
              /\ semaphore[lock[r]] = 0
              /\ \A q \in Requests : (pc[q] = "holding" /\ lock[q] = lock[r]) => q = r

LockIInv ==
    /\ LockTypeOK
    /\ \A r \in Requests : Agreed(r)
    /\ \A u \in Keys : Counted(u)
    /\ \A r \in Requests : Taken(r)

-----------------------------------------------------------------------------

LEMMA RefsFinite ==
    ASSUME NEW k
    PROVE  IsFiniteSet(Refs(k)) /\ Cardinality(Refs(k)) \in Nat
  <1>1. IsFiniteSet(Refs(k)) BY LockAssumption, FS_Subset DEF Refs
  <1> QED BY <1>1, FS_CardinalityType

LEMMA LockInitIInv == LockInit => LockIInv
  <1> SUFFICES ASSUME LockInit PROVE LockIInv OBVIOUS
  <1>0. aware \in [Requests -> BOOLEAN] /\ ctxDone \in [Requests -> BOOLEAN]
    BY DEF LockInit
  <1>1. LockTypeOK BY <1>0 DEF LockInit, LockTypeOK
  <1> QED BY <1>1 DEF LockInit, LockIInv, Agreed, Counted, Taken

(* A step that leaves the map, the counts and the references alone.        *)
LEMMA CountedFrame ==
    ASSUME NEW u \in Keys, Counted(u), UNCHANGED <<actionLocks, users, lock>>
    PROVE  Counted(u)'
  BY DEF Counted, Refs

LEMMA RetainOldIInv ==
    ASSUME LockIInv, NEW r \in Requests, NEW u \in Keys, NEW w \in BOOLEAN,
           Retain(r, u, w), RetainOld(r, u)
    PROVE  LockIInv'
  <1> USE DEF LockIInv
  <1>p. PICK k \in Locks : k = actionLocks[u]
    BY DEF Retain, RetainOld, LockTypeOK
  <1>0. /\ pc[r] = "idle" /\ lock[r] = NoLock /\ users[k] \in Nat /\ k # NoLock
    BY LockAssumption DEF Retain, LockTypeOK, Agreed
  <1>1. /\ pc' = [pc EXCEPT ![r] = "waiting"] /\ key' = [key EXCEPT ![r] = u]
        /\ lock' = [lock EXCEPT ![r] = k] /\ users' = [users EXCEPT ![k] = @ + 1]
        /\ UNCHANGED <<actionLocks, semaphore>>
        /\ aware' = [aware EXCEPT ![r] = w] /\ ctxDone' = [ctxDone EXCEPT ![r] = FALSE]
    BY <1>p DEF Retain, RetainOld
  <1>2. LockTypeOK' BY <1>0, <1>1 DEF LockTypeOK
  <1>3. \A q \in Requests : Agreed(q)'
    BY <1>p, <1>0, <1>1 DEF Agreed, LockTypeOK
  <1>4. ASSUME NEW v \in Keys PROVE Counted(v)'
    <2>1. CASE v = u
      <3>1. Refs(k)' = Refs(k) \cup {r} /\ r \notin Refs(k)
        BY <1>0, <1>1 DEF Refs, LockTypeOK
      <3>2. Cardinality(Refs(k)') = Cardinality(Refs(k)) + 1
        BY <3>1, RefsFinite, FS_AddElement
      <3>3. users[k] = Cardinality(Refs(k)) /\ k = actionLocks[u]
        BY <1>p, <1>0 DEF Counted
      <3>4. users'[k] = users[k] + 1 BY <1>0, <1>1 DEF LockTypeOK
      <3>5. /\ actionLocks'[u] = k
            /\ \A x \in Keys : actionLocks'[x] = k => x = u
        BY <1>p, <1>0, <1>1 DEF Counted
      <3> QED BY <2>1, <3>1, <3>2, <3>3, <3>4, <3>5 DEF Counted
    <2>2. CASE v # u
      <3>1. CASE actionLocks[v] = NoLock BY <3>1, <1>1 DEF Counted
      <3>2. CASE actionLocks[v] # NoLock
        <4>1. actionLocks[v] # k BY <1>p, <2>2, <3>2 DEF Counted
        <4>2. Refs(actionLocks[v])' = Refs(actionLocks[v])
          BY <4>1, <1>0, <1>1, <3>2 DEF Refs, LockTypeOK
        <4>3. users'[actionLocks[v]] = users[actionLocks[v]]
          BY <4>1, <3>2, <1>0, <1>1 DEF LockTypeOK
        <4> QED BY <3>2, <4>2, <4>3, <1>1 DEF Counted
      <3> QED BY <3>1, <3>2
    <2> QED BY <2>1, <2>2
  <1>5. \A q \in Requests : Taken(q)' BY <1>1 DEF Taken, LockTypeOK
  <1> QED BY <1>2, <1>3, <1>4, <1>5

LEMMA RetainNewIInv ==
    ASSUME LockIInv, NEW r \in Requests, NEW u \in Keys, NEW w \in BOOLEAN,
           NEW k \in Locks, Retain(r, u, w), RetainNew(r, u, k)
    PROVE  LockIInv'
  <1> USE DEF LockIInv
  <1>0. /\ pc[r] = "idle" /\ lock[r] = NoLock /\ k # NoLock /\ actionLocks[u] = NoLock
        /\ \A v \in Keys : actionLocks[v] # k
        /\ \A q \in Requests : lock[q] # k
    BY LockAssumption DEF Retain, RetainNew, Unreferenced, Agreed
  <1>1. /\ pc' = [pc EXCEPT ![r] = "waiting"] /\ key' = [key EXCEPT ![r] = u]
        /\ lock' = [lock EXCEPT ![r] = k] /\ users' = [users EXCEPT ![k] = 1]
        /\ actionLocks' = [actionLocks EXCEPT ![u] = k]
        /\ semaphore' = [semaphore EXCEPT ![k] = 1]
        /\ aware' = [aware EXCEPT ![r] = w] /\ ctxDone' = [ctxDone EXCEPT ![r] = FALSE]
    BY DEF Retain, RetainNew
  <1>2. LockTypeOK' BY <1>1 DEF LockTypeOK
  <1>3. \A q \in Requests : Agreed(q)'
    <2> TAKE q \in Requests
    <2>1. CASE q = r BY <2>1, <1>1 DEF Agreed, LockTypeOK
    <2>2. CASE q # r
      <3>1. /\ pc'[q] = pc[q] /\ lock'[q] = lock[q] /\ key'[q] = key[q]
            /\ key[q] \in Keys
        BY <2>2, <1>1 DEF LockTypeOK
      <3>2. pc[q] # "idle" => key[q] # u BY <1>0, LockAssumption DEF Agreed
      <3> QED BY <3>1, <3>2, <1>1 DEF Agreed, LockTypeOK
    <2> QED BY <2>1, <2>2
  <1>4. ASSUME NEW v \in Keys PROVE Counted(v)'
    <2>1. CASE v = u
      <3>1. Refs(k)' = {r} BY <1>0, <1>1 DEF Refs, LockTypeOK
      <3>2. Cardinality(Refs(k)') = 1 BY <3>1, FS_Singleton
      <3>3. users'[k] = 1 /\ actionLocks'[u] = k BY <1>1 DEF LockTypeOK
      <3>4. \A x \in Keys : actionLocks'[x] = k => x = u
        BY <1>0, <1>1 DEF LockTypeOK
      <3> QED BY <2>1, <3>1, <3>2, <3>3, <3>4 DEF Counted
    <2>2. CASE v # u
      <3>0. actionLocks'[v] = actionLocks[v] BY <2>2, <1>1 DEF LockTypeOK
      <3>1. CASE actionLocks[v] = NoLock BY <3>0, <3>1 DEF Counted
      <3>2. CASE actionLocks[v] # NoLock
        <4>1. actionLocks[v] # k BY <1>0
        <4>2. Refs(actionLocks[v])' = Refs(actionLocks[v])
          <5>1. \A q \in Requests : lock'[q] = actionLocks[v] <=> lock[q] = actionLocks[v]
            BY <4>1, <1>0, <1>1, <3>2 DEF LockTypeOK
          <5> QED BY <5>1, <3>0 DEF Refs
        <4>3. users'[actionLocks[v]] = users[actionLocks[v]]
          BY <4>1, <3>2, <1>1 DEF LockTypeOK
        <4>4. \A x \in Keys : actionLocks'[x] = actionLocks[v] => x = v
          BY <4>1, <3>2, <1>1 DEF Counted, LockTypeOK
        <4> QED BY <3>0, <3>2, <4>2, <4>3, <4>4 DEF Counted
      <3> QED BY <3>1, <3>2
    <2> QED BY <2>1, <2>2
  <1>5. \A q \in Requests : Taken(q)'
    BY <1>0, <1>1 DEF Taken, Agreed, LockTypeOK
  <1> QED BY <1>2, <1>3, <1>4, <1>5

LEMMA AcquireIInv ==
    ASSUME LockIInv, NEW r \in Requests, Acquire(r)
    PROVE  LockIInv'
  <1> USE DEF LockIInv
  <1>0. lock[r] \in Locks BY DEF Acquire, Agreed
  <1>1. LockTypeOK' BY DEF Acquire, LockTypeOK
  <1>2. \A q \in Requests : Agreed(q)' BY DEF Acquire, Agreed, LockTypeOK
  <1>3. \A u \in Keys : Counted(u)' BY CountedFrame DEF Acquire
  <1>4. \A q \in Requests : Taken(q)'
    BY <1>0 DEF Acquire, Taken, Agreed, LockTypeOK
  <1> QED BY <1>1, <1>2, <1>3, <1>4

LEMMA UnlockIInv ==
    ASSUME LockIInv, NEW r \in Requests, Unlock(r)
    PROVE  LockIInv'
  <1> USE DEF LockIInv
  <1>0. lock[r] \in Locks BY DEF Unlock, Agreed
  <1>1. LockTypeOK' BY DEF Unlock, LockTypeOK
  <1>2. \A q \in Requests : Agreed(q)' BY DEF Unlock, Agreed, LockTypeOK
  <1>3. \A u \in Keys : Counted(u)' BY CountedFrame DEF Unlock
  <1>4. \A q \in Requests : Taken(q)'
    BY <1>0 DEF Unlock, Taken, Agreed, LockTypeOK
  <1> QED BY <1>1, <1>2, <1>3, <1>4

LEMMA WaitIInv ==
    ASSUME LockIInv, NEW r \in Requests, Abandon(r) \/ CancelContext(r)
    PROVE  LockIInv'
  <1> USE DEF LockIInv
  <1>0. UNCHANGED <<actionLocks, users, semaphore, key, lock, aware>>
    BY DEF Abandon, CancelContext
  <1>1. LockTypeOK' BY DEF Abandon, CancelContext, LockTypeOK
  <1>2. \A q \in Requests : Agreed(q)'
    BY DEF Abandon, CancelContext, Agreed, LockTypeOK
  <1>3. \A u \in Keys : Counted(u)' BY <1>0, CountedFrame
  <1>4. \A q \in Requests : Taken(q)'
    BY DEF Abandon, CancelContext, Taken, LockTypeOK
  <1> QED BY <1>1, <1>2, <1>3, <1>4

LEMMA ReleaseIInv ==
    ASSUME LockIInv, NEW r \in Requests, Release(r)
    PROVE  LockIInv'
  <1> USE DEF LockIInv
  <1>p. PICK k \in Locks, u \in Keys : k = lock[r] /\ u = key[r]
    BY DEF Release, Agreed, LockTypeOK
  <1>0. /\ pc[r] = "releasing" /\ k # NoLock /\ actionLocks[u] = k /\ r \in Refs(k)
    BY <1>p, LockAssumption DEF Release, Agreed, Refs
  <1>1. /\ users[k] = Cardinality(Refs(k)) /\ users[k] \in Nat
        /\ \A v \in Keys : actionLocks[v] = k => v = u
    BY <1>0 DEF Counted, LockTypeOK
  <1>2. /\ IsFiniteSet(Refs(k) \ {r})
        /\ Cardinality(Refs(k) \ {r}) = Cardinality(Refs(k)) - 1
        /\ Cardinality(Refs(k) \ {r}) \in Nat
    BY <1>0, RefsFinite, FS_RemoveElement, FS_CardinalityType
  <1>3. LastUser(k) <=> Refs(k) \ {r} = {}
    BY <1>1, <1>2, FS_EmptySet DEF LastUser
  <1>4. /\ pc' = [pc EXCEPT ![r] = "idle"] /\ lock' = [lock EXCEPT ![r] = NoLock]
        /\ users' = [users EXCEPT ![k] = @ - 1]
        /\ actionLocks' = IF LastUser(k) THEN [actionLocks EXCEPT ![u] = NoLock]
                          ELSE actionLocks
        /\ UNCHANGED <<semaphore, key, aware, ctxDone>>
    BY <1>p DEF Release
  <1>5. LockTypeOK'
    <2>1. users' \in [Locks -> Nat] BY <1>0, <1>1, <1>2, <1>4 DEF LockTypeOK
    <2>2. actionLocks' \in [Keys -> Locks \cup {NoLock}] BY <1>0, <1>4 DEF LockTypeOK
    <2> QED BY <2>1, <2>2, <1>4 DEF LockTypeOK
  <1>6. ASSUME NEW q \in Requests PROVE Agreed(q)'
    <2>1. CASE q = r BY <2>1, <1>4 DEF Agreed, LockTypeOK
    <2>2. CASE q # r /\ pc[q] = "idle" BY <2>2, <1>4 DEF Agreed, LockTypeOK
    <2>3. CASE q # r /\ pc[q] # "idle"
      <3>1. /\ lock'[q] = lock[q] /\ pc'[q] = pc[q] /\ key'[q] = key[q]
            /\ lock[q] \in Locks /\ actionLocks[key[q]] = lock[q] /\ key[q] \in Keys
        BY <2>3, <1>4 DEF Agreed, LockTypeOK
      <3>2. actionLocks'[key[q]] = actionLocks[key[q]]
        <4>1. CASE ~LastUser(k) BY <4>1, <1>4
        <4>2. CASE LastUser(k)
          <5>1. q \notin Refs(k) BY <4>2, <1>3, <2>3
          <5>2. key[q] # u BY <5>1, <3>1, <1>0 DEF Refs
          <5> QED BY <4>2, <5>2, <1>4 DEF LockTypeOK
        <4> QED BY <4>1, <4>2
      <3> QED BY <2>3, <3>1, <3>2 DEF Agreed
    <2> QED BY <2>1, <2>2, <2>3
  <1>7. ASSUME NEW v \in Keys PROVE Counted(v)'
    <2>1. CASE v = u
      <3>1. CASE LastUser(k)
        <4>1. actionLocks'[u] = NoLock BY <3>1, <1>0, <1>4 DEF LockTypeOK
        <4> QED BY <2>1, <4>1 DEF Counted
      <3>2. CASE ~LastUser(k)
        <4>1. actionLocks' = actionLocks BY <3>2, <1>4
        <4>2. Refs(k)' = Refs(k) \ {r}
          BY <1>0, <1>4 DEF Refs, LockTypeOK
        <4>3. users'[k] = users[k] - 1 BY <1>0, <1>4 DEF LockTypeOK
        <4>4. users'[k] = Cardinality(Refs(k)') /\ Refs(k)' # {}
          BY <3>2, <4>2, <4>3, <1>1, <1>2, <1>3
        <4> QED BY <2>1, <4>1, <4>4, <1>0, <1>1 DEF Counted
      <3> QED BY <3>1, <3>2
    <2>2. CASE v # u
      <3>0. actionLocks'[v] = actionLocks[v] BY <2>2, <1>4 DEF LockTypeOK
      <3>1. CASE actionLocks[v] = NoLock BY <3>0, <3>1 DEF Counted
      <3>2. CASE actionLocks[v] # NoLock
        <4>1. actionLocks[v] # k /\ actionLocks[v] \in Locks
          BY <2>2, <3>2, <1>1 DEF LockTypeOK
        <4>2. Refs(actionLocks[v])' = Refs(actionLocks[v])
          <5>1. \A q \in Requests : lock'[q] = actionLocks[v] <=> lock[q] = actionLocks[v]
            BY <1>p, <4>1, <1>4, <3>2 DEF LockTypeOK
          <5> QED BY <5>1, <3>0 DEF Refs
        <4>3. users'[actionLocks[v]] = users[actionLocks[v]]
          BY <4>1, <1>4 DEF LockTypeOK
        <4>4. \A x \in Keys : actionLocks'[x] = actionLocks[v] => x = v
          BY <3>2, <1>4 DEF Counted, LockTypeOK
        <4> QED BY <3>0, <3>2, <4>2, <4>3, <4>4 DEF Counted
      <3> QED BY <3>1, <3>2
    <2> QED BY <2>1, <2>2
  <1>8. \A q \in Requests : Taken(q)'
    BY <1>4 DEF Taken, LockTypeOK
  <1> QED BY <1>5, <1>6, <1>7, <1>8

LEMMA LockNextIInv == LockIInv /\ [LockNext]_lockVars => LockIInv'
  <1> SUFFICES ASSUME LockIInv, [LockNext]_lockVars PROVE LockIInv' OBVIOUS
  <1>1. ASSUME NEW r \in Requests, NEW u \in Keys, NEW w \in BOOLEAN, Retain(r, u, w)
        PROVE  LockIInv'
    BY <1>1, RetainOldIInv, RetainNewIInv DEF Retain
  <1>2. ASSUME NEW r \in Requests,
               Acquire(r) \/ Abandon(r) \/ Unlock(r) \/ Release(r) \/ CancelContext(r)
        PROVE  LockIInv'
    BY <1>2, AcquireIInv, WaitIInv, UnlockIInv, ReleaseIInv
  <1>3. CASE UNCHANGED lockVars
    <2>1. LockTypeOK' BY <1>3 DEF LockIInv, LockTypeOK, lockVars
    <2> QED BY <2>1, <1>3 DEF LockIInv, lockVars, Agreed, Counted, Refs, Taken
  <1> QED BY <1>1, <1>2, <1>3 DEF LockNext

THEOREM LockInvariantHolds == LockSpec => []LockIInv
  BY LockInitIInv, LockNextIInv, PTL DEF LockSpec

(* Every variable keeps its type: use counts never go below zero.          *)
THEOREM LockTypeCorrect == LockSpec => []LockTypeOK
  <1>1. LockIInv => LockTypeOK BY DEF LockIInv
  <1> QED BY <1>1, LockInvariantHolds, PTL

(* No two requests are inside the action lock of one domain.               *)
THEOREM ActionsExclude == LockSpec => []MutualExclusion
  <1>1. LockIInv => MutualExclusion
    BY DEF LockIInv, Agreed, Taken, MutualExclusion, LockTypeOK
  <1> QED BY <1>1, LockInvariantHolds, PTL

(* The map holds exactly the locks in use.                                 *)
THEOREM LocksDoNotLeak == LockSpec => []NoLeak
  <1>1. LockIInv => NoLeak
    <2> SUFFICES ASSUME LockIInv, NEW u \in Keys
                 PROVE  actionLocks[u] # NoLock <=>
                          \E r \in Requests : pc[r] # "idle" /\ key[r] = u
      BY DEF NoLeak
    <2>1. ASSUME actionLocks[u] # NoLock
          PROVE  \E r \in Requests : pc[r] # "idle" /\ key[r] = u
      <3>1. PICK r \in Requests : lock[r] = actionLocks[u]
        BY <2>1 DEF LockIInv, Counted, Refs
      <3>2. pc[r] # "idle" /\ actionLocks[key[r]] = actionLocks[u] /\ key[r] \in Keys
        BY <2>1, <3>1 DEF LockIInv, Agreed, LockTypeOK
      <3> QED BY <2>1, <3>1, <3>2 DEF LockIInv, Counted
    <2>2. ASSUME NEW r \in Requests, pc[r] # "idle", key[r] = u
          PROVE  actionLocks[u] # NoLock
      BY <2>2, LockAssumption DEF LockIInv, Agreed
    <2> QED BY <2>1, <2>2
  <1> QED BY <1>1, LockInvariantHolds, PTL

(* Giving the token back never blocks.                                     *)
THEOREM UnlockIsImmediate == LockSpec => []UnlockNeverBlocks
  <1>1. LockIInv => UnlockNeverBlocks BY DEF LockIInv, Taken, UnlockNeverBlocks
  <1> QED BY <1>1, LockInvariantHolds, PTL

(* The lock objects implement one mutex per domain.                        *)
THEOREM RefinesMutex == LockSpec => ImplementsMutex
  <1>1. LockInit => Mutex!Init
    BY DEF LockInit, Mutex!Init, Phase
  <1>2. LockIInv /\ [LockNext]_lockVars => [Mutex!Next]_(Mutex!mutexVars)
    <2> SUFFICES ASSUME LockIInv, [LockNext]_lockVars
                 PROVE  [Mutex!Next]_(Mutex!mutexVars)
      OBVIOUS
    <2> USE DEF Phase, LockTypeOK
    <2>0. LockTypeOK BY DEF LockIInv
    <2>1. ASSUME NEW r \in Requests, NEW u \in Keys, NEW w \in BOOLEAN, Retain(r, u, w)
          PROVE  Mutex!Want(r, u)
      BY <2>0, <2>1 DEF Retain, Mutex!Want, Mutex!Moves
    <2>2. ASSUME NEW r \in Requests, Acquire(r) PROVE Mutex!Enter(r)
      <3>1. \A q \in Requests : pc[q] = "holding" => key[q] # key[r]
        BY <2>2 DEF LockIInv, Acquire, Agreed, Taken
      <3> QED BY <2>0, <2>2, <3>1 DEF Acquire, Mutex!Enter, Mutex!Moves
    <2>3. ASSUME NEW r \in Requests, Abandon(r) PROVE Mutex!GiveUp(r)
      BY <2>0, <2>3 DEF Abandon, Mutex!GiveUp, Mutex!Moves
    <2>4. ASSUME NEW r \in Requests, Unlock(r) PROVE Mutex!Leave(r)
      BY <2>0, <2>4 DEF Unlock, Mutex!Leave, Mutex!Moves
    <2>5. ASSUME NEW r \in Requests, Release(r) \/ CancelContext(r)
          PROVE  UNCHANGED Mutex!mutexVars
      BY <2>0, <2>5 DEF Release, CancelContext, Mutex!mutexVars
    <2>6. CASE UNCHANGED lockVars BY <2>6 DEF lockVars, Mutex!mutexVars
    <2> QED
      BY <2>1, <2>2, <2>3, <2>4, <2>5, <2>6 DEF LockNext, Mutex!Next
  <1> QED
    BY <1>1, <1>2, LockInvariantHolds, PTL DEF LockSpec, ImplementsMutex, Mutex!Spec
=============================================================================
