---------------------------- MODULE RouteProofs ----------------------------
(***************************************************************************)
(* The action and the snapshot routes use the lock of DomainActionLock as  *)
(* it is meant to be used, and what the lock then gives them, for any      *)
(* number of requests, domains and snapshots.                              *)
(***************************************************************************)
EXTENDS Snapshots, DomainActionLockProofs

(* The stages between the lock and the unlock function.                    *)
Inside == {"isActive", "getState", "operate", "recheck", "reread",
           "find", "check", "mutate", "metadata", "unlock"}

(* Where a request is in the lock follows from where it is in its work,    *)
(* and the key it locks is the UUID of the domain it works on.             *)
InStep(r) ==
    /\ stage[r] # "new" => ident[r] \in Keys
    /\ stage[r] \in Inside => pc[r] = "holding" /\ key[r] = DomOf(r)
    /\ stage[r] = "wait" => pc[r] = "waiting" /\ key[r] = DomOf(r)
    /\ stage[r] = "release" => pc[r] = "releasing"

StepInv ==
    /\ DOMAIN stage = Requests /\ DOMAIN ident = Requests
    /\ \A r \in Requests : InStep(r)

(* A name and a UUID denote a domain, and domains have locks.              *)
LEMMA DomainsHaveKeys ==
    ASSUME NEW i \in Keys PROVE Dom(i) \in Domains /\ Dom(i) \in Keys
  BY ActionsAssumption DEF Dom

(* The steps of an action on its lock are those of DomainActionLock.       *)
LEMMA ServeLocks ==
    ASSUME StepInv, NEW r \in Requests, Serve(r) PROVE [LockNext]_lockVars
<1>1. stage[r] # "new" => LockKey(r) \in Keys
  BY DomainsHaveKeys DEF StepInv, InStep, LockKey, DomOf
<1>2. CASE Lock(r) BY <1>2, <1>1 DEF Lock, Goes, LockNext
<1>3. CASE Locked(r) \/ GiveBack(r) \/ Leave(r)
  BY <1>3 DEF Locked, GiveBack, Leave, LockNext
<1>4. CASE LookupByName(r) \/ LookupByUUID(r) \/ Identity(r)
  BY <1>4 DEF LookupByName, LookupByUUID, Identity
<1>5. CASE IsActive(r) \/ GetState(r) \/ Operate(r) \/ Recheck(r) \/ Reread(r)
  BY <1>5 DEF IsActive, GetState, Operate, Recheck, Reread
<1> QED BY <1>2, <1>3, <1>4, <1>5 DEF Serve

(* The steps of a request on its lock are those of DomainActionLock.       *)
LEMMA LockStep == StepInv /\ [SnapshotsNext]_snapshotVars => [LockNext]_lockVars
<1> SUFFICES ASSUME StepInv, [SnapshotsNext]_snapshotVars PROVE [LockNext]_lockVars
  OBVIOUS
<1>1. ASSUME NEW r \in Requests, stage[r] # "new" PROVE LockKey(r) \in Keys
  BY <1>1, DomainsHaveKeys DEF StepInv, InStep, LockKey, DomOf
<1>2. ASSUME NEW r \in Requests, ServeSnapshot(r) PROVE [LockNext]_lockVars
  <2>1. CASE Shared(r)
    BY <2>1 DEF Shared, LookupByName, LookupByUUID, GiveBack, Leave, Identity, LockNext
  <2>2. CASE ListCurrent(r) \/ ListItems(r) \/ ListDescribe(r) \/ ListSorted(r)
    BY <2>2 DEF ListCurrent, ListItems, ListDescribe, ListSorted
  <2>3. CASE LockSnapshotAction(r)
    BY <2>3, <1>1 DEF LockSnapshotAction, Goes, LockNext
  <2>4. CASE Granted(r) \/ GiveUp(r)
    BY <2>4 DEF Granted, GiveUp, LockNext
  <2>5. CASE Find(r) \/ Check(r) \/ Mutate(r) \/ CreatedMetadata(r)
    BY <2>5 DEF Find, Check, Mutate, CreatedMetadata
  <2> QED BY <1>2, <2>1, <2>2, <2>3, <2>4, <2>5 DEF ServeSnapshot
<1>3. ASSUME NEW r \in Requests, Serve(r) PROVE [LockNext]_lockVars
  BY <1>3, ServeLocks
<1>4. ASSUME NEW r \in Requests, ClientLeaves(r) PROVE [LockNext]_lockVars
  BY <1>4 DEF ClientLeaves, LockNext
<1>5. ASSUME NEW r \in Requests, NEW o, NEW i, NEW s, NEW option,
             ArriveSnapshot(r, o, i, s, option)
      PROVE  [LockNext]_lockVars
  BY <1>5 DEF ArriveSnapshot, Arrive
<1>6. ASSUME NEW d \in Domains, VirshSnapshots(d) \/ GuestPowersOff(d) \/ VirshActs(d)
      PROVE  [LockNext]_lockVars
  BY <1>6 DEF VirshSnapshots, GuestPowersOff, VirshActs
<1>7. CASE UNCHANGED snapshotVars BY <1>7 DEF snapshotVars, actionVars
<1> QED BY <1>2, <1>3, <1>4, <1>5, <1>6, <1>7 DEF SnapshotsNext, ServeAction

-----------------------------------------------------------------------------
(***************************************************************************)
(* StepInv is kept.                                                        *)
(***************************************************************************)

Outside == {"byName", "byUUID", "identity", "lock", "items", "describe", "answered"}

(* A step of one request that leaves the others where they are.            *)
LEMMA StepFrame ==
    ASSUME StepInv, NEW r \in Requests, NEW to,
           stage' = [stage EXCEPT ![r] = to], ident' = ident,
           \A q \in Requests : q # r => pc'[q] = pc[q] /\ key'[q] = key[q],
           InStep(r)'
    PROVE  StepInv'
<1>1. DOMAIN stage' = Requests /\ DOMAIN ident' = Requests BY DEF StepInv
<1>2. ASSUME NEW q \in Requests, q # r PROVE InStep(q)'
  BY <1>2 DEF StepInv, InStep, DomOf, Dom
<1> QED BY <1>1, <1>2 DEF StepInv

(* A step that stays inside the lock, or outside.                          *)
LEMMA MoveKeeps ==
    ASSUME StepInv, NEW r \in Requests, NEW from, NEW to, Goes(r, from, to),
           UNCHANGED <<lockVars, ident>>,
           \/ from \in Inside /\ to \in Inside
           \/ from # "new" /\ to \in Outside
    PROVE  StepInv'
<1>1. stage[r] = from /\ stage' = [stage EXCEPT ![r] = to] /\ stage'[r] = to
  BY DEF Goes, StepInv
<1>2. UNCHANGED <<pc, key>> BY DEF lockVars
<1>3. InStep(r)' BY <1>1, <1>2 DEF StepInv, InStep, DomOf, Dom, Inside, Outside
<1> QED BY <1>1, <1>2, <1>3, StepFrame

(* A request arrives, with a name or a UUID.                               *)
LEMMA ArriveKeeps ==
    ASSUME StepInv, NEW r \in Requests, NEW o, NEW i \in Keys, Arrive(r, o, i)
    PROVE  StepInv'
<1>1. /\ stage' = [stage EXCEPT ![r] = "byName"] /\ ident' = [ident EXCEPT ![r] = i]
      /\ UNCHANGED <<pc, key>>
  BY DEF Arrive, Goes, lockVars
<1>2. ASSUME NEW q \in Requests PROVE InStep(q)'
  <2>1. CASE q = r BY <2>1, <1>1 DEF StepInv, InStep, Inside
  <2>2. CASE q # r BY <2>2, <1>1 DEF StepInv, InStep, DomOf, Dom
  <2> QED BY <2>1, <2>2
<1> QED BY <1>1, <1>2 DEF StepInv

(* The calls of the action routes.                                         *)
LEMMA ActionKeeps ==
    ASSUME StepInv, LockTypeOK, NEW r \in Requests, Serve(r)
    PROVE  StepInv'
<1>1. CASE LookupByName(r)
  <2>1. PICK to : Goes(r, "byName", to) /\ to \in Outside BY <1>1 DEF LookupByName, Outside
  <2> QED BY <1>1, <2>1, MoveKeeps DEF LookupByName
<1>2. CASE LookupByUUID(r)
  <2>1. PICK to : Goes(r, "byUUID", to) /\ to \in Outside BY <1>2 DEF LookupByUUID, Outside
  <2> QED BY <1>2, <2>1, MoveKeeps DEF LookupByUUID
<1>3. CASE Identity(r)
  <2>1. PICK to : Goes(r, "identity", to) /\ to \in Outside BY <1>3 DEF Identity, Outside
  <2> QED BY <1>3, <2>1, MoveKeeps DEF Identity
<1>4. CASE IsActive(r)
  <2>1. PICK to : Goes(r, "isActive", to) /\ "isActive" \in Inside /\ to \in Inside
    BY <1>4 DEF IsActive, Inside
  <2> QED BY <1>4, <2>1, MoveKeeps DEF IsActive
<1>5. CASE GetState(r)
  <2>1. PICK to : Goes(r, "getState", to) /\ "getState" \in Inside /\ to \in Inside
    BY <1>5 DEF GetState, Inside
  <2> QED BY <1>5, <2>1, MoveKeeps DEF GetState
<1>6. CASE Operate(r)
  <2>1. PICK to : Goes(r, "operate", to) /\ "operate" \in Inside /\ to \in Inside
    BY <1>6 DEF Operate, Inside
  <2> QED BY <1>6, <2>1, MoveKeeps DEF Operate
<1>7. CASE Recheck(r)
  <2>1. "recheck" \in Inside /\ "unlock" \in Inside BY DEF Inside
  <2> QED BY <1>7, <2>1, MoveKeeps DEF Recheck
<1>8. CASE Reread(r)
  <2>1. "reread" \in Inside /\ "unlock" \in Inside BY DEF Inside
  <2> QED BY <1>8, <2>1, MoveKeeps DEF Reread
<1>9. CASE Lock(r)
  <2>1. stage'[r] = "wait" /\ pc'[r] = "waiting" /\ key'[r] = LockKey(r) /\ ident[r] \in Keys
    BY <1>9 DEF Lock, Goes, Retain, StepInv, InStep, LockTypeOK
  <2>2. InStep(r)' BY <1>9, <2>1 DEF Lock, InStep, LockKey, DomOf, Dom, Inside
  <2> QED BY <1>9, <2>2, StepFrame DEF Lock, Goes, Retain, LockTypeOK
<1>10. CASE Locked(r)
  <2>1. PICK to : Goes(r, "wait", to) /\ to \in Inside BY <1>10 DEF Locked, Inside
  <2>2. stage'[r] \in Inside /\ pc'[r] = "holding" /\ key'[r] = DomOf(r) /\ ident[r] \in Keys
    BY <1>10, <2>1 DEF Locked, Goes, Acquire, StepInv, InStep, LockTypeOK
  <2>3. InStep(r)' BY <1>10, <2>2 DEF Locked, InStep, DomOf, Dom, Inside
  <2> QED BY <1>10, <2>1, <2>3, StepFrame DEF Locked, Goes, Acquire, LockTypeOK
<1>11. CASE GiveBack(r)
  <2>1. stage'[r] = "release" /\ pc'[r] = "releasing" /\ ident[r] \in Keys
    BY <1>11 DEF GiveBack, Goes, Unlock, StepInv, InStep, LockTypeOK
  <2>2. InStep(r)' BY <1>11, <2>1 DEF GiveBack, InStep, Inside
  <2> QED BY <1>11, <2>2, StepFrame DEF GiveBack, Goes, Unlock, LockTypeOK
<1>12. CASE Leave(r)
  <2>1. stage'[r] = "answered" /\ ident[r] \in Keys
    BY <1>12 DEF Leave, Goes, StepInv, InStep
  <2>2. InStep(r)' BY <1>12, <2>1 DEF Leave, InStep, Inside
  <2> QED BY <1>12, <2>2, StepFrame DEF Leave, Goes, Release, LockTypeOK
<1> QED BY <1>1, <1>2, <1>3, <1>4, <1>5, <1>6, <1>7, <1>8, <1>9, <1>10, <1>11, <1>12
        DEF Serve

(* The calls of the snapshot routes.                                       *)
LEMMA SnapshotKeeps ==
    ASSUME StepInv, LockTypeOK, NEW r \in Requests, ServeSnapshot(r)
    PROVE  StepInv'
<1>1. CASE Shared(r)
  BY <1>1, ActionKeeps DEF Shared, Serve
<1>2. CASE ListCurrent(r)
  <2>1. PICK to : Goes(r, "identity", to) /\ to \in Outside BY <1>2 DEF ListCurrent, Outside
  <2> QED BY <1>2, <2>1, MoveKeeps DEF ListCurrent
<1>3. CASE ListItems(r)
  <2>1. PICK to : Goes(r, "items", to) /\ to \in Outside BY <1>3 DEF ListItems, Outside
  <2> QED BY <1>3, <2>1, MoveKeeps DEF ListItems
<1>4. CASE ListDescribe(r)
  <2>1. UNCHANGED stage \/ Goes(r, "describe", "answered") BY <1>4 DEF ListDescribe
  <2>2. CASE UNCHANGED stage
    BY <1>4, <2>2 DEF ListDescribe, StepInv, InStep, DomOf, Dom, lockVars
  <2>3. "answered" \in Outside BY DEF Outside
  <2> QED BY <1>4, <2>1, <2>2, <2>3, MoveKeeps DEF ListDescribe
<1>5. CASE ListSorted(r)
  <2>1. "answered" \in Outside BY DEF Outside
  <2> QED BY <1>5, <2>1, MoveKeeps DEF ListSorted
<1>6. CASE LockSnapshotAction(r)
  <2>1. stage'[r] = "wait" /\ pc'[r] = "waiting" /\ key'[r] = LockKey(r) /\ ident[r] \in Keys
    BY <1>6 DEF LockSnapshotAction, Goes, Retain, StepInv, InStep, LockTypeOK
  <2>2. InStep(r)' BY <1>6, <2>1 DEF LockSnapshotAction, InStep, LockKey, DomOf, Dom, Inside
  <2> QED BY <1>6, <2>2, StepFrame DEF LockSnapshotAction, Goes, Retain, LockTypeOK
<1>7. CASE Granted(r)
  <2>1. PICK to : Goes(r, "wait", to) /\ to \in Inside BY <1>7 DEF Granted, Inside
  <2>2. stage'[r] \in Inside /\ pc'[r] = "holding" /\ key'[r] = DomOf(r) /\ ident[r] \in Keys
    BY <1>7, <2>1 DEF Granted, Goes, Acquire, StepInv, InStep, LockTypeOK
  <2>3. InStep(r)' BY <1>7, <2>2 DEF Granted, InStep, DomOf, Dom, Inside
  <2> QED BY <1>7, <2>1, <2>3, StepFrame DEF Granted, Goes, Acquire, LockTypeOK
<1>8. CASE GiveUp(r)
  <2>1. stage'[r] = "release" /\ pc'[r] = "releasing" /\ ident[r] \in Keys
    BY <1>8 DEF GiveUp, Goes, Abandon, StepInv, InStep, LockTypeOK
  <2>2. InStep(r)' BY <1>8, <2>1 DEF GiveUp, InStep, Inside
  <2> QED BY <1>8, <2>2, StepFrame DEF GiveUp, Goes, Abandon, LockTypeOK
<1>9. CASE Find(r)
  <2>1. PICK to : Goes(r, "find", to) /\ "find" \in Inside /\ to \in Inside
    BY <1>9 DEF Find, Inside
  <2> QED BY <1>9, <2>1, MoveKeeps DEF Find
<1>10. CASE Check(r)
  <2>1. PICK to : Goes(r, "check", to) /\ "check" \in Inside /\ to \in Inside
    BY <1>10 DEF Check, Inside
  <2> QED BY <1>10, <2>1, MoveKeeps DEF Check
<1>11. CASE Mutate(r)
  <2>1. PICK to : Goes(r, "mutate", to) /\ "mutate" \in Inside /\ to \in Inside
    BY <1>11 DEF Mutate, Inside
  <2> QED BY <1>11, <2>1, MoveKeeps DEF Mutate
<1>12. CASE CreatedMetadata(r)
  <2>1. "metadata" \in Inside /\ "unlock" \in Inside BY DEF Inside
  <2> QED BY <1>12, <2>1, MoveKeeps DEF CreatedMetadata
<1> QED BY <1>1, <1>2, <1>3, <1>4, <1>5, <1>6, <1>7, <1>8, <1>9, <1>10, <1>11, <1>12
        DEF ServeSnapshot

(* Every step keeps StepInv.                                               *)
LEMMA NextKeeps ==
    StepInv /\ LockTypeOK /\ [SnapshotsNext]_snapshotVars => StepInv'
<1> SUFFICES ASSUME StepInv, LockTypeOK, [SnapshotsNext]_snapshotVars PROVE StepInv'
  OBVIOUS
<1>1. ASSUME NEW r \in Requests, NEW o, NEW i \in Keys, NEW s, NEW option,
             ArriveSnapshot(r, o, i, s, option)
      PROVE  StepInv'
  BY <1>1, ArriveKeeps DEF ArriveSnapshot
<1>2. ASSUME NEW r \in Requests, ClientLeaves(r) PROVE StepInv'
  BY <1>2 DEF ClientLeaves, CancelContext, requestVars, StepInv, InStep, DomOf, Dom
<1>3. ASSUME NEW d \in Domains, VirshSnapshots(d) \/ GuestPowersOff(d) \/ VirshActs(d)
      PROVE  StepInv'
  <2>1. UNCHANGED <<lockVars, requestVars>>
    BY <1>3 DEF VirshSnapshots, GuestPowersOff, VirshActs
  <2> QED BY <2>1 DEF lockVars, requestVars, StepInv, InStep, DomOf, Dom
<1>4. CASE UNCHANGED snapshotVars
  BY <1>4 DEF snapshotVars, actionVars, lockVars, requestVars, StepInv, InStep, DomOf, Dom
<1> QED BY <1>1, <1>2, <1>3, <1>4, ActionKeeps, SnapshotKeeps DEF SnapshotsNext, ServeAction

(* StepInv and the lock's own invariant hold together.                     *)
THEOREM SnapshotsInvariant == SnapshotsSpec => [](StepInv /\ LockIInv)
<1>1. SnapshotsInit => StepInv /\ LockIInv
  <2> SUFFICES ASSUME SnapshotsInit PROVE StepInv /\ LockIInv
    OBVIOUS
  <2>1. LockIInv BY LockInitIInv DEF SnapshotsInit, ActionsInit
  <2>2. StepInv BY DEF SnapshotsInit, ActionsInit, StepInv, InStep, Inside
  <2> QED BY <2>1, <2>2
<1>2. StepInv /\ LockIInv /\ [SnapshotsNext]_snapshotVars => (StepInv /\ LockIInv)'
  BY NextKeeps, LockStep, LockNextIInv DEF LockIInv
<1> QED BY <1>1, <1>2, PTL DEF SnapshotsSpec

(* The action and snapshot routes use the lock as DomainActionLock says,   *)
(* so that every theorem about the lock holds of them.                     *)
THEOREM RoutesRunLock == SnapshotsSpec => LockSpec
<1>1. SnapshotsInit => LockInit BY DEF SnapshotsInit, ActionsInit
<1> QED BY <1>1, LockStep, SnapshotsInvariant, PTL DEF SnapshotsSpec, LockSpec

-----------------------------------------------------------------------------
(***************************************************************************)
(* The action routes alone, with libvirtd failing or not supporting calls: *)
(* each request is served as if in one step.                               *)
(***************************************************************************)

Undecided == {"new", "byName", "byUUID", "identity", "lock", "wait", "isActive",
              "getState", "operate", "recheck"}
Faults == {"OTHER"} \cup Unsupported

(* What a request has found out about its domain, and that it is still so: *)
(* nobody else acts while it has the lock.                                 *)
Checked(r) ==
    /\ stage[r] # "new" => op[r] \in Operations
    /\ stage[r] \in Undecided => status[r] = Nothing
    /\ stage[r] = "isActive" => op[r] \notin Autostarts
    /\ stage[r] = "getState" => /\ op[r] \notin Autostarts \cup {"start", "stop"}
                                /\ power[DomOf(r)] # "shutoff"
    /\ stage[r] = "operate" =>
         /\ Atomic!Fits(op[r], power[DomOf(r)])
         /\ op[r] \in {"shutdown", "reboot"} => saw[r] = power[DomOf(r)]
    /\ stage[r] = "recheck" => /\ Atomic!Fits(op[r], power[DomOf(r)])
                               /\ op[r] \in {"start", "stop", "shutdown"}
                               /\ err[r] \in Faults
    /\ stage[r] = "reread" => status[r] = "ok" /\ result[r] = power[DomOf(r)]

RequestTypes ==
    /\ DOMAIN op = Requests /\ DOMAIN saw = Requests /\ DOMAIN err = Requests
    /\ DOMAIN status = Requests /\ DOMAIN result = Requests

DomainTypes ==
    /\ life = [d \in Domains |-> "persistent"]
    /\ power \in [Domains -> {"shutoff", "running", "paused"}]
    /\ autostart \in [Domains -> Autostarts]

AtomicInv == RequestTypes /\ DomainTypes /\ \A r \in Requests : Checked(r)

(* The domain of a request that has arrived.                               *)
LEMMA DomOfType ==
    ASSUME StepInv, NEW r \in Requests, stage[r] # "new" PROVE DomOf(r) \in Domains
  BY DomainsHaveKeys DEF StepInv, InStep, DomOf

(* A request that holds the lock is alone inside for its domain.           *)
LEMMA AloneInside ==
    ASSUME StepInv, LockIInv, NEW r \in Requests, NEW q \in Requests, r # q,
           stage[r] \in Inside, stage[q] \in Inside
    PROVE  DomOf(r) # DomOf(q)
  BY DEF StepInv, InStep, LockIInv, Agreed, Taken

(* A step of r leaves what the other requests are doing alone.             *)
Alone(r) ==
    /\ \A q \in Requests \ {r} :
         /\ stage'[q] = stage[q] /\ op'[q] = op[q] /\ ident'[q] = ident[q]
         /\ saw'[q] = saw[q] /\ err'[q] = err[q]
         /\ status'[q] = status[q] /\ result'[q] = result[q]
    /\ RequestTypes'

LEMMA ServeAlone ==
    ASSUME StepInv, RequestTypes, NEW r \in Requests, Serve(r)
    PROVE  /\ Alone(r)
           /\ stage[r] # "new" /\ stage'[r] # "new" /\ UNCHANGED <<op, ident>>
<1> USE DEF Alone, RequestTypes, StepInv, Goes, Answer, Fails
<1>1. CASE LookupByName(r) BY <1>1 DEF LookupByName
<1>2. CASE LookupByUUID(r) BY <1>2 DEF LookupByUUID
<1>3. CASE Identity(r) BY <1>3 DEF Identity
<1>4. CASE Lock(r) \/ Locked(r) \/ GiveBack(r) \/ Leave(r)
  BY <1>4 DEF Lock, Locked, GiveBack, Leave
<1>5. CASE IsActive(r) BY <1>5 DEF IsActive
<1>6. CASE GetState(r) BY <1>6 DEF GetState
<1>7. CASE Operate(r) BY <1>7 DEF Operate
<1>8. CASE Recheck(r) BY <1>8 DEF Recheck
<1>9. CASE Reread(r) BY <1>9 DEF Reread
<1> QED BY <1>1, <1>2, <1>3, <1>4, <1>5, <1>6, <1>7, <1>8, <1>9 DEF Serve

(* What the others have found out is still so.                             *)
LEMMA OthersChecked ==
    ASSUME StepInv, LockIInv, AtomicInv, NEW r \in Requests, Alone(r),
           \/ UNCHANGED power
           \/ /\ stage[r] \in Inside
              /\ \A d \in Domains \ {DomOf(r)} : power'[d] = power[d],
           NEW q \in Requests, q # r
    PROVE  Checked(q)'
<1>1. /\ stage'[q] = stage[q] /\ op'[q] = op[q] /\ ident'[q] = ident[q]
      /\ saw'[q] = saw[q] /\ err'[q] = err[q]
      /\ status'[q] = status[q] /\ result'[q] = result[q]
  BY DEF Alone
<1>2. DomOf(q)' = DomOf(q) BY <1>1 DEF DomOf, Dom
<1>3. stage[q] \in Inside => power'[DomOf(q)] = power[DomOf(q)]
  <2>1. SUFFICES ASSUME stage[q] \in Inside PROVE power'[DomOf(q)] = power[DomOf(q)]
    OBVIOUS
  <2>2. DomOf(q) \in Domains BY <2>1, DomOfType DEF Inside
  <2>3. stage[r] \in Inside => DomOf(q) # DomOf(r) BY <2>1, AloneInside
  <2> QED BY <2>2, <2>3
<1>4. Checked(q) BY DEF AtomicInv
<1> QED BY <1>1, <1>2, <1>3, <1>4 DEF Checked, Atomic!Fits, Atomic!Active, Inside

-----------------------------------------------------------------------------

(* How a step of one request looks to AtomicActions: the other requests    *)
(* want and are answered what they were.                                   *)
LEMMA MapsAlone ==
    ASSUME RequestTypes, NEW r \in Requests, Alone(r), UNCHANGED <<op, ident>>,
           stage[r] # "new", stage'[r] # "new"
    PROVE  /\ [q \in Requests |-> WantedBy(q)]' = [q \in Requests |-> WantedBy(q)]
           /\ [q \in Requests |-> AnswerTo(q)]'
                = [[q \in Requests |-> AnswerTo(q)] EXCEPT ![r] = AnswerTo(r)']
<1>1. \A q \in Requests : WantedBy(q)' = WantedBy(q)
  BY DEF WantedBy, Alone, DomOf, Dom
<1>2. \A q \in Requests \ {r} : AnswerTo(q)' = AnswerTo(q)
  BY DEF AnswerTo, Alone
<1> HIDE DEF AnswerTo, WantedBy
<1> QED BY <1>1, <1>2

(* A step that neither answers nor changes a domain.                       *)
LEMMA StutterMaps ==
    ASSUME RequestTypes, NEW r \in Requests, Alone(r), UNCHANGED <<op, ident>>,
           stage[r] # "new", stage'[r] # "new",
           status'[r] = status[r], result'[r] = result[r],
           err'[r] = err[r] \/ status[r] \in {Nothing, "ok", "409"},
           UNCHANGED <<power, autostart>>
    PROVE  UNCHANGED Atomic!atomicVars
<1>1. AnswerTo(r)' = AnswerTo(r) BY ActionsAssumption DEF AnswerTo
<1> HIDE DEF AnswerTo, WantedBy
<1>2. [q \in Requests |-> AnswerTo(q)]' = [q \in Requests |-> AnswerTo(q)]
  BY <1>1, MapsAlone
<1> QED BY <1>2, MapsAlone DEF Atomic!atomicVars

(* libvirt failed.                                                         *)
LEMMA FailMaps ==
    ASSUME StepInv, AtomicInv, NEW r \in Requests, Alone(r), UNCHANGED <<op, ident>>,
           stage[r] # "new", stage'[r] # "new",
           status[r] = Nothing, status'[r] \in {"422", "503"}, err'[r] \in Faults,
           UNCHANGED <<power, autostart>>
    PROVE  Atomic!Fail(r)
<1>1. AnswerTo(r) = Nothing /\ AnswerTo(r)' = [status |-> "failed", state |-> "none"]
  BY ActionsAssumption DEF AnswerTo, Faults
<1>2. WantedBy(r) # Nothing
  BY DomOfType, ActionsAssumption DEF WantedBy, AtomicInv, Checked
<1> HIDE DEF AnswerTo, WantedBy
<1> QED BY <1>1, <1>2, MapsAlone DEF Atomic!Fail, AtomicInv

(* The operation does not fit the state.                                   *)
LEMMA ConflictMaps ==
    ASSUME StepInv, AtomicInv, NEW r \in Requests, Alone(r), UNCHANGED <<op, ident>>,
           stage[r] # "new", stage'[r] # "new",
           status[r] = Nothing, status'[r] = "409",
           ~Atomic!Fits(op[r], power[DomOf(r)]),
           UNCHANGED <<power, autostart>>
    PROVE  Atomic!Serve(r)
<1>1. AnswerTo(r) = Nothing /\ AnswerTo(r)' = [status |-> "conflict", state |-> "none"]
  BY ActionsAssumption DEF AnswerTo
<1>2. WantedBy(r) # Nothing
  BY DomOfType, ActionsAssumption DEF WantedBy, AtomicInv, Checked
<1>3. WantedBy(r).op = op[r] /\ WantedBy(r).dom = DomOf(r) BY DEF WantedBy
<1> HIDE DEF AnswerTo, WantedBy
<1> QED BY <1>1, <1>2, <1>3, MapsAlone DEF Atomic!Serve, AtomicInv

(* A persistent domain that nobody else touches is not gone.               *)
LEMMA NotGone ==
    ASSUME DomainTypes, NEW d \in Domains
    PROVE  QueryErrors(d) \subseteq {"none", "OTHER"}
  BY DEF DomainTypes, QueryErrors

(* What is to be shown of a step.                                          *)
Faithful(r) == AtomicInv' /\ [Atomic!Serve(r) \/ Atomic!Fail(r)]_(Atomic!atomicVars)

LEMMA StepKeepsAtomic ==
    ASSUME StepInv, LockIInv, AtomicInv, NEW r \in Requests, Alone(r), UNCHANGED power,
           UNCHANGED <<life, autostart>>, Checked(r)'
    PROVE  AtomicInv'
<1>1. \A q \in Requests : Checked(q)' BY OthersChecked
<1> QED BY <1>1 DEF AtomicInv, DomainTypes, Alone

(* Up to the lock: nothing is known of the domain's state.                 *)
LEMMA LookupFaithful ==
    ASSUME StepInv, LockIInv, AtomicInv, NEW r \in Requests,
           LookupByName(r) \/ LookupByUUID(r) \/ Identity(r) \/ Lock(r) \/ Locked(r)
    PROVE  Faithful(r)
<1>1. Alone(r) /\ stage[r] # "new" /\ stage'[r] # "new" /\ UNCHANGED <<op, ident>>
  BY ServeAlone DEF Serve, AtomicInv
<1>2. UNCHANGED domainVars
  BY DEF LookupByName, LookupByUUID, Identity, Lock, Locked
<1>3. DomOf(r) \in Domains BY <1>1, DomOfType
<1>4. ident[r] \in Names \/ ident[r] \in Domains
  BY <1>1, ActionsAssumption DEF StepInv, InStep
<1>5. QueryErrors(DomOf(r)) \subseteq {"none", "OTHER"} BY <1>3, NotGone DEF AtomicInv
<1>6. DomOf(r)' = DomOf(r) BY <1>1 DEF DomOf, Dom
<1>7. \/ /\ UNCHANGED <<err, status, result, saw>>
         /\ stage'[r] \in {"identity", "byUUID", "lock", "wait", "isActive", "operate"}
         /\ stage'[r] = "operate" <=> stage[r] = "wait" /\ op[r] \in Autostarts
         /\ stage'[r] = "isActive" => op[r] \notin Autostarts
      \/ /\ stage'[r] = "answered" /\ status'[r] = "503" /\ err'[r] = "OTHER"
  <2> USE DEF Goes, Answer, Fails, StepInv, AtomicInv, RequestTypes
  <2>1. CASE LookupByName(r) BY <2>1, <1>4, <1>5 DEF LookupByName
  <2>2. CASE LookupByUUID(r) BY <2>2, <1>5 DEF LookupByUUID
  <2>3. CASE Identity(r) BY <2>3 DEF Identity
  <2>4. CASE Lock(r) \/ Locked(r) BY <2>4 DEF Lock, Locked
  <2> QED BY <2>1, <2>2, <2>3, <2>4
<1>8. stage[r] \in Undecided \ {"new"} /\ status[r] = Nothing /\ op[r] \in Operations
  BY DEF LookupByName, LookupByUUID, Identity, Lock, Locked, Goes, AtomicInv, Checked,
         Undecided
<1>9. Checked(r)'
  BY <1>1, <1>6, <1>7, <1>8 DEF Checked, Undecided, Atomic!Fits, Autostarts
<1>10. AtomicInv' BY <1>1, <1>2, <1>9, StepKeepsAtomic DEF domainVars
<1>11. [Atomic!Serve(r) \/ Atomic!Fail(r)]_(Atomic!atomicVars)
  <2>1. CASE UNCHANGED <<err, status, result, saw>>
    BY <1>1, <1>2, <2>1, StutterMaps DEF domainVars, AtomicInv
  <2>2. CASE status'[r] = "503" /\ err'[r] = "OTHER"
    BY <1>1, <1>2, <1>8, <2>2, FailMaps DEF domainVars, Faults
  <2> QED BY <1>7, <2>1, <2>2
<1> QED BY <1>10, <1>11 DEF Faithful

LEMMA IsActiveFaithful ==
    ASSUME StepInv, LockIInv, AtomicInv, NEW r \in Requests, IsActive(r)
    PROVE  Faithful(r)
<1>1. Alone(r) /\ stage[r] = "isActive" /\ stage'[r] # "new" /\ UNCHANGED <<op, ident>>
  BY ServeAlone DEF Serve, AtomicInv, IsActive
<1>2. UNCHANGED <<domainVars, saw, result>> BY DEF IsActive
<1>3. DomOf(r) \in Domains BY <1>1, DomOfType
<1>5. QueryErrors(DomOf(r)) \subseteq {"none", "OTHER"} BY <1>3, NotGone DEF AtomicInv
<1>6. DomOf(r)' = DomOf(r) BY <1>1 DEF DomOf, Dom
<1>7. \/ stage'[r] = "unlock" /\ status'[r] = "503" /\ err'[r] = "OTHER"
      \/ /\ stage'[r] = "unlock" /\ status'[r] = "409" /\ UNCHANGED err
         /\ op[r] = "start" <=> Active(DomOf(r))
      \/ /\ stage'[r] = (IF op[r] \in {"start", "stop"} THEN "operate" ELSE "getState")
         /\ ~(op[r] = "start" <=> Active(DomOf(r)))
         /\ UNCHANGED <<err, status>>
  BY <1>5 DEF IsActive, Goes, Answer, Fails, StepInv, AtomicInv, RequestTypes
<1>8. op[r] \notin Autostarts /\ status[r] = Nothing /\ op[r] \in Operations
  BY <1>1 DEF AtomicInv, Checked, Undecided
<1>9. Checked(r)'
  BY <1>1, <1>2, <1>6, <1>7, <1>8 DEF Checked, Undecided, Atomic!Fits, Atomic!Active,
     Autostarts, Active, domainVars
<1>10. AtomicInv' BY <1>1, <1>2, <1>9, StepKeepsAtomic DEF domainVars
<1>11. [Atomic!Serve(r) \/ Atomic!Fail(r)]_(Atomic!atomicVars)
  <2>1. CASE UNCHANGED <<err, status>>
    BY <1>1, <1>2, <2>1, StutterMaps DEF domainVars, AtomicInv
  <2>2. CASE status'[r] = "503" /\ err'[r] = "OTHER"
    BY <1>1, <1>2, <1>8, <2>2, FailMaps DEF domainVars, Faults
  <2>3. CASE status'[r] = "409" /\ (op[r] = "start" <=> Active(DomOf(r)))
    <3>1. ~Atomic!Fits(op[r], power[DomOf(r)])
      BY <1>8, <2>3 DEF Atomic!Fits, Atomic!Active, Active, Autostarts
    <3> QED BY <1>1, <1>2, <1>8, <2>3, <3>1, ConflictMaps DEF domainVars
  <2> QED BY <1>7, <2>1, <2>2, <2>3
<1> QED BY <1>10, <1>11 DEF Faithful

LEMMA GetStateFaithful ==
    ASSUME StepInv, LockIInv, AtomicInv, NEW r \in Requests, GetState(r)
    PROVE  Faithful(r)
<1>1. Alone(r) /\ stage[r] = "getState" /\ stage'[r] # "new" /\ UNCHANGED <<op, ident>>
  BY ServeAlone DEF Serve, AtomicInv, GetState
<1>2. UNCHANGED <<domainVars, result>> BY DEF GetState
<1>3. DomOf(r) \in Domains BY <1>1, DomOfType
<1>5. QueryErrors(DomOf(r)) \subseteq {"none", "OTHER"} BY <1>3, NotGone DEF AtomicInv
<1>6. DomOf(r)' = DomOf(r) BY <1>1 DEF DomOf, Dom
<1>7. \/ stage'[r] = "unlock" /\ status'[r] = "503" /\ err'[r] = "OTHER"
      \/ /\ stage'[r] = "unlock" /\ status'[r] = "409" /\ UNCHANGED err
         /\ AlreadySo(op[r], power[DomOf(r)])
      \/ /\ stage'[r] = "operate" /\ ~AlreadySo(op[r], power[DomOf(r)])
         /\ saw'[r] = power[DomOf(r)]
         /\ UNCHANGED <<err, status>>
  BY <1>5 DEF GetState, Goes, Answer, Fails, StepInv, AtomicInv, RequestTypes
<1>8. /\ op[r] \notin Autostarts \cup {"start", "stop"} /\ power[DomOf(r)] # "shutoff"
      /\ status[r] = Nothing /\ op[r] \in Operations
      /\ power[DomOf(r)] \in {"shutoff", "running", "paused"}
  BY <1>1, <1>3 DEF AtomicInv, Checked, Undecided, DomainTypes
<1>9. Checked(r)'
  BY <1>1, <1>2, <1>6, <1>7, <1>8 DEF Checked, Undecided, Atomic!Fits, Atomic!Active,
     Autostarts, AlreadySo, domainVars
<1>10. AtomicInv' BY <1>1, <1>2, <1>9, StepKeepsAtomic DEF domainVars
<1>11. [Atomic!Serve(r) \/ Atomic!Fail(r)]_(Atomic!atomicVars)
  <2>1. CASE UNCHANGED <<err, status>>
    BY <1>1, <1>2, <2>1, StutterMaps DEF domainVars, AtomicInv
  <2>2. CASE status'[r] = "503" /\ err'[r] = "OTHER"
    BY <1>1, <1>2, <1>8, <2>2, FailMaps DEF domainVars, Faults
  <2>3. CASE status'[r] = "409" /\ AlreadySo(op[r], power[DomOf(r)])
    <3>1. ~Atomic!Fits(op[r], power[DomOf(r)])
      BY <1>8, <2>3 DEF Atomic!Fits, Atomic!Active, AlreadySo
    <3> QED BY <1>1, <1>2, <1>8, <2>3, <3>1, ConflictMaps DEF domainVars
  <2> QED BY <1>7, <2>1, <2>2, <2>3
<1> QED BY <1>10, <1>11 DEF Faithful

(* libvirt refuses an operation that fits only because it fails.           *)
LEMMA FitsSucceeds ==
    ASSUME DomainTypes, NEW d \in Domains, NEW o \in ActionOps, Atomic!Fits(o, power[d])
    PROVE  CallErrors(o, d) \subseteq {"none"} \cup Faults
  BY DEF DomainTypes, CallErrors, Atomic!Fits, Atomic!Active, Active, Faults, ActionOps

(* What an operation does is what AtomicActions says.                      *)
LEMMA EffectIsAtomic ==
    ASSUME DomainTypes, NEW d \in Domains, NEW o \in ActionOps, Effect(o, d)
    PROVE  /\ power' = [power EXCEPT ![d] = Atomic!Leaves(o, @)]
           /\ autostart' = [autostart EXCEPT ![d] = IF o \in {"enable", "disable"}
                                                    THEN o ELSE @]
           /\ DomainTypes'
<1> USE DEF DomainTypes, Effect, SetPower, PowerOff, domainVars, Autostarts
<1>1. CASE o \in {"start", "resume", "pause"}
  BY <1>1 DEF Atomic!Leaves
<1>2. CASE o = "stop"
  <2>1. life' = life BY <1>2
  <2> QED BY <1>2, <2>1 DEF Atomic!Leaves
<1>3. CASE o \in {"enable", "disable"}
  BY <1>3 DEF Atomic!Leaves
<1>4. CASE o \in {"shutdown", "reboot", "reset"}
  BY <1>4 DEF Atomic!Leaves
<1> QED BY <1>1, <1>2, <1>3, <1>4 DEF ActionOps

LEMMA OperateFaithful ==
    ASSUME Operations \subseteq ActionOps,
           StepInv, LockIInv, AtomicInv, NEW r \in Requests, Operate(r)
    PROVE  Faithful(r)
<1>1. Alone(r) /\ stage[r] = "operate" /\ stage'[r] # "new" /\ UNCHANGED <<op, ident>>
  BY ServeAlone DEF Serve, AtomicInv, Operate
<1>2. DomOf(r) \in Domains BY <1>1, DomOfType
<1>3. /\ op[r] \in ActionOps /\ op[r] \in Operations /\ status[r] = Nothing
      /\ Atomic!Fits(op[r], power[DomOf(r)])
      /\ op[r] \in {"shutdown", "reboot"} => saw[r] = power[DomOf(r)]
  BY <1>1 DEF AtomicInv, Checked, Undecided
<1>4. CallErrors(op[r], DomOf(r)) \subseteq {"none"} \cup Faults
  BY <1>2, <1>3, FitsSucceeds DEF AtomicInv
<1>5. DomOf(r)' = DomOf(r) BY <1>1 DEF DomOf, Dom
<1>6. CASE /\ stage'[r] = (IF op[r] = "shutdown" THEN "reread" ELSE "unlock")
           /\ status'[r] = "ok" /\ result'[r] = Reported(r)
           /\ Effect(op[r], DomOf(r))
  <2>1. /\ power' = [power EXCEPT ![DomOf(r)] = Atomic!Leaves(op[r], @)]
        /\ autostart' = [autostart EXCEPT ![DomOf(r)] =
                           IF op[r] \in {"enable", "disable"} THEN op[r] ELSE @]
        /\ DomainTypes'
    BY <1>2, <1>3, <1>6, EffectIsAtomic DEF AtomicInv
  <2>2. Reported(r) = Atomic!Reports(op[r], power[DomOf(r)])
    BY <1>3 DEF Reported, Atomic!Reports, Atomic!Leaves, ActionOps, Autostarts
  <2>3. op[r] = "shutdown" => result'[r] = power'[DomOf(r)]
    BY <1>2, <1>3, <1>6, <2>1, <2>2 DEF Atomic!Reports, Atomic!Leaves, AtomicInv, DomainTypes
  <2>4. Checked(r)' BY <1>1, <1>3, <1>5, <1>6, <2>3 DEF Checked, Undecided
  <2>5. \A q \in Requests : Checked(q)'
    <3>1. stage[r] \in Inside /\ \A d \in Domains \ {DomOf(r)} : power'[d] = power[d]
      BY <1>1, <2>1 DEF Inside, AtomicInv, DomainTypes
    <3> QED BY <1>1, <2>4, <3>1, OthersChecked
  <2>6. AtomicInv' BY <1>1, <2>1, <2>5 DEF AtomicInv, Alone
  <2>7. /\ AnswerTo(r) = Nothing
        /\ AnswerTo(r)' = [status |-> "ok", state |-> Atomic!Reports(op[r], power[DomOf(r)])]
    BY <1>3, <1>6, <2>2, ActionsAssumption DEF AnswerTo
  <2>8. WantedBy(r) # Nothing
    BY <1>1, <1>2, <1>3, ActionsAssumption DEF WantedBy
  <2>9. WantedBy(r).op = op[r] /\ WantedBy(r).dom = DomOf(r) BY <1>1 DEF WantedBy
  <2>10. /\ [q \in Requests |-> WantedBy(q)]' = [q \in Requests |-> WantedBy(q)]
         /\ [q \in Requests |-> AnswerTo(q)]'
              = [[q \in Requests |-> AnswerTo(q)] EXCEPT ![r] = AnswerTo(r)']
    BY <1>1, MapsAlone DEF AtomicInv
  <2> HIDE DEF AnswerTo, WantedBy
  <2>11. Atomic!Serve(r)
    BY <1>3, <2>1, <2>7, <2>8, <2>9, <2>10 DEF Atomic!Serve
  <2> QED BY <2>6, <2>11 DEF Faithful
<1>7. CASE /\ op[r] \in {"start", "stop", "shutdown"}
           /\ stage'[r] = "recheck" /\ err'[r] \in Faults
           /\ UNCHANGED <<status, result, domainVars>>
  <2>1. Checked(r)' BY <1>1, <1>3, <1>5, <1>7 DEF Checked, Undecided, domainVars
  <2>2. AtomicInv' BY <1>1, <1>7, <2>1, StepKeepsAtomic DEF domainVars
  <2>3. UNCHANGED Atomic!atomicVars
    BY <1>1, <1>3, <1>7, StutterMaps DEF domainVars, AtomicInv
  <2> QED BY <2>2, <2>3 DEF Faithful
<1>8. CASE /\ stage'[r] = "unlock" /\ err'[r] \in Faults
           /\ \E e \in Faults : status'[r] = Classified(op[r], e)
           /\ UNCHANGED <<result, domainVars>>
  <2>1. status'[r] \in {"422", "503"} BY <1>8 DEF Classified, Faults, Unsupported
  <2>2. Checked(r)' BY <1>1, <1>3, <1>8 DEF Checked, Undecided
  <2>3. AtomicInv' BY <1>1, <1>8, <2>2, StepKeepsAtomic DEF domainVars
  <2>4. Atomic!Fail(r) BY <1>1, <1>3, <1>8, <2>1, FailMaps DEF domainVars
  <2> QED BY <2>3, <2>4 DEF Faithful
<1> QED
  <2>1. \/ /\ stage'[r] = (IF op[r] = "shutdown" THEN "reread" ELSE "unlock")
           /\ status'[r] = "ok" /\ result'[r] = Reported(r)
           /\ Effect(op[r], DomOf(r))
        \/ /\ op[r] \in {"start", "stop", "shutdown"}
           /\ stage'[r] = "recheck" /\ err'[r] \in Faults
           /\ UNCHANGED <<status, result, domainVars>>
        \/ /\ stage'[r] = "unlock" /\ err'[r] \in Faults
           /\ \E e \in Faults : status'[r] = Classified(op[r], e)
           /\ UNCHANGED <<result, domainVars>>
    BY <1>4 DEF Operate, Goes, Answer, Fails, StepInv, AtomicInv, RequestTypes
  <2> QED BY <1>6, <1>7, <1>8, <2>1

(* After a failed call the domain is as it was: the check finds nothing    *)
(* new, and the answer is that of the failure.                             *)
LEMMA RecheckFaithful ==
    ASSUME Operations \subseteq ActionOps,
           StepInv, LockIInv, AtomicInv, NEW r \in Requests, Recheck(r)
    PROVE  Faithful(r)
<1>1. Alone(r) /\ stage[r] = "recheck" /\ stage'[r] # "new" /\ UNCHANGED <<op, ident>>
  BY ServeAlone DEF Serve, AtomicInv, Recheck, Goes
<1>2. UNCHANGED <<domainVars, err, result>> /\ stage'[r] = "unlock"
  BY DEF Recheck, Goes, StepInv
<1>3. /\ op[r] \in {"start", "stop", "shutdown"} /\ status[r] = Nothing
      /\ op[r] \in Operations
      /\ err[r] \in Faults /\ Atomic!Fits(op[r], power[DomOf(r)])
  BY <1>1 DEF AtomicInv, Checked, Undecided
<1>4. ~(op[r] = "start" <=> Active(DomOf(r)))
  BY <1>3 DEF Atomic!Fits, Atomic!Active, Active
<1>5. status'[r] \in {"422", "503"}
  BY <1>3, <1>4 DEF Recheck, Answer, Classified, Faults, Unsupported, AtomicInv, RequestTypes
<1>6. Checked(r)' BY <1>1, <1>2, <1>3 DEF Checked, Undecided
<1>7. AtomicInv' BY <1>1, <1>2, <1>6, StepKeepsAtomic DEF domainVars
<1>8. Atomic!Fail(r) BY <1>1, <1>2, <1>3, <1>5, FailMaps DEF domainVars
<1> QED BY <1>7, <1>8 DEF Faithful

(* After the decision: the state a shutdown reads once more is the same.   *)
LEMMA FinishFaithful ==
    ASSUME StepInv, LockIInv, AtomicInv, NEW r \in Requests,
           Reread(r) \/ GiveBack(r) \/ Leave(r)
    PROVE  Faithful(r)
<1>1. /\ Alone(r) /\ stage[r] \in {"reread", "unlock", "release"}
      /\ stage'[r] \in {"unlock", "release", "answered"} /\ UNCHANGED <<op, ident>>
  BY ServeAlone DEF Serve, AtomicInv, Reread, GiveBack, Leave, Goes, StepInv
<1>2. UNCHANGED <<domainVars, err, status>>
  BY DEF Reread, GiveBack, Leave
<1>3. result'[r] = result[r]
  <2>1. stage[r] = "reread" => result[r] = power[DomOf(r)] BY DEF AtomicInv, Checked
  <2> QED BY <2>1 DEF Reread, Goes, GiveBack, Leave, AtomicInv, RequestTypes
<1>4. op[r] \in Operations BY <1>1 DEF AtomicInv, Checked
<1>5. Checked(r)' BY <1>1, <1>4 DEF Checked, Undecided
<1>6. AtomicInv' BY <1>1, <1>2, <1>5, StepKeepsAtomic DEF domainVars
<1>7. UNCHANGED Atomic!atomicVars
  BY <1>1, <1>2, <1>3, StutterMaps DEF domainVars, AtomicInv
<1> QED BY <1>6, <1>7 DEF Faithful

(* A request arrives.                                                      *)
LEMMA ArriveFaithful ==
    ASSUME StepInv, AtomicInv, NEW r \in Requests, NEW o \in Operations, NEW i \in Keys,
           Arrive(r, o, i)
    PROVE  AtomicInv' /\ Atomic!Ask(r, o, Dom(i))
<1>1. /\ stage[r] = "new" /\ stage' = [stage EXCEPT ![r] = "byName"]
      /\ op' = [op EXCEPT ![r] = o] /\ ident' = [ident EXCEPT ![r] = i]
      /\ UNCHANGED <<saw, err, status, result, life, power, autostart>>
  BY DEF Arrive, Goes, domainVars
<1>2. RequestTypes' /\ DomainTypes' BY <1>1 DEF AtomicInv, RequestTypes, DomainTypes
<1>3. ASSUME NEW q \in Requests PROVE Checked(q)'
  <2>1. CASE q = r
    BY <1>1, <2>1 DEF AtomicInv, RequestTypes, StepInv, Checked, Undecided
  <2>2. CASE q # r
    <3>1. stage'[q] = stage[q] /\ op'[q] = op[q] /\ DomOf(q)' = DomOf(q)
      BY <1>1, <2>2 DEF DomOf, Dom, StepInv, AtomicInv, RequestTypes
    <3> QED BY <1>1, <3>1 DEF AtomicInv, Checked
  <2> QED BY <2>1, <2>2
<1>4. WantedBy(r) = Nothing /\ WantedBy(r)' = [op |-> o, dom |-> Dom(i)]
  BY <1>1 DEF WantedBy, StepInv, AtomicInv, RequestTypes, DomOf, Dom
<1>5. ASSUME NEW q \in Requests PROVE q # r => WantedBy(q)' = WantedBy(q)
  BY <1>1 DEF WantedBy, StepInv, AtomicInv, RequestTypes, DomOf, Dom
<1>6. \A q \in Requests : AnswerTo(q)' = AnswerTo(q) BY <1>1 DEF AnswerTo
<1> HIDE DEF WantedBy, AnswerTo
<1>7. [q \in Requests |-> WantedBy(q)]'
        = [[q \in Requests |-> WantedBy(q)] EXCEPT ![r] = [op |-> o, dom |-> Dom(i)]]
  BY <1>4, <1>5
<1>8. [q \in Requests |-> AnswerTo(q)]' = [q \in Requests |-> AnswerTo(q)]
  BY <1>6
<1> QED BY <1>1, <1>2, <1>3, <1>4, <1>7, <1>8 DEF AtomicInv, Atomic!Ask

(* Every step of the action routes keeps the invariants and is a step of   *)
(* AtomicActions, or none.                                                 *)
LEMMA ActionsStep ==
    ASSUME Operations \subseteq ActionOps,
           StepInv, LockIInv, AtomicInv, [ActionsNext]_actionVars
    PROVE  /\ (StepInv /\ LockIInv /\ AtomicInv)'
           /\ [Atomic!Next]_(Atomic!atomicVars)
<1>1. ASSUME NEW r \in Requests, NEW o \in Operations, NEW i \in Keys, Arrive(r, o, i)
      PROVE  /\ (StepInv /\ LockIInv /\ AtomicInv)'
             /\ [Atomic!Next]_(Atomic!atomicVars)
  <2>1. StepInv' BY <1>1, ArriveKeeps
  <2>2. LockIInv' BY <1>1, LockNextIInv DEF Arrive
  <2>3. AtomicInv' /\ Atomic!Ask(r, o, Dom(i)) BY <1>1, ArriveFaithful
  <2>4. o \in Atomic!Actions /\ Dom(i) \in Domains
    BY DomainsHaveKeys DEF ActionOps, Atomic!Actions
  <2> QED BY <2>1, <2>2, <2>3, <2>4 DEF Atomic!Next
<1>2. ASSUME NEW r \in Requests, Serve(r)
      PROVE  /\ (StepInv /\ LockIInv /\ AtomicInv)'
             /\ [Atomic!Next]_(Atomic!atomicVars)
  <2>1. StepInv' BY <1>2, ActionKeeps DEF LockIInv
  <2>2. LockIInv' BY <1>2, ServeLocks, LockNextIInv
  <2>3. Faithful(r)
    BY <1>2, LookupFaithful, IsActiveFaithful, GetStateFaithful, OperateFaithful,
       RecheckFaithful, FinishFaithful DEF Serve
  <2> QED BY <2>1, <2>2, <2>3 DEF Faithful, Atomic!Next
<1>3. CASE UNCHANGED actionVars
  <2> USE <1>3 DEF actionVars, requestVars, domainVars
  <2>1. StepInv' BY DEF lockVars, StepInv, InStep, DomOf, Dom
  <2>2. LockIInv' BY LockNextIInv
  <2>3. AtomicInv' 
    BY DEF AtomicInv, RequestTypes, DomainTypes, Checked, DomOf, Dom
  <2>4. \A q \in Requests : WantedBy(q)' = WantedBy(q) /\ AnswerTo(q)' = AnswerTo(q)
    BY DEF WantedBy, AnswerTo, DomOf, Dom
  <2> HIDE DEF WantedBy, AnswerTo
  <2>5. UNCHANGED Atomic!atomicVars BY <2>4 DEF Atomic!atomicVars
  <2> QED BY <2>1, <2>2, <2>3, <2>5
<1> QED BY <1>1, <1>2, <1>3 DEF ActionsNext

(* The lock makes look-up, check and operation atomic, for any number of   *)
(* requests, names and domains that nobody else destroys: requests are     *)
(* answered as if served one at a time, whatever libvirt fails to do.      *)
THEOREM ActionsAreAtomic ==
    ASSUME Operations \subseteq ActionOps, Lifetimes \subseteq {"persistent"}
    PROVE  ActionsSpec => ImplementsAtomic
<1>1. ActionsInit => StepInv /\ LockIInv /\ AtomicInv /\ Atomic!Init
  <2> SUFFICES ASSUME ActionsInit PROVE StepInv /\ LockIInv /\ AtomicInv /\ Atomic!Init
    OBVIOUS
  <2>1. StepInv BY DEF ActionsInit, StepInv, InStep, Inside
  <2>2. LockIInv BY LockInitIInv DEF ActionsInit
  <2>3. DomainTypes BY DEF ActionsInit, DomainTypes, Autostarts
  <2>4. AtomicInv BY <2>3 DEF ActionsInit, AtomicInv, RequestTypes, Checked
  <2>5. \A q \in Requests : WantedBy(q) = Nothing /\ AnswerTo(q) = Nothing
    BY ActionsAssumption DEF ActionsInit, WantedBy, AnswerTo
  <2> HIDE DEF WantedBy, AnswerTo
  <2>6. Atomic!Init BY <2>5 DEF ActionsInit, Atomic!Init
  <2> QED BY <2>1, <2>2, <2>4, <2>6
<1>2. StepInv /\ LockIInv /\ AtomicInv /\ [ActionsNext]_actionVars
        => (StepInv /\ LockIInv /\ AtomicInv)' /\ [Atomic!Next]_(Atomic!atomicVars)
  BY ActionsStep
<1> QED BY <1>1, <1>2, PTL DEF ActionsSpec, ImplementsAtomic, Atomic!Spec

-----------------------------------------------------------------------------
(***************************************************************************)
(* What the lock protects.                                                 *)
(***************************************************************************)

StateInv == DOMAIN tree = Domains /\ DOMAIN current = Domains /\ DOMAIN power = Domains

(* A step that changes nothing of libvirtd but the domain d.               *)
Only(d) ==
    /\ StateInv'
    /\ \A x \in Domains \ {d} :
         tree'[x] = tree[x] /\ current'[x] = current[x] /\ power'[x] = power[x]

Nowhere == UNCHANGED <<tree, current, power>>

(* libvirt's effects stay within the domain they are asked for.            *)
LEMMA EffectsAreLocal ==
    ASSUME StateInv, NEW d, NEW o, NEW s, NEW option
    PROVE  /\ Effect(o, d) /\ UNCHANGED <<tree, current>> => Only(d)
           /\ CreateEffect(d, s, option) /\ UNCHANGED power => Only(d)
           /\ RevertEffect(d, s, option) => Only(d)
           /\ DeleteEffect(d, s, option) /\ UNCHANGED power => Only(d)
<1> USE DEF StateInv, Only
<1>1. ASSUME Effect(o, d), UNCHANGED <<tree, current>> PROVE Only(d)
  <2>1. \/ UNCHANGED power \/ \E p : power' = [power EXCEPT ![d] = p]
    BY <1>1 DEF Effect, SetPower, PowerOff, domainVars
  <2> QED BY <1>1, <2>1
<1>2. ASSUME NEW t, NEW now, Becomes(d, t, now), UNCHANGED power PROVE Only(d)
  BY <1>2 DEF Becomes
<1>3. ASSUME NEW t, NEW now, NEW p, Becomes(d, t, now), SetPower(d, p) PROVE Only(d)
  BY <1>3 DEF Becomes, SetPower
<1>4. CreateEffect(d, s, option) /\ UNCHANGED power => Only(d)
  BY <1>2 DEF CreateEffect
<1>5. RevertEffect(d, s, option) => Only(d)
  BY <1>3 DEF RevertEffect
<1>6. DeleteEffect(d, s, option) /\ UNCHANGED power => Only(d)
  BY <1>2 DEF DeleteEffect
<1> QED BY <1>1, <1>4, <1>5, <1>6

(* A request changes something only in the call of its operation, of its   *)
(* own domain, and has then gone on to the next call.                      *)
Acts(q) == /\ stage[q] \in {"operate", "mutate"} /\ stage'[q] # stage[q]
           /\ Only(DomOf(q))

LEMMA RequestsActInside ==
    ASSUME StepInv, StateInv, NEW q \in Requests,
           ServeSnapshot(q) \/ ServeAction(q)
    PROVE  Nowhere \/ Acts(q)
<1> USE DEF Nowhere, treeVars, domainVars
<1>1. CASE ServeAction(q)
  <2>1. UNCHANGED <<tree, current>> BY <1>1 DEF ServeAction
  <2>2. CASE Operate(q)
    <3>1. UNCHANGED power \/ Effect(op[q], DomOf(q)) BY <2>2 DEF Operate
    <3>2. stage[q] = "operate" /\ stage'[q] # stage[q]
      BY <2>2 DEF Operate, Goes, StepInv
    <3> QED BY <2>1, <3>1, <3>2, EffectsAreLocal DEF Acts
  <2>3. CASE ~Operate(q)
    BY <1>1, <2>1, <2>3 DEF ServeAction, Serve, LookupByName, LookupByUUID, Identity, Lock,
       Locked, IsActive, GetState, Recheck, Reread, GiveBack, Leave
  <2> QED BY <2>2, <2>3
<1>2. CASE ServeSnapshot(q)
  <2>1. CASE Mutate(q)
    <3>1. \/ UNCHANGED <<domainVars, treeVars>>
          \/ CreateEffect(DomOf(q), Target(q), asked[q].option) /\ UNCHANGED domainVars
          \/ RevertEffect(DomOf(q), Target(q), asked[q].option)
          \/ DeleteEffect(DomOf(q), Target(q), asked[q].option) /\ UNCHANGED domainVars
      BY <2>1 DEF Mutate
    <3>2. stage[q] = "mutate" /\ stage'[q] # stage[q]
      BY <2>1 DEF Mutate, Goes, StepInv
    <3> QED BY <3>1, <3>2, EffectsAreLocal DEF Acts
  <2>2. CASE ~Mutate(q)
    <3>1. CASE Shared(q)
      BY <3>1 DEF Shared, LookupByName, LookupByUUID, GiveBack, Leave, Identity
    <3>2. CASE ListCurrent(q) \/ ListItems(q) \/ ListDescribe(q) \/ ListSorted(q)
      BY <3>2 DEF ListCurrent, ListItems, ListDescribe, ListSorted
    <3>3. CASE LockSnapshotAction(q) \/ Granted(q) \/ GiveUp(q)
      BY <3>3 DEF LockSnapshotAction, Granted, GiveUp
    <3>4. CASE Find(q) \/ Check(q) \/ CreatedMetadata(q)
      BY <3>4 DEF Find, Check, CreatedMetadata
    <3> QED BY <1>2, <2>2, <3>1, <3>2, <3>3, <3>4 DEF ServeSnapshot
  <2> QED BY <2>1, <2>2
<1> QED BY <1>1, <1>2

(* When neither guests nor other clients act, every step changes nothing,  *)
(* or is the operation of one request.                                     *)
LEMMA StepsActInside ==
    ASSUME "virsh" \notin Environment, "guest" \notin Environment,
           StepInv, StateInv, [SnapshotsNext]_snapshotVars
    PROVE  Nowhere \/ \E q \in Requests : Acts(q)
<1>1. ASSUME NEW d \in Domains, VirshSnapshots(d) \/ GuestPowersOff(d) \/ VirshActs(d)
      PROVE  FALSE
  BY <1>1 DEF VirshSnapshots, GuestPowersOff, VirshActs
<1>2. ASSUME NEW r \in Requests, NEW o, NEW i, NEW s, NEW option,
             ArriveSnapshot(r, o, i, s, option)
      PROVE  Nowhere
  BY <1>2 DEF ArriveSnapshot, Arrive, Nowhere, treeVars, domainVars
<1>3. ASSUME NEW r \in Requests, ClientLeaves(r) PROVE Nowhere
  BY <1>3 DEF ClientLeaves, Nowhere, treeVars, domainVars
<1>4. CASE UNCHANGED snapshotVars
  BY <1>4 DEF snapshotVars, actionVars, Nowhere, treeVars, domainVars
<1> QED BY <1>1, <1>2, <1>3, <1>4, RequestsActInside DEF SnapshotsNext

(* What a request knows of its domain while it holds the lock stays so.    *)
LEMMA Protected ==
    ASSUME "virsh" \notin Environment, "guest" \notin Environment,
           StepInv, LockIInv, StateInv, [SnapshotsNext]_snapshotVars,
           NEW r \in Requests, stage[r] \in Inside, stage'[r] = stage[r]
    PROVE  /\ tree'[DomOf(r)] = tree[DomOf(r)]
           /\ current'[DomOf(r)] = current[DomOf(r)]
           /\ power'[DomOf(r)] = power[DomOf(r)]
<1>1. CASE Nowhere BY <1>1 DEF Nowhere
<1>2. ASSUME NEW q \in Requests, Acts(q) PROVE DomOf(r) \in Domains \ {DomOf(q)}
  <2>1. q # r /\ stage[q] \in Inside /\ stage[r] # "new"
    BY <1>2 DEF Acts, Inside
  <2> QED BY <2>1, AloneInside, DomOfType
<1>3. ASSUME NEW q \in Requests, Acts(q)
      PROVE  /\ tree'[DomOf(r)] = tree[DomOf(r)]
             /\ current'[DomOf(r)] = current[DomOf(r)]
             /\ power'[DomOf(r)] = power[DomOf(r)]
  BY <1>2, <1>3 DEF Acts, Only
<1> QED BY <1>1, <1>3, StepsActInside

LEMMA StateInvKept ==
    ASSUME "virsh" \notin Environment, "guest" \notin Environment,
           StepInv, StateInv, [SnapshotsNext]_snapshotVars
    PROVE  StateInv'
  BY StepsActInside DEF Nowhere, Acts, Only, StateInv

(* While a snapshot operation of this service holds the lock, no other     *)
(* request of it changes the domain: find and revert, find and delete,     *)
(* create and read are atomic among the routes.                            *)
THEOREM LockProtectsSnapshots ==
    ASSUME "virsh" \notin Environment, "guest" \notin Environment
    PROVE  SnapshotsSpec => NobodyElseActs
<1>1. SnapshotsInit => StateInv
  BY DEF SnapshotsInit, ActionsInit, StateInv
<1>2. StepInv /\ StateInv /\ [SnapshotsNext]_snapshotVars => StateInv'
  BY StateInvKept
<1>3. /\ StepInv /\ LockIInv /\ StateInv /\ [SnapshotsNext]_snapshotVars
      => [\A r \in Requests :
            (stage[r] \in SnapshotCritical /\ stage'[r] = stage[r])
              => LET d == DomOf(r)
                 IN  tree'[d] = tree[d] /\ current'[d] = current[d] /\ power'[d] = power[d]
         ]_snapshotVars
  BY Protected DEF SnapshotCritical, Inside
<1> QED BY <1>1, <1>2, <1>3, SnapshotsInvariant, PTL DEF SnapshotsSpec, NobodyElseActs

-----------------------------------------------------------------------------
(***************************************************************************)
(* A step of the snapshot specification is one of libvirtd, or one request *)
(* moves and leaves the others alone.                                      *)
(***************************************************************************)

OwnTypes == DOMAIN asked = Requests /\ DOMAIN todo = Requests /\ DOMAIN report = Requests
RouteTypes == RequestTypes /\ OwnTypes

Apart(r) ==
    /\ Alone(r) /\ OwnTypes'
    /\ \A q \in Requests \ {r} :
         asked'[q] = asked[q] /\ todo'[q] = todo[q] /\ report'[q] = report[q]

LEMMA SnapshotApart ==
    ASSUME StepInv, RouteTypes, NEW r \in Requests, ServeSnapshot(r)
    PROVE  Apart(r) /\ UNCHANGED <<op, ident, asked>> /\ stage[r] # "new" /\ stage'[r] # "new"
<1>1. CASE Shared(r)
  <2>1. Serve(r) /\ UNCHANGED <<ownVars, treeVars>> BY <1>1 DEF Shared, Serve
  <2> QED BY <2>1, ServeAlone DEF RouteTypes, Apart, OwnTypes, ownVars
<1> USE DEF Apart, Alone, RouteTypes, RequestTypes, OwnTypes, StepInv, Goes, Answer, Fails,
            ownVars
<1>2. CASE ListCurrent(r) BY <1>2 DEF ListCurrent
<1>3. CASE ListItems(r) BY <1>3 DEF ListItems
<1>4. CASE ListDescribe(r) BY <1>4 DEF ListDescribe
<1>5. CASE ListSorted(r) BY <1>5 DEF ListSorted
<1>6. CASE LockSnapshotAction(r) \/ Granted(r) \/ GiveUp(r)
  BY <1>6 DEF LockSnapshotAction, Granted, GiveUp
<1>7. CASE Find(r) BY <1>7 DEF Find
<1>8. CASE Check(r) BY <1>8 DEF Check
<1>9. CASE Mutate(r) BY <1>9 DEF Mutate
<1>10. CASE CreatedMetadata(r) BY <1>10 DEF CreatedMetadata
<1> QED BY <1>1, <1>2, <1>3, <1>4, <1>5, <1>6, <1>7, <1>8, <1>9, <1>10 DEF ServeSnapshot

LEMMA ActionApart ==
    ASSUME StepInv, RouteTypes, NEW r \in Requests, ServeAction(r)
    PROVE  Apart(r) /\ UNCHANGED <<op, ident, asked>> /\ stage[r] # "new" /\ stage'[r] # "new"
<1>1. Serve(r) /\ UNCHANGED <<ownVars, treeVars>> BY DEF ServeAction
<1> QED BY <1>1, ServeAlone DEF RouteTypes, Apart, OwnTypes, ownVars

LEMMA ArriveApart ==
    ASSUME StepInv, RouteTypes, NEW r \in Requests, NEW o, NEW i, NEW s, NEW option,
           ArriveSnapshot(r, o, i, s, option)
    PROVE  /\ Apart(r) /\ stage[r] = "new" /\ stage'[r] = "byName" /\ op'[r] = o
           /\ UNCHANGED <<saw, err, status, result, todo, report, treeVars, domainVars>>
  BY DEF ArriveSnapshot, Arrive, Apart, Alone, RouteTypes, RequestTypes, OwnTypes, StepInv,
         Goes, treeVars, domainVars

(* A request moves, or no request does.                                    *)
Moves(r) ==
    /\ Apart(r)
    /\ \/ \E o \in Operations, i \in Keys :
            \E s, option : ArriveSnapshot(r, o, i, s, option)
       \/ ServeSnapshot(r) \/ ServeAction(r)

LEMMA OneMoves ==
    ASSUME StepInv, RouteTypes, [SnapshotsNext]_snapshotVars
    PROVE  UNCHANGED <<requestVars, ownVars>> \/ \E r \in Requests : Moves(r)
<1>1. ASSUME NEW r \in Requests, NEW o \in Operations, NEW i \in Keys, NEW s, NEW option,
             ArriveSnapshot(r, o, i, s, option)
      PROVE  Moves(r)
  BY <1>1, ArriveApart DEF Moves
<1>2. ASSUME NEW r \in Requests, ServeSnapshot(r) PROVE Moves(r)
  BY <1>2, SnapshotApart DEF Moves
<1>3. ASSUME NEW r \in Requests, ServeAction(r) PROVE Moves(r)
  BY <1>3, ActionApart DEF Moves
<1>4. ASSUME NEW r \in Requests, ClientLeaves(r) PROVE UNCHANGED <<requestVars, ownVars>>
  BY <1>4 DEF ClientLeaves
<1>5. ASSUME NEW d \in Domains,
             VirshSnapshots(d) \/ ((GuestPowersOff(d) \/ VirshActs(d)) /\ UNCHANGED ownVars)
      PROVE  UNCHANGED <<requestVars, ownVars>>
  BY <1>5 DEF VirshSnapshots, GuestPowersOff, VirshActs
<1>6. CASE UNCHANGED snapshotVars
  BY <1>6 DEF snapshotVars, actionVars
<1> QED BY <1>1, <1>2, <1>3, <1>4, <1>5, <1>6 DEF SnapshotsNext
-----------------------------------------------------------------------------
(***************************************************************************)
(* The answers follow from libvirt's errors, whatever acts on the domains. *)
(***************************************************************************)

Decided == {"unlock", "release", "answered"}

(* No error is noted before one ends the work, and the answer then fits.   *)
Caused(r) ==
    /\ stage[r] \notin Decided \cup {"recheck"} => err[r] = "none"
    /\ stage[r] = "reread" => status[r] = "ok"
    /\ stage[r] = "recheck" => err[r] # "none" /\ op[r] \in {"start", "stop", "shutdown"}
    /\ stage[r] \in Decided /\ op[r] \in ActionOps => ActionCause(r)
    /\ stage[r] \in Decided /\ op[r] \in SnapshotOps => SnapshotCause(r)

CausedInv == RouteTypes /\ \A r \in Requests : Caused(r)

LEMMA QueryErrorTypes ==
    ASSUME NEW d PROVE QueryErrors(d) \subseteq {"none", "NO_DOMAIN", "OTHER"}
  BY DEF QueryErrors

LEMMA ReadErrorTypes ==
    ASSUME NEW d, NEW s PROVE ReadErrors(d, s) \subseteq {"none", "NO_DOMAIN", "NO_SNAPSHOT", "OTHER"}
  BY QueryErrorTypes DEF ReadErrors

LEMMA MutateErrorTypes ==
    ASSUME NEW o, NEW d, NEW s
    PROVE  MutateErrors(o, d, s) \subseteq
             {"none", "NO_DOMAIN", "NO_SNAPSHOT", "INVALID", "OTHER"} \cup Unsupported
  BY DEF MutateErrors

LEMMA CallErrorTypes ==
    ASSUME NEW o, NEW d
    PROVE  CallErrors(o, d) \subseteq
             {"none", "NO_DOMAIN", "INVALID", "OTHER"} \cup Unsupported
  BY DEF CallErrors

(* The steps the routes share.                                             *)
LEMMA SharedCaused ==
    ASSUME StepInv, RouteTypes, NEW r \in Requests, Caused(r),
           LookupByName(r) \/ LookupByUUID(r) \/ Identity(r) \/ GiveBack(r) \/ Leave(r)
    PROVE  Caused(r)'
<1> USE DEF Caused, Decided, ActionCause, KnownUnsupported, ConflictSeen, SnapshotCause,
            RouteTypes, RequestTypes, StepInv, Goes, Answer, Fails
<1>1. CASE LookupByName(r) BY <1>1 DEF LookupByName
<1>2. CASE LookupByUUID(r) BY <1>2, QueryErrorTypes DEF LookupByUUID
<1>3. CASE Identity(r) BY <1>3 DEF Identity
<1>4. CASE GiveBack(r) \/ Leave(r) BY <1>4 DEF GiveBack, Leave
<1> QED BY <1>1, <1>2, <1>3, <1>4

LEMMA ActionCaused ==
    ASSUME StepInv, RouteTypes, NEW r \in Requests, Caused(r), ServeAction(r)
    PROVE  Caused(r)'
<1>1. op[r] \notin SnapshotOps /\ Serve(r) BY DEF ServeAction
<1>2. CASE LookupByName(r) \/ LookupByUUID(r) \/ Identity(r) \/ GiveBack(r) \/ Leave(r)
  BY <1>2, SharedCaused
<1> USE DEF Caused, Decided, ActionCause, KnownUnsupported, ConflictSeen, RouteTypes,
            RequestTypes, StepInv, Goes, Answer, Fails
<1>3. CASE Lock(r) \/ Locked(r) BY <1>1, <1>3 DEF Lock, Locked
<1>4. CASE IsActive(r) BY <1>1, <1>4, QueryErrorTypes DEF IsActive
<1>5. CASE GetState(r)
  <2>1. PICK e \in QueryErrors(DomOf(r)) : GetState(r)!2!(e) BY <1>5 DEF GetState
  <2>2. stage[r] = "getState" /\ UNCHANGED op BY <1>5 DEF GetState
  <2> QED BY <1>1, <2>1, <2>2, QueryErrorTypes
<1>6. CASE Operate(r)
  <2>1. PICK e \in CallErrors(op[r], DomOf(r)) : Operate(r)!2!(e) BY <1>6 DEF Operate
  <2>2. stage[r] = "operate" /\ UNCHANGED op BY <1>6 DEF Operate
  <2>3. CASE e = "none" BY <1>1, <2>1, <2>2, <2>3
  <2>4. CASE e # "none" BY <1>1, <2>1, <2>2, <2>4, CallErrorTypes
    DEF Classified, ActionOps, Unsupported
  <2> QED BY <2>3, <2>4
<1>7. CASE Recheck(r)
  <2>1. /\ stage'[r] = "unlock" /\ UNCHANGED <<op, err>>
        /\ err[r] # "none" /\ op[r] \in {"start", "stop", "shutdown"}
    BY <1>7 DEF Recheck
  <2>2. status'[r] = Classified(op[r], err[r]) \/ (status'[r] = "409" /\ ConflictSeen(r)')
    BY <1>7 DEF Recheck
  <2>3. op[r] \in ActionOps => ActionCause(r)'
    BY <2>1, <2>2 DEF Classified, ActionOps
  <2> QED BY <1>1, <2>1, <2>3
<1>8. CASE Reread(r) BY <1>1, <1>8 DEF Reread
<1> QED BY <1>1, <1>2, <1>3, <1>4, <1>5, <1>6, <1>7, <1>8 DEF Serve

LEMMA SnapshotCaused ==
    ASSUME StepInv, RouteTypes, NEW r \in Requests, Caused(r), ServeSnapshot(r)
    PROVE  Caused(r)'
<1>1. op[r] \in SnapshotOps /\ op[r] \notin ActionOps
  BY DEF ServeSnapshot, SnapshotOps, ActionOps
<1>2. CASE Shared(r) BY <1>2, SharedCaused DEF Shared
<1> USE DEF Caused, Decided, SnapshotCause, RouteTypes, RequestTypes, StepInv, Goes, Answer,
            Fails
<1>3. CASE ListCurrent(r) BY <1>1, <1>3, QueryErrorTypes DEF ListCurrent
<1>4. CASE ListItems(r) BY <1>1, <1>4, QueryErrorTypes DEF ListItems
<1>5. CASE ListDescribe(r) BY <1>1, <1>5, ReadErrorTypes DEF ListDescribe
<1>6. CASE ListSorted(r) BY <1>1, <1>6 DEF ListSorted
<1>7. CASE LockSnapshotAction(r) BY <1>1, <1>7 DEF LockSnapshotAction
<1>8. CASE Granted(r) BY <1>1, <1>8 DEF Granted
<1>9. CASE GiveUp(r) BY <1>1, <1>9 DEF GiveUp
<1>10. CASE Find(r) BY <1>1, <1>10, ReadErrorTypes DEF Find, SnapshotLookupError
<1>11. CASE Check(r) BY <1>1, <1>11 DEF Check
<1>12. CASE Mutate(r) BY <1>1, <1>12, MutateErrorTypes
  DEF Mutate, SnapshotOperationError, Unsupported
<1>13. CASE CreatedMetadata(r) BY <1>1, <1>13, ReadErrorTypes DEF CreatedMetadata
<1> QED BY <1>2, <1>3, <1>4, <1>5, <1>6, <1>7, <1>8, <1>9, <1>10, <1>11, <1>12, <1>13
        DEF ServeSnapshot

(* With other clients, guests and failures acting between any two calls,   *)
(* every answer follows from the first error libvirt returned.             *)
THEOREM AnswersFollowFromErrors == SnapshotsSpec => []AnswerMatchesCause
<1>1. SnapshotsInit => CausedInv
  BY DEF SnapshotsInit, ActionsInit, CausedInv, RouteTypes, RequestTypes, OwnTypes, Caused, Decided
<1>2. StepInv /\ CausedInv /\ [SnapshotsNext]_snapshotVars => CausedInv'
  <2> SUFFICES ASSUME StepInv, CausedInv, [SnapshotsNext]_snapshotVars PROVE CausedInv'
    OBVIOUS
  <2>1. CASE UNCHANGED <<requestVars, ownVars>>
    BY <2>1 DEF requestVars, ownVars, CausedInv, RouteTypes, RequestTypes, OwnTypes, Caused,
       ActionCause, KnownUnsupported, ConflictSeen, SnapshotCause
  <2>2. ASSUME NEW r \in Requests, Moves(r) PROVE CausedInv'
    <3>1. \A q \in Requests \ {r} : Caused(q)'
      BY <2>2 DEF Moves, Apart, Alone, CausedInv, Caused, ActionCause, KnownUnsupported,
           ConflictSeen, SnapshotCause
    <3>2. Caused(r)'
      <4>1. ASSUME NEW o, NEW i, NEW s, NEW option, ArriveSnapshot(r, o, i, s, option)
            PROVE  Caused(r)'
        BY <4>1, ArriveApart DEF CausedInv, Caused, Decided
      <4> QED BY <2>2, <4>1, ActionCaused, SnapshotCaused DEF Moves, CausedInv
    <3>3. RouteTypes' BY <2>2 DEF Moves, Apart, Alone, RouteTypes
    <3> QED BY <3>1, <3>2, <3>3 DEF CausedInv
  <2> QED BY <2>1, <2>2, OneMoves DEF CausedInv
<1>3. CausedInv => AnswerMatchesCause
  BY DEF CausedInv, Caused, Decided, AnswerMatchesCause, StatusMatchesCause,
     SnapshotStatusMatchesCause
<1> QED BY <1>1, <1>2, <1>3, SnapshotsInvariant, PTL DEF SnapshotsSpec
-----------------------------------------------------------------------------
(***************************************************************************)
(* What a snapshot request answers is so, while it has the lock.           *)
(***************************************************************************)

Truthful(r) ==
    /\ stage[r] = "metadata" => op[r] = "create" /\ current[DomOf(r)] = Target(r)
    /\ (stage[r] = "unlock" /\ status[r] = "ok" /\ op[r] \in SnapshotOps) => AnswerIsTrue(r)

TruthInv == RouteTypes /\ StateInv /\ \A r \in Requests : Truthful(r)

(* The call of the operation brings about what the answer will say.        *)
LEMMA MutateTruthful ==
    ASSUME StepInv, RouteTypes, StateInv, NEW r \in Requests, Truthful(r), Mutate(r)
    PROVE  Truthful(r)'
<1> DEFINE d == DomOf(r)
           s == Target(r)
           option == asked[r].option
<1>1. stage[r] = "mutate" /\ UNCHANGED <<op, ident, asked, report>>
  BY DEF Mutate, Goes, ownVars
<1>2. d \in Domains BY <1>1, DomOfType
<1>3. d' = d /\ s' = s /\ option' = option BY <1>1 DEF DomOf, Target
<1> USE DEF Goes, Answer, Fails, StepInv, RouteTypes, RequestTypes, StateInv
<1>4. CASE status'[r] # "ok" /\ stage'[r] = "unlock" BY <1>4 DEF Truthful
<1>5. CASE op[r] = "create" /\ stage'[r] = "metadata" /\ CreateEffect(d, s, option)
  BY <1>1, <1>2, <1>3, <1>5 DEF Truthful, CreateEffect, Becomes
<1>6. CASE op[r] = "revert" /\ stage'[r] = "unlock" /\ RevertEffect(d, s, option)
  <2>1. current'[d] = s BY <1>2, <1>6 DEF RevertEffect, Becomes
  <2>2. CASE option # "snapshot"
    <3> HIDE DEF d, s, option
    <3>1. power' = [power EXCEPT ![d] = option] BY <1>6, <2>2 DEF RevertEffect, SetPower
    <3> USE DEF d, s, option
    <3> QED BY <1>1, <1>2, <1>3, <1>6, <2>1, <3>1 DEF Truthful, AnswerIsTrue
  <2>3. CASE option = "snapshot"
    BY <1>1, <1>3, <1>6, <2>1, <2>3 DEF Truthful, AnswerIsTrue
  <2> QED BY <2>2, <2>3
<1>7. CASE op[r] = "delete" /\ stage'[r] = "unlock" /\ DeleteEffect(d, s, option)
  <2>1. s \in Existing(d) => s \in Subtree(d, s) BY DEF Subtree
  <2>2. s \notin DOMAIN tree'[d] BY <1>2, <1>7, <2>1 DEF DeleteEffect, Becomes
  <2> QED BY <1>1, <1>3, <1>7, <2>2 DEF Truthful, AnswerIsTrue, Existing
<1> HIDE DEF d, s, option
<1>8. PICK e \in MutateErrors(op[r], d, s) : Mutate(r)!1!1!(e)
  BY DEF Mutate, d, s, option
<1>9. CASE e # "none"
  <2>1. SnapshotOperationError(e) # "ok" BY DEF SnapshotOperationError
  <2>2. status'[r] # "ok" /\ stage'[r] = "unlock" BY <1>8, <1>9, <2>1
  <2> QED BY <1>4, <2>2
<1>10. CASE e = "none"
  BY <1>5, <1>6, <1>7, <1>8, <1>10 DEF d, s, option
<1> QED BY <1>9, <1>10

LEMMA SnapshotTruthful ==
    ASSUME StepInv, RouteTypes, StateInv, NEW r \in Requests, Truthful(r), ServeSnapshot(r)
    PROVE  Truthful(r)'
<1>1. CASE Mutate(r) BY <1>1, MutateTruthful
<1>2. CASE CreatedMetadata(r)
  <2>1. stage[r] = "metadata" /\ op[r] = "create" /\ current[DomOf(r)] = Target(r)
    BY <1>2 DEF CreatedMetadata, Goes, Truthful
  <2>2. UNCHANGED <<op, ident, asked, tree, current>> /\ stage'[r] = "unlock"
    BY <1>2 DEF CreatedMetadata, Goes, treeVars, StepInv
  <2>3. CASE status'[r] = "ok"
    <3>1. report'[r] = <<Describe(Target(r), tree[DomOf(r)][Target(r)], Target(r))>>
      BY <1>2, <2>3 DEF CreatedMetadata, Answer, CreatedName, RouteTypes, RequestTypes, OwnTypes
    <3>2. report'[r] = <<TrueEntry(DomOf(r), Target(r))>>
      BY <2>1, <3>1 DEF Describe, TrueEntry
    <3> QED BY <2>1, <2>2, <3>2 DEF Truthful, AnswerIsTrue, TrueEntry, DomOf, Target
  <2> QED BY <2>2, <2>3 DEF Truthful
<1> USE DEF Truthful, Goes, Answer, Fails, StepInv, RouteTypes, RequestTypes
<1>3. CASE Shared(r)
  BY <1>3 DEF Shared, LookupByName, LookupByUUID, GiveBack, Leave, Identity
<1>4. CASE ListCurrent(r) \/ ListItems(r) \/ ListDescribe(r) \/ ListSorted(r)
  BY <1>4 DEF ListCurrent, ListItems, ListDescribe, ListSorted
<1>5. CASE LockSnapshotAction(r) \/ Granted(r) \/ GiveUp(r)
  BY <1>5 DEF LockSnapshotAction, Granted, GiveUp
<1>6. CASE Find(r) BY <1>6 DEF Find, SnapshotLookupError
<1>7. CASE Check(r) BY <1>7 DEF Check
<1> QED BY <1>1, <1>2, <1>3, <1>4, <1>5, <1>6, <1>7 DEF ServeSnapshot

LEMMA ActionTruthful ==
    ASSUME StepInv, RouteTypes, NEW r \in Requests, ServeAction(r) PROVE Truthful(r)'
<1>1. op'[r] \notin SnapshotOps BY ActionApart DEF ServeAction
<1>2. stage'[r] # "metadata"
  BY DEF ServeAction, Serve, LookupByName, LookupByUUID, Identity, Lock, Locked, IsActive,
     GetState, Operate, Recheck, Reread, GiveBack, Leave, Goes, StepInv
<1> QED BY <1>1, <1>2 DEF Truthful

(* What a request answers stays so until it moves on.                      *)
LEMMA StaysTruthful ==
    ASSUME "virsh" \notin Environment, "guest" \notin Environment,
           StepInv, LockIInv, StateInv, [SnapshotsNext]_snapshotVars,
           NEW r \in Requests, Truthful(r),
           stage'[r] = stage[r], op'[r] = op[r], ident'[r] = ident[r], asked'[r] = asked[r],
           status'[r] = status[r], report'[r] = report[r]
    PROVE  Truthful(r)'
<1>1. CASE stage[r] \in {"metadata", "unlock"}
  <2>1. /\ tree'[DomOf(r)] = tree[DomOf(r)] /\ current'[DomOf(r)] = current[DomOf(r)]
        /\ power'[DomOf(r)] = power[DomOf(r)] /\ DomOf(r)' = DomOf(r)
    BY <1>1, Protected DEF Inside, DomOf
  <2> QED BY <2>1 DEF Truthful, AnswerIsTrue, TrueEntry, Existing, Target
<1> QED BY <1>1 DEF Truthful

(* When only this service acts on the domains, a created snapshot has the  *)
(* parent and state it was reported with and is current, a reverted-to one *)
(* is current and the domain is in the state asked for, and a deleted one  *)
(* is gone, until the request gives the lock back.                         *)
THEOREM AnswersAreTrue ==
    ASSUME "virsh" \notin Environment, "guest" \notin Environment
    PROVE  SnapshotsSpec => []AnswerTrueWhenMade
<1>1. SnapshotsInit => TruthInv
  BY DEF SnapshotsInit, ActionsInit, TruthInv, RouteTypes, RequestTypes, OwnTypes, StateInv,
     Truthful
<1>2. StepInv /\ LockIInv /\ TruthInv /\ [SnapshotsNext]_snapshotVars => TruthInv'
  <2> SUFFICES ASSUME StepInv, LockIInv, TruthInv, [SnapshotsNext]_snapshotVars PROVE TruthInv'
    OBVIOUS
  <2>1. StateInv' BY StateInvKept DEF TruthInv
  <2>2. CASE UNCHANGED <<requestVars, ownVars>>
    <3>1. ASSUME NEW q \in Requests PROVE Truthful(q)'
      BY <2>2, StaysTruthful DEF requestVars, ownVars, TruthInv
    <3>2. RouteTypes'
      BY <2>2 DEF requestVars, ownVars, TruthInv, RouteTypes, RequestTypes, OwnTypes
    <3> QED BY <2>1, <3>1, <3>2 DEF TruthInv
  <2>3. ASSUME NEW r \in Requests, Moves(r) PROVE TruthInv'
    <3>1. ASSUME NEW q \in Requests \ {r} PROVE Truthful(q)'
      BY <2>3, StaysTruthful DEF Moves, Apart, Alone, TruthInv
    <3>2. Truthful(r)'
      <4>1. ASSUME NEW o, NEW i, NEW s, NEW option, ArriveSnapshot(r, o, i, s, option)
            PROVE  Truthful(r)'
        BY <4>1, ArriveApart DEF TruthInv, Truthful
      <4> QED BY <2>3, <4>1, ActionTruthful, SnapshotTruthful DEF Moves, TruthInv
    <3>3. RouteTypes' BY <2>3 DEF Moves, Apart, Alone, RouteTypes
    <3> QED BY <2>1, <3>1, <3>2, <3>3 DEF TruthInv
  <2> QED BY <2>2, <2>3, OneMoves DEF TruthInv
<1>3. TruthInv => AnswerTrueWhenMade
  BY DEF TruthInv, Truthful, AnswerTrueWhenMade
<1> QED BY <1>1, <1>2, <1>3, SnapshotsInvariant, PTL DEF SnapshotsSpec
-----------------------------------------------------------------------------
(***************************************************************************)
(* When libvirtd serves this service alone and does not fail, a snapshot   *)
(* request fails only for a cause its caller can know.                     *)
(***************************************************************************)

Persistent == life = [d \in Domains |-> "persistent"]

ListStages == {"byName", "byUUID", "identity", "items", "describe", "answered"}

(* The snapshot a request found is there until it is done with it, and     *)
(* those a list has still to describe are, unless some changed meanwhile.  *)
OnCourse(r) ==
    /\ op[r] = "list" /\ stage[r] # "new" => stage[r] \in ListStages
    /\ stage[r] \in {"items", "describe"} => op[r] = "list"
    /\ stage[r] = "find" => op[r] \in {"revert", "delete"}
    /\ stage[r] \in {"check", "mutate"} =>
         \/ op[r] = "create"
         \/ op[r] \in {"revert", "delete"} /\ Target(r) \in Existing(DomOf(r))
    /\ stage[r] = "metadata" => op[r] = "create" /\ Target(r) \in Existing(DomOf(r))
    /\ stage[r] = "describe" => r \in overlapped \/ todo[r] \subseteq Existing(DomOf(r))
    /\ stage[r] \in Decided /\ op[r] \in SnapshotOps => Explained(r)

CourseInv == RouteTypes /\ StateInv /\ Persistent /\ \A r \in Requests : OnCourse(r)

(* Calls on a persistent domain of a libvirtd that does not fail.          *)
LEMMA NoFaults ==
    ASSUME Environment = {}, Persistent, NEW d \in Domains, NEW o, NEW s
    PROVE  /\ QueryErrors(d) = {"none"}
           /\ ReadErrors(d, s) = IF s \in Existing(d) THEN {"none"} ELSE {"NO_SNAPSHOT"}
           /\ o = "create" => MutateErrors(o, d, s) \subseteq {"none", "INVALID", "OTHER"}
           /\ o # "create" /\ s \in Existing(d) => MutateErrors(o, d, s) = {"none"}
<1>1. life[d] # "gone" BY DEF Persistent
<1>2. QueryErrors(d) = {"none"} BY <1>1 DEF QueryErrors
<1>3. ReadErrors(d, s) = IF s \in Existing(d) THEN {"none"} ELSE {"NO_SNAPSHOT"}
  BY <1>1, <1>2 DEF ReadErrors
<1>4. o = "create" => MutateErrors(o, d, s) \subseteq {"none", "INVALID", "OTHER"}
  BY <1>1 DEF MutateErrors
<1>5. o # "create" /\ s \in Existing(d) => MutateErrors(o, d, s) = {"none"}
  BY <1>1 DEF MutateErrors
<1> QED BY <1>2, <1>3, <1>4, <1>5

(* A step leaves the snapshots alone, or libvirt changes those of one      *)
(* domain; the domains stay persistent.                                    *)
LEMMA TreeStep ==
    ASSUME Environment = {}, StepInv, Persistent, [SnapshotsNext]_snapshotVars
    PROVE  /\ UNCHANGED treeVars \/ \E d, t, now : Becomes(d, t, now)
           /\ Persistent'
<1>1. ASSUME NEW r \in Requests, ServeAction(r) PROVE UNCHANGED treeVars /\ Persistent'
  <2>1. UNCHANGED life \/ Operate(r)
    BY <1>1 DEF ServeAction, Serve, LookupByName, LookupByUUID, Identity, Lock, Locked,
       IsActive, GetState, Recheck, Reread, GiveBack, Leave, domainVars
  <2>2. CASE Operate(r)
    <3>1. \/ UNCHANGED life \/ PowerOff(DomOf(r))
      BY <2>2 DEF Operate, Effect, SetPower, domainVars
    <3> QED BY <1>1, <3>1 DEF ServeAction, PowerOff, Persistent
  <2> QED BY <1>1, <2>1, <2>2 DEF ServeAction, Persistent
<1>2. ASSUME NEW r \in Requests, ServeSnapshot(r)
      PROVE  (UNCHANGED treeVars \/ \E d, t, now : Becomes(d, t, now)) /\ UNCHANGED life
  <2>1. CASE Mutate(r)
    BY <2>1 DEF Mutate, CreateEffect, RevertEffect, DeleteEffect, SetPower, domainVars
  <2>2. CASE Shared(r)
    BY <2>2 DEF Shared, LookupByName, LookupByUUID, GiveBack, Leave, Identity, domainVars
  <2>3. CASE ListCurrent(r) \/ ListItems(r) \/ ListDescribe(r) \/ ListSorted(r)
    BY <2>3 DEF ListCurrent, ListItems, ListDescribe, ListSorted, domainVars
  <2>4. CASE LockSnapshotAction(r) \/ Granted(r) \/ GiveUp(r)
    BY <2>4 DEF LockSnapshotAction, Granted, GiveUp, domainVars
  <2>5. CASE Find(r) \/ Check(r) \/ CreatedMetadata(r)
    BY <2>5 DEF Find, Check, CreatedMetadata, domainVars
  <2> QED BY <1>2, <2>1, <2>2, <2>3, <2>4, <2>5 DEF ServeSnapshot
<1>3. ASSUME NEW d \in Domains, VirshSnapshots(d) \/ GuestPowersOff(d) \/ VirshActs(d)
      PROVE  FALSE
  BY <1>3 DEF VirshSnapshots, GuestPowersOff, VirshActs
<1>4. ASSUME NEW r \in Requests, NEW o, NEW i, NEW s, NEW option,
             ArriveSnapshot(r, o, i, s, option)
      PROVE  UNCHANGED treeVars /\ UNCHANGED life
  BY <1>4 DEF ArriveSnapshot, Arrive, domainVars
<1>5. ASSUME NEW r \in Requests, ClientLeaves(r) PROVE UNCHANGED treeVars /\ UNCHANGED life
  BY <1>5 DEF ClientLeaves, domainVars
<1>6. CASE UNCHANGED snapshotVars BY <1>6 DEF snapshotVars, actionVars, domainVars, Persistent
<1> QED BY <1>1, <1>2, <1>3, <1>4, <1>5, <1>6 DEF SnapshotsNext, Persistent

LEMMA StaysOnCourse ==
    ASSUME Environment = {}, StepInv, LockIInv, StateInv, Persistent,
           [SnapshotsNext]_snapshotVars,
           NEW r \in Requests, OnCourse(r),
           stage'[r] = stage[r], op'[r] = op[r], ident'[r] = ident[r], asked'[r] = asked[r],
           todo'[r] = todo[r], err'[r] = err[r], status'[r] = status[r]
    PROVE  OnCourse(r)'
<1>1. DomOf(r)' = DomOf(r) /\ Target(r)' = Target(r) BY DEF DomOf, Target
<1>2. overlapped \subseteq overlapped' BY TreeStep DEF Becomes, treeVars
<1>3. stage[r] \in {"check", "mutate", "metadata"}
        => tree'[DomOf(r)] = tree[DomOf(r)]
  BY Protected DEF Inside
<1>4. stage[r] = "describe" /\ op[r] = "list"
        => r \in overlapped' \/ tree'[DomOf(r)] = tree[DomOf(r)]
  BY TreeStep, DomOfType DEF Becomes, Listing, StateInv, treeVars
<1>5. Explained(r) => Explained(r)'
  BY <1>2 DEF Explained
<1> QED BY <1>1, <1>2, <1>3, <1>4, <1>5 DEF OnCourse, Existing

LEMMA SnapshotOnCourse ==
    ASSUME Environment = {}, StepInv, RouteTypes, StateInv, Persistent,
           NEW r \in Requests, OnCourse(r), ServeSnapshot(r)
    PROVE  OnCourse(r)'
<1>1. op[r] \in SnapshotOps BY DEF ServeSnapshot
<1>2. /\ DomOf(r)' = DomOf(r) /\ Target(r)' = Target(r) /\ op'[r] = op[r]
      /\ DomOf(r) \in Domains /\ ident[r] \in Keys
  BY SnapshotApart, DomOfType DEF DomOf, Target, StepInv, InStep
<1>3. QueryErrors(DomOf(r)) = {"none"} BY <1>2, NoFaults
<1> USE DEF OnCourse, Goes, Answer, Fails, StepInv, RouteTypes, RequestTypes, OwnTypes, Decided,
            SnapshotOps, ListStages
<1>4. CASE LookupByName(r)
  BY <1>1, <1>2, <1>3, <1>4, ActionsAssumption DEF LookupByName
<1>5. CASE LookupByUUID(r) BY <1>1, <1>2, <1>3, <1>5 DEF LookupByUUID
<1>6. CASE Identity(r) /\ op[r] # "list" BY <1>1, <1>2, <1>6 DEF Identity
<1>7. CASE (GiveBack(r) \/ Leave(r)) /\ UNCHANGED treeVars
  <2>1. stage[r] \in {"unlock", "release"} /\ stage'[r] \in {"release", "answered"}
        /\ UNCHANGED <<err, status, overlapped>>
    BY <1>7 DEF GiveBack, Leave, treeVars
  <2> QED BY <1>1, <1>2, <2>1 DEF Explained
<1>8. CASE ListCurrent(r) BY <1>1, <1>2, <1>3, <1>8 DEF ListCurrent
<1>9. CASE ListItems(r)
  <2>1. stage'[r] = "describe" /\ todo'[r] = Existing(DomOf(r)) /\ UNCHANGED tree
    BY <1>3, <1>9 DEF ListItems, treeVars
  <2>2. op[r] = "list" BY <1>9 DEF ListItems
  <2> QED BY <1>2, <2>1, <2>2 DEF Existing
<1>10. CASE ListDescribe(r)
  <2>1. stage[r] = "describe" /\ op[r] = "list" /\ UNCHANGED <<tree, overlapped>>
    BY <1>10 DEF ListDescribe, treeVars
  <2>2. PICK s \in todo[r] : \E e \in ReadErrors(DomOf(r), s) : ListDescribe(r)!2!(s)!(e)
    BY <1>10 DEF ListDescribe
  <2>3. PICK e \in ReadErrors(DomOf(r), s) : ListDescribe(r)!2!(s)!(e) BY <2>2
  <2>4. CASE e = "none"
    <3>1. stage'[r] = "describe" /\ todo'[r] \subseteq todo[r] BY <2>1, <2>3, <2>4
    <3> QED BY <1>2, <2>1, <3>1 DEF Existing
  <2>5. CASE e # "none"
    <3>1. s \notin Existing(DomOf(r)) BY <1>2, <2>3, <2>5, NoFaults
    <3>2. r \in overlapped BY <2>1, <2>2, <3>1
    <3>3. stage'[r] = "answered" /\ status'[r] = "503" BY <2>3, <2>5
    <3> QED BY <1>2, <2>1, <3>2, <3>3 DEF Explained
  <2> QED BY <2>4, <2>5
<1>11. CASE ListSorted(r) BY <1>1, <1>2, <1>11 DEF ListSorted, Explained
<1>12. CASE LockSnapshotAction(r) BY <1>1, <1>2, <1>12 DEF LockSnapshotAction
<1>13. CASE Granted(r) BY <1>1, <1>2, <1>13 DEF Granted
<1>14. CASE GiveUp(r)
  <2>1. stage'[r] = "release" /\ status'[r] = "503" /\ err'[r] = "CANCELLED" /\ op[r] # "list"
    BY <1>14 DEF GiveUp
  <2> QED BY <1>1, <1>2, <2>1 DEF Explained
<1>15. CASE Find(r)
  <2>1. stage[r] = "find" /\ op[r] \in {"revert", "delete"} /\ UNCHANGED tree
    BY <1>15 DEF Find, treeVars
  <2>2. PICK e \in ReadErrors(DomOf(r), Target(r)) : Find(r)!1!(e) BY <1>15 DEF Find
  <2>3. CASE e = "none"
    <3>1. Target(r) \in Existing(DomOf(r)) BY <1>2, <2>2, <2>3, NoFaults
    <3> QED BY <1>2, <2>1, <2>2, <2>3, <3>1 DEF Existing
  <2>4. CASE e # "none"
    <3>1. e = "NO_SNAPSHOT" BY <1>2, <2>2, <2>4, NoFaults
    <3>2. stage'[r] = "unlock" /\ status'[r] = "404" /\ err'[r] = "NO_SNAPSHOT"
      BY <2>2, <3>1 DEF SnapshotLookupError
    <3> QED BY <1>2, <2>1, <3>2 DEF Explained
  <2> QED BY <2>3, <2>4
<1>16. CASE Check(r)
  <2>1. stage[r] = "check" /\ UNCHANGED tree BY <1>16 DEF Check, treeVars
  <2>2. \/ stage'[r] = "mutate"
        \/ stage'[r] = "unlock" /\ status'[r] = "503" /\ err'[r] = "CANCELLED"
    BY <1>16 DEF Check
  <2> QED BY <1>2, <2>1, <2>2 DEF Explained, Existing
<1>17. CASE Mutate(r)
  <2>1. stage[r] = "mutate" BY <1>17 DEF Mutate
  <2>2. PICK e \in MutateErrors(op[r], DomOf(r), Target(r)) : Mutate(r)!1!1!(e)
    BY <1>17 DEF Mutate
  <2>3. CASE e # "none"
    <3>1. op[r] = "create" /\ e \in {"INVALID", "OTHER"}
      BY <1>2, <2>1, <2>2, <2>3, NoFaults
    <3>2. stage'[r] = "unlock" /\ err'[r] = e /\ status'[r] = SnapshotOperationError(e)
      BY <2>2, <2>3
    <3> QED BY <1>2, <3>1, <3>2 DEF Explained, SnapshotOperationError
  <2>4. CASE e = "none" /\ op[r] = "create"
    <3>1. stage'[r] = "metadata" /\ Target(r) \in DOMAIN tree'[DomOf(r)]
      BY <1>2, <2>2, <2>4 DEF CreateEffect, Becomes, StateInv
    <3> QED BY <1>2, <2>4, <3>1 DEF Existing
  <2>5. CASE e = "none" /\ op[r] # "create"
    <3>1. stage'[r] = "unlock" /\ status'[r] = "ok" BY <2>2, <2>5
    <3> QED BY <1>2, <2>1, <2>5, <3>1 DEF Explained
  <2> QED BY <2>3, <2>4, <2>5
<1>18. CASE CreatedMetadata(r)
  <2>1. stage[r] = "metadata" /\ op[r] = "create" /\ ReadErrors(DomOf(r), Target(r)) = {"none"}
    BY <1>2, <1>18, NoFaults DEF CreatedMetadata
  <2>2. stage'[r] = "unlock" /\ status'[r] = "ok" BY <1>18, <2>1 DEF CreatedMetadata
  <2> QED BY <1>2, <2>1, <2>2 DEF Explained
<1> QED BY <1>4, <1>5, <1>6, <1>7, <1>8, <1>9, <1>10, <1>11, <1>12, <1>13, <1>14, <1>15, <1>16,
           <1>17, <1>18 DEF ServeSnapshot, Shared

LEMMA ActionOnCourse ==
    ASSUME StepInv, RouteTypes, NEW r \in Requests, ServeAction(r) PROVE OnCourse(r)'
<1>1. op'[r] \notin SnapshotOps BY ActionApart DEF ServeAction
<1>2. stage'[r] \notin {"items", "describe", "find", "check", "mutate", "metadata"}
  BY DEF ServeAction, Serve, LookupByName, LookupByUUID, Identity, Lock, Locked, IsActive,
     GetState, Operate, Recheck, Reread, GiveBack, Leave, Goes, StepInv
<1> QED BY <1>1, <1>2 DEF OnCourse, SnapshotOps

(* When only this service acts and libvirt does not fail, a snapshot that  *)
(* was found is still there when it is reverted to or deleted, one that is *)
(* missing is always answered 404, and 503 means that the client went      *)
(* away, that the name was taken, or that a list met a change.             *)
THEOREM FailuresAreExplained ==
    ASSUME Environment = {}, Lifetimes \subseteq {"persistent"}
    PROVE  SnapshotsSpec => []NoUnexplainedFailure
<1>1. SnapshotsInit => CourseInv
  <2> SUFFICES ASSUME SnapshotsInit PROVE CourseInv
    OBVIOUS
  <2>1. Persistent BY DEF SnapshotsInit, ActionsInit, Persistent
  <2>2. RouteTypes /\ StateInv
    BY DEF SnapshotsInit, ActionsInit, RouteTypes, RequestTypes, OwnTypes, StateInv
  <2>3. \A r \in Requests : OnCourse(r)
    BY DEF SnapshotsInit, ActionsInit, OnCourse, Decided
  <2> QED BY <2>1, <2>2, <2>3 DEF CourseInv
<1>2. StepInv /\ LockIInv /\ CourseInv /\ [SnapshotsNext]_snapshotVars => CourseInv'
  <2> SUFFICES ASSUME StepInv, LockIInv, CourseInv, [SnapshotsNext]_snapshotVars
               PROVE  CourseInv'
    OBVIOUS
  <2>1. StateInv' /\ Persistent' BY StateInvKept, TreeStep DEF CourseInv
  <2>2. CASE UNCHANGED <<requestVars, ownVars>>
    <3>1. ASSUME NEW q \in Requests PROVE OnCourse(q)'
      BY <2>2, StaysOnCourse DEF requestVars, ownVars, CourseInv
    <3>2. RouteTypes'
      BY <2>2 DEF requestVars, ownVars, CourseInv, RouteTypes, RequestTypes, OwnTypes
    <3> QED BY <2>1, <3>1, <3>2 DEF CourseInv
  <2>3. ASSUME NEW r \in Requests, Moves(r) PROVE CourseInv'
    <3>1. ASSUME NEW q \in Requests \ {r} PROVE OnCourse(q)'
      BY <2>3, StaysOnCourse DEF Moves, Apart, Alone, CourseInv
    <3>2. OnCourse(r)'
      <4>1. ASSUME NEW o, NEW i, NEW s, NEW option, ArriveSnapshot(r, o, i, s, option)
            PROVE  OnCourse(r)'
        BY <4>1, ArriveApart DEF CourseInv, OnCourse, Decided, ListStages
      <4> QED BY <2>3, <4>1, ActionOnCourse, SnapshotOnCourse DEF Moves, CourseInv
    <3>3. RouteTypes' BY <2>3 DEF Moves, Apart, Alone, RouteTypes
    <3> QED BY <2>1, <3>1, <3>2, <3>3 DEF CourseInv
  <2> QED BY <2>2, <2>3, OneMoves DEF CourseInv
<1>3. CourseInv => NoUnexplainedFailure
  BY DEF CourseInv, OnCourse, Decided, NoUnexplainedFailure
<1> QED BY <1>1, <1>2, <1>3, SnapshotsInvariant, PTL DEF SnapshotsSpec
-----------------------------------------------------------------------------
(***************************************************************************)
(* A client that leaves before its turn changes nothing.                   *)
(***************************************************************************)

(* From waiting onwards, without the call that changes something.          *)
Passed == {"wait", "find", "check", "isActive", "getState", "operate", "recheck", "reread",
           "unlock", "release"}

Left(r) == stage[r] = "answered" \/ (ctxDone[r] = TRUE /\ stage[r] \in Passed)

LEMMA ServeStaysLeft ==
    ASSUME StepInv, NEW r \in Requests, Left(r), Serve(r) PROVE Left(r)'
<1> USE DEF Left, Passed, StepInv, Goes
<1>1. CASE LookupByName(r) \/ LookupByUUID(r) \/ Identity(r) \/ Lock(r)
  BY <1>1 DEF LookupByName, LookupByUUID, Identity, Lock
<1>2. CASE Locked(r) BY <1>2 DEF Locked, Acquire
<1>3. CASE GiveBack(r) \/ Leave(r) BY <1>3 DEF GiveBack, Leave, Unlock, Release
<1>4. CASE IsActive(r) BY <1>4 DEF IsActive, lockVars
<1>5. CASE GetState(r) BY <1>5 DEF GetState, lockVars
<1>6. CASE Operate(r) BY <1>6 DEF Operate, lockVars
<1>7. CASE Recheck(r) \/ Reread(r) BY <1>7 DEF Recheck, Reread, lockVars
<1> QED BY <1>1, <1>2, <1>3, <1>4, <1>5, <1>6, <1>7 DEF Serve

LEMMA SnapshotStaysLeft ==
    ASSUME StepInv, NEW r \in Requests, Left(r), ServeSnapshot(r) PROVE Left(r)'
<1>1. CASE Shared(r) BY <1>1, ServeStaysLeft DEF Shared, Serve
<1> USE DEF Left, Passed, StepInv, Goes
<1>2. CASE ListCurrent(r) \/ ListItems(r) \/ ListDescribe(r) \/ ListSorted(r)
  BY <1>2 DEF ListCurrent, ListItems, ListDescribe, ListSorted
<1>3. CASE LockSnapshotAction(r) \/ Granted(r) \/ GiveUp(r)
  BY <1>3 DEF LockSnapshotAction, Granted, GiveUp, Acquire, Abandon
<1>4. CASE Find(r) BY <1>4 DEF Find, lockVars
<1>5. CASE Check(r) BY <1>5 DEF Check, lockVars
<1>6. CASE Mutate(r) \/ CreatedMetadata(r) BY <1>6 DEF Mutate, CreatedMetadata
<1> QED BY <1>1, <1>2, <1>3, <1>4, <1>5, <1>6 DEF ServeSnapshot

(* The context of a request that went away stays done while it is served.  *)
LEMMA OthersStayLeft ==
    ASSUME LockIInv, NEW r \in Requests, ctxDone[r] = TRUE, [LockNext]_lockVars,
           pc[r] # "idle"
    PROVE  ctxDone'[r] = TRUE
<1>1. ctxDone \in [Requests -> BOOLEAN] BY DEF LockIInv, LockTypeOK
<1>2. CASE UNCHANGED lockVars BY <1>2 DEF lockVars
<1>3. ASSUME NEW q \in Requests, NEW u, NEW withContext, Retain(q, u, withContext)
      PROVE  ctxDone'[r] = TRUE
  BY <1>1, <1>3 DEF Retain
<1>4. ASSUME NEW q \in Requests,
             Acquire(q) \/ Abandon(q) \/ Unlock(q) \/ Release(q) \/ CancelContext(q)
      PROVE  ctxDone'[r] = TRUE
  BY <1>1, <1>4 DEF Acquire, Abandon, Unlock, Release, CancelContext
<1> QED BY <1>2, <1>3, <1>4 DEF LockNext

LEMMA StepStaysLeft ==
    ASSUME StepInv, LockIInv, RouteTypes, [SnapshotsNext]_snapshotVars, NEW r \in Requests, Left(r)
    PROVE  Left(r)'
<1>1. CASE stage'[r] = stage[r]
  <2>1. CASE stage[r] \in Passed
    <3>1. pc[r] # "idle" BY <2>1 DEF StepInv, InStep, Passed, Inside
    <3>2. ctxDone[r] = TRUE => ctxDone'[r] = TRUE BY <3>1, LockStep, OthersStayLeft
    <3> QED BY <1>1, <2>1, <3>2 DEF Left, Passed
  <2> QED BY <1>1, <2>1 DEF Left
<1>2. CASE stage'[r] # stage[r]
  <2>1. PICK q \in Requests : Moves(q) BY <1>2, OneMoves DEF requestVars
  <2>2. q = r BY <1>2, <2>1 DEF Moves, Apart, Alone
  <2>3. stage[r] # "new" BY DEF Left, Passed
  <2>4. ServeSnapshot(r) \/ ServeAction(r) BY <2>1, <2>2, <2>3, ArriveApart DEF Moves
  <2> QED BY <2>4, SnapshotStaysLeft, ServeStaysLeft DEF ServeAction
<1> QED BY <1>1, <1>2

(* A client that went away while its request waited for the lock has       *)
(* changed nothing in the end, whichever case the select took.             *)
THEOREM LeaversChangeNothing == SnapshotsSpec => GoneBeforeItsTurn
<1>1. SnapshotsInit => RouteTypes
  BY DEF SnapshotsInit, ActionsInit, RouteTypes, RequestTypes, OwnTypes
<1>2. StepInv /\ RouteTypes /\ [SnapshotsNext]_snapshotVars => RouteTypes'
  BY OneMoves DEF Moves, Apart, Alone, RouteTypes, RequestTypes, OwnTypes, requestVars, ownVars
<1>3. ASSUME NEW r \in Requests
      PROVE  SnapshotsSpec => []((stage[r] = "wait" /\ ctxDone[r]) => [](stage[r] # "mutate"))
  <2>1. (stage[r] = "wait" /\ ctxDone[r]) /\ LockIInv => Left(r)
    BY DEF Left, Passed, LockIInv, LockTypeOK
  <2>2. Left(r) => stage[r] # "mutate" BY DEF Left, Passed
  <2>3. StepInv /\ LockIInv /\ RouteTypes /\ [SnapshotsNext]_snapshotVars /\ Left(r) => Left(r)'
    BY StepStaysLeft
  <2> QED BY <1>1, <1>2, <2>1, <2>2, <2>3, SnapshotsInvariant, PTL DEF SnapshotsSpec
<1> QED BY <1>3 DEF GoneBeforeItsTurn
=============================================================================
