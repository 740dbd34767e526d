----------------------------- MODULE Snapshots -----------------------------
(***************************************************************************)
(* The snapshot routes: ListSnapshots, CreateSnapshot, RevertSnapshot and  *)
(* DeleteSnapshot of internal/hypervisor/snapshots.go, next to the actions *)
(* of DomainActions, with which they share the domains and their locks.    *)
(*                                                                         *)
(* The three that change something take the domain's lock with the         *)
(* request's context: a client that goes away while its request waits      *)
(* frees the place.  ListSnapshots takes no lock and reads in several      *)
(* calls.  The tree of snapshots belongs to libvirtd (external).  A name   *)
(* is a number, in the order of the names' bytes, and 0 is the empty name  *)
(* the code uses for "no parent" and "no current snapshot".                *)
(***************************************************************************)
EXTENDS DomainActions, SnapshotOrder

CONSTANTS
    SnapshotNames,  \* names a snapshot may have
    Present,        \* snapshots there are at first
    Choices,        \* options the requests of a run ask for
    Times,          \* creation times libvirt may record, 0 for none
    Datings,        \* when the snapshots there are at first were created
    MaxMeddling     \* bound: changes other clients make to the snapshots

ASSUME SnapshotsAssumption ==
    /\ SnapshotNames \subseteq Nat \ {0}
    /\ Present \subseteq SnapshotNames
    /\ Times \subseteq Nat
    /\ Datings \subseteq [Present -> Times]
    /\ MaxMeddling \in Nat

VARIABLES
    tree,       \* tree[d]: the snapshots of d, by name
    current,    \* current[d]: the current snapshot of d, or 0
    asked,      \* asked[r]: the snapshot and the option r asks for
    todo,       \* todo[r]: names ListSnapshots has still to describe
    report,     \* report[r]: the descriptions r answers with
    overlapped, \* ListSnapshots requests during which the snapshots changed
    meddled     \* how often other clients changed them

ownVars == <<asked, todo, report>>
treeVars == <<tree, current, overlapped, meddled>>
snapshotVars == <<actionVars, ownVars, treeVars>>

SnapshotOps == {"list", "create", "revert", "delete"}

(* Whether the mutating request asks for a disk snapshot; which state it   *)
(* wants after a revert; whether it deletes the descendants too.           *)
Options(o) ==
    CASE o = "create" -> {"system", "disk"} \cap Choices
      [] o = "revert" -> {"snapshot", "running", "paused"} \cap Choices
      [] o = "delete" -> {"one", "children"} \cap Choices
      [] OTHER -> {Nothing}

Targets(o) == IF o \in {"create", "revert", "delete"} THEN SnapshotNames ELSE {0}

(* The snapshots at first: a chain, of which any is current.               *)
Chain(time) ==
    [s \in Present |->
        [parent |-> IF \E p \in Present : p < s
                    THEN CHOOSE p \in Present : p < s /\ \A q \in Present : q < s => q <= p
                    ELSE 0,
         state |-> "running", time |-> time[s]]]

SnapshotsInit ==
    /\ ActionsInit
    /\ \E time \in Datings : tree = [d \in Domains |-> Chain(time)]
    /\ current \in [Domains -> Present \cup {0}]
    /\ asked = [r \in Requests |-> Nothing]
    /\ todo = [r \in Requests |-> {}]
    /\ report = [r \in Requests |-> <<>>]
    /\ overlapped = {}
    /\ meddled = 0

-----------------------------------------------------------------------------
(***************************************************************************)
(* libvirtd (external).                                                    *)
(***************************************************************************)

Existing(d) == DOMAIN tree[d]

Listing(q) == op[q] = "list" /\ stage[q] \in {"items", "describe"}

(* The tree of d becomes t, with now its current snapshot.                 *)
Becomes(d, t, now) ==
    /\ tree' = [tree EXCEPT ![d] = t]
    /\ current' = [current EXCEPT ![d] = now]
    /\ overlapped' = overlapped \cup {q \in Requests : Listing(q) /\ DomOf(q) = d}

(* A new snapshot is a child of the current one, is as new as any, and     *)
(* becomes current.                                                        *)
CreateEffect(d, s, option) ==
    LET new == [parent |-> current[d],
                time |-> CHOOSE now \in Times : \A t \in Times : t <= now,
                state |-> IF option = "disk" THEN "disk-snapshot" ELSE power[d]]
    IN  Becomes(d, [x \in Existing(d) \cup {s} |-> IF x = s THEN new ELSE tree[d][x]], s)

RevertEffect(d, s, option) ==
    /\ Becomes(d, tree[d], s)
    /\ SetPower(d, IF option # "snapshot" THEN option
                   ELSE IF tree[d][s].state = "disk-snapshot" THEN "shutoff"
                   ELSE tree[d][s].state)

(* s and its descendants: the least set closed under taking children.      *)
Subtree(d, s) ==
    {x \in Existing(d) :
        \A closed \in SUBSET Existing(d) :
            (s \in closed /\ \A y \in Existing(d) : tree[d][y].parent \in closed => y \in closed)
              => x \in closed}

(* The children of a deleted snapshot pass to its parent, and so does      *)
(* being current.                                                          *)
DeleteEffect(d, s, option) ==
    LET removed == IF option = "children" THEN Subtree(d, s) ELSE {s}
        heir == tree[d][s].parent
    IN  Becomes(d,
                [x \in Existing(d) \ removed |->
                    [tree[d][x] EXCEPT !.parent = IF @ \in removed THEN heir ELSE @]],
                IF current[d] \in removed THEN heir ELSE current[d])

(* What the mutating call can return.  libvirt's drivers disagree on the   *)
(* error for a name that is taken.                                         *)
MutateErrors(o, d, s) ==
    (IF life[d] = "gone" THEN {"NO_DOMAIN"}
     ELSE IF (s \in Existing(d)) # (o = "create") THEN {"none"}
     ELSE IF o = "create" THEN {"INVALID", "OTHER"}
     ELSE {"NO_SNAPSHOT"})
        \cup (IF "faults" \in Environment THEN {"OTHER"} ELSE {})
        \cup (IF "unsupported" \in Environment THEN {"INVALID"} \cup Unsupported ELSE {})

(* What a call on one snapshot that only reads can return.                 *)
ReadErrors(d, s) ==
    IF life[d] # "gone" /\ s \notin Existing(d)
    THEN {"NO_SNAPSHOT"} \cup (QueryErrors(d) \cap {"OTHER"})
    ELSE QueryErrors(d)

(* Another client of libvirtd changes the snapshots, while a request of    *)
(* this service is about to read or change them.                           *)
VirshSnapshots(d) ==
    /\ "virsh" \in Environment
    /\ life[d] # "gone"
    /\ \E r \in Requests : op[r] \in SnapshotOps /\ status[r] = Nothing
    /\ meddled < MaxMeddling /\ meddled' = meddled + 1
    /\ \/ /\ \E s \in SnapshotNames \ Existing(d) : CreateEffect(d, s, "system")
          /\ UNCHANGED domainVars
       \/ \E s \in Existing(d) : RevertEffect(d, s, "snapshot")
       \/ /\ \E s \in Existing(d), option \in Options("delete") : DeleteEffect(d, s, option)
          /\ UNCHANGED domainVars
    /\ UNCHANGED <<lockVars, requestVars, ownVars>>

-----------------------------------------------------------------------------
(***************************************************************************)
(* A request.                                                              *)
(***************************************************************************)

ArriveSnapshot(r, o, i, s, option) ==
    /\ Arrive(r, o, i)
    /\ asked' = [asked EXCEPT ![r] = [name |-> s, option |-> option]]
    /\ UNCHANGED <<todo, report, treeVars>>

Target(r) == asked[r].name

(* parseSnapshotDefinition, of the definition GetXMLDesc returned.         *)
Describe(s, x, currentName) ==
    [name |-> s, parent |-> x.parent, state |-> x.state, time |-> x.time,
     current |-> s = currentName]

(* ListSnapshots: SnapshotCurrent and GetName.  That there is no current   *)
(* snapshot is not an error.                                               *)
ListCurrent(r) ==
    /\ op[r] = "list"
    /\ \E e \in QueryErrors(DomOf(r)) :
         \/ /\ e = "none"
            /\ Goes(r, "identity", "items")
            /\ saw' = [saw EXCEPT ![r] = current[DomOf(r)]]
            /\ UNCHANGED <<err, status>>
         \/ /\ e # "none"
            /\ Goes(r, "identity", "answered") /\ Answer(r, "503") /\ Fails(r, e)
            /\ UNCHANGED saw
    /\ UNCHANGED <<lockVars, op, ident, result, domainVars, ownVars, treeVars>>

(* ListAllSnapshots.                                                       *)
ListItems(r) ==
    /\ \E e \in QueryErrors(DomOf(r)) :
         \/ /\ e = "none"
            /\ Goes(r, "items", "describe")
            /\ todo' = [todo EXCEPT ![r] = Existing(DomOf(r))]
            /\ UNCHANGED <<err, status>>
         \/ /\ e # "none"
            /\ Goes(r, "items", "answered") /\ Answer(r, "503") /\ Fails(r, e)
            /\ UNCHANGED todo
    /\ UNCHANGED <<lockVars, op, ident, saw, result, domainVars, asked, report, treeVars>>

(* snapshotMetadata of the next item, in any order; one that is gone fails *)
(* the whole list.                                                         *)
ListDescribe(r) ==
    /\ stage[r] = "describe"
    /\ \E s \in todo[r] : \E e \in ReadErrors(DomOf(r), s) :
         \/ /\ e = "none"
            /\ todo' = [todo EXCEPT ![r] = @ \ {s}]
            /\ report' = [report EXCEPT ![r] =
                            Append(@, Describe(s, tree[DomOf(r)][s], saw[r]))]
            /\ UNCHANGED <<stage, err, status>>
         \/ /\ e # "none"
            /\ Goes(r, "describe", "answered") /\ Answer(r, "503") /\ Fails(r, e)
            /\ UNCHANGED <<todo, report>>
    /\ UNCHANGED <<lockVars, op, ident, saw, result, domainVars, asked, treeVars>>

ListSorted(r) ==
    /\ Goes(r, "describe", "answered")
    /\ todo[r] = {}
    /\ \E sorted \in SortSnapshots(report[r]) : report' = [report EXCEPT ![r] = sorted]
    /\ Answer(r, "ok")
    /\ UNCHANGED <<lockVars, op, ident, saw, err, result, domainVars, asked, todo, treeVars>>

(* lockSnapshotAction.                                                     *)
LockSnapshotAction(r) ==
    /\ Goes(r, "lock", "wait")
    /\ Retain(r, LockKey(r), TRUE)
    /\ UNCHANGED <<op, ident, saw, err, status, result, domainVars, ownVars, treeVars>>

Granted(r) ==
    /\ Goes(r, "wait", IF op[r] = "create" THEN "check" ELSE "find")
    /\ Acquire(r)
    /\ UNCHANGED <<op, ident, saw, err, status, result, domainVars, ownVars, treeVars>>

(* Mutant of GiveUp: the request waits on.                                 *)
GiveUpNever(r) == FALSE /\ UNCHANGED snapshotVars

(* Mutant of GiveUp: the error of lockSnapshotAction is ignored.           *)
GiveUpGoesOn(r) ==
    /\ Goes(r, "wait", "check")
    /\ Abandon(r)
    /\ UNCHANGED <<op, ident, saw, err, status, result, domainVars, ownVars, treeVars>>

(* The context ends while the request waits.                               *)
GiveUp(r) ==
    /\ Goes(r, "wait", "release")
    /\ Abandon(r)
    /\ Answer(r, "503") /\ Fails(r, "CANCELLED")
    /\ UNCHANGED <<op, ident, saw, result, domainVars, ownVars, treeVars>>

ClientLeaves(r) ==
    /\ CancelContext(r)
    /\ UNCHANGED <<requestVars, domainVars, ownVars, treeVars>>

(* Mutant of SnapshotLookupError: every error is libvirt's failure.        *)
SnapshotLookupErrorCoarse(e) == "503"
SnapshotLookupError(e) == IF e = "NO_SNAPSHOT" THEN "404" ELSE "503"

(* SnapshotLookupByName, for a revert or a delete.                         *)
Find(r) ==
    /\ \E e \in ReadErrors(DomOf(r), Target(r)) :
         \/ e = "none" /\ Goes(r, "find", "check") /\ UNCHANGED <<err, status>>
         \/ /\ e # "none"
            /\ Goes(r, "find", "unlock") /\ Fails(r, e)
            /\ Answer(r, SnapshotLookupError(e))
    /\ UNCHANGED <<lockVars, op, ident, saw, result, domainVars, ownVars, treeVars>>

(* Mutant of Check: the context is not looked at again.                    *)
CheckNothing(r) ==
    /\ Goes(r, "check", "mutate")
    /\ UNCHANGED <<lockVars, op, ident, saw, err, status, result, domainVars, ownVars,
                   treeVars>>

(* ctx.Err(), once more before the call that changes something.            *)
Check(r) ==
    /\ \/ ~ctxDone[r] /\ Goes(r, "check", "mutate") /\ UNCHANGED <<err, status>>
       \/ /\ ctxDone[r]
          /\ Goes(r, "check", "unlock") /\ Answer(r, "503") /\ Fails(r, "CANCELLED")
    /\ UNCHANGED <<lockVars, op, ident, saw, result, domainVars, ownVars, treeVars>>

(* An argument the driver does not support is not one of the errors        *)
(* answered 422.                                                           *)
SnapshotOperationError(e) ==
    CASE e = "INVALID" -> "409" [] e \in {"UNSUPPORTED", "CONFIG"} -> "422" [] OTHER -> "503"

(* CreateSnapshotXML, RevertToSnapshot or Delete.                          *)
Mutate(r) ==
    LET d == DomOf(r)  s == Target(r)  option == asked[r].option
    IN  /\ \E e \in MutateErrors(op[r], d, s) :
             \/ /\ e # "none"
                /\ Goes(r, "mutate", "unlock") /\ Fails(r, e)
                /\ Answer(r, SnapshotOperationError(e))
                /\ UNCHANGED <<domainVars, treeVars>>
             \/ /\ e = "none" /\ op[r] = "create"
                /\ Goes(r, "mutate", "metadata")
                /\ CreateEffect(d, s, option)
                /\ UNCHANGED <<err, status, domainVars>>
             \/ /\ e = "none" /\ op[r] = "revert"
                /\ Goes(r, "mutate", "unlock") /\ Answer(r, "ok")
                /\ RevertEffect(d, s, option)
                /\ UNCHANGED err
             \/ /\ e = "none" /\ op[r] = "delete"
                /\ Goes(r, "mutate", "unlock") /\ Answer(r, "ok")
                /\ DeleteEffect(d, s, option)
                /\ UNCHANGED <<err, domainVars>>
        /\ UNCHANGED <<lockVars, op, ident, saw, result, ownVars, meddled>>

(* Mutant of CreatedName: the created snapshot is described like one in a  *)
(* list without a current snapshot.                                        *)
CreatedNameEmpty(r) == 0
CreatedName(r) == Target(r)

(* snapshotMetadata of the snapshot just created, which is taken to be the *)
(* current one; its failure is answered 503 and leaves the snapshot.       *)
CreatedMetadata(r) ==
    /\ \E e \in ReadErrors(DomOf(r), Target(r)) :
         \/ /\ e = "none"
            /\ Goes(r, "metadata", "unlock") /\ Answer(r, "ok")
            /\ report' = [report EXCEPT ![r] =
                            <<Describe(Target(r), tree[DomOf(r)][Target(r)], CreatedName(r))>>]
            /\ UNCHANGED err
         \/ /\ e # "none"
            /\ Goes(r, "metadata", "unlock") /\ Answer(r, "503") /\ Fails(r, e)
            /\ UNCHANGED report
    /\ UNCHANGED <<lockVars, op, ident, saw, result, domainVars, asked, todo, treeVars>>

-----------------------------------------------------------------------------

(* ListSnapshots asks for no identity.                                     *)
Shared(r) == /\ \/ LookupByName(r) \/ LookupByUUID(r) \/ GiveBack(r) \/ Leave(r)
                \/ op[r] # "list" /\ Identity(r)
             /\ UNCHANGED <<ownVars, treeVars>>

ServeSnapshot(r) ==
    /\ op[r] \in SnapshotOps
    /\ \/ Shared(r)
       \/ ListCurrent(r) \/ ListItems(r) \/ ListDescribe(r) \/ ListSorted(r)
       \/ LockSnapshotAction(r) \/ Granted(r) \/ GiveUp(r)
       \/ Find(r) \/ Check(r) \/ Mutate(r) \/ CreatedMetadata(r)

ServeAction(r) ==
    /\ op[r] \notin SnapshotOps
    /\ Serve(r)
    /\ UNCHANGED <<ownVars, treeVars>>

SnapshotsNext ==
    \/ \E r \in Requests :
        \/ \E o \in Operations, i \in Keys :
             \E s \in Targets(o), option \in Options(o) : ArriveSnapshot(r, o, i, s, option)
        \/ ServeSnapshot(r) \/ ServeAction(r) \/ ClientLeaves(r)
    \/ \E d \in Domains : \/ VirshSnapshots(d)
                          \/ /\ GuestPowersOff(d) \/ VirshActs(d)
                             /\ UNCHANGED <<ownVars, treeVars>>

SnapshotsSpec == SnapshotsInit /\ [][SnapshotsNext]_snapshotVars

(* A creation, a revert or a deletion may take as long as it likes: only   *)
(* the steps of a request that holds no lock are certain, and the lock is  *)
(* granted in turn.                                                        *)
SlowSnapshotsSpec ==
    /\ SnapshotsSpec
    /\ \A r \in Requests :
         /\ WF_snapshotVars(pc[r] # "holding" /\ (ServeSnapshot(r) \/ ServeAction(r)))
         /\ SF_snapshotVars(Granted(r)) /\ SF_snapshotVars(ServeAction(r) /\ Locked(r))

-----------------------------------------------------------------------------
(***************************************************************************)
(* Properties.                                                             *)
(***************************************************************************)

SnapshotCritical == {"find", "check", "mutate", "metadata", "unlock"}

(* While a request works on a domain's snapshots with its lock held, no    *)
(* other request of this service changes the domain's power state or its   *)
(* snapshots.  (Other clients of libvirtd are not bound by the lock.)      *)
NobodyElseActs ==
    [][\A r \in Requests :
         (stage[r] \in SnapshotCritical /\ stage'[r] = stage[r])
           => LET d == DomOf(r)
              IN  tree'[d] = tree[d] /\ current'[d] = current[d] /\ power'[d] = power[d]
      ]_snapshotVars

(* What a look at the snapshot s of d, all at once, would show.            *)
TrueEntry(d, s) ==
    [name |-> s, parent |-> tree[d][s].parent, state |-> tree[d][s].state,
     time |-> tree[d][s].time, current |-> current[d] = s]

(* What a successful answer to r says is so.                               *)
AnswerIsTrue(r) ==
    LET d == DomOf(r)  s == Target(r)
    IN  CASE op[r] = "create" -> report[r] = <<TrueEntry(d, s)>>
          [] op[r] = "revert" -> current[d] = s /\ asked[r].option \in {"snapshot", power[d]}
          [] OTHER -> s \notin Existing(d)

(* When only this service acts, what a request answers is true until it    *)
(* gives the lock back: a created snapshot is the current one and has the  *)
(* parent and state it was reported with, though they were read after it   *)
(* was made; a reverted-to snapshot is current and the domain is in the    *)
(* state asked for; a deleted one is gone.                                 *)
AnswerTrueWhenMade ==
    \A r \in Requests :
        (stage[r] = "unlock" /\ status[r] = "ok" /\ op[r] \in SnapshotOps) => AnswerIsTrue(r)

(* A failure has a cause the caller can know.                              *)
Explained(r) ==
    CASE op[r] = "list" -> status[r] = "ok" \/ (status[r] = "503" /\ r \in overlapped)
      [] op[r] = "create" -> \/ status[r] \in {"ok", "409"}
                             \/ status[r] = "503" /\ err[r] \in {"CANCELLED", "OTHER"}
      [] OTHER -> \/ status[r] = "ok"
                  \/ status[r] = "404" /\ err[r] = "NO_SNAPSHOT"
                  \/ status[r] = "503" /\ err[r] = "CANCELLED"

(* When only this service acts and libvirt does not fail, 503 has a cause  *)
(* the caller can know: the client went away, the name was taken, or a     *)
(* list met a deletion.  In particular a snapshot found under the lock is  *)
(* still there when it is reverted to or deleted, and a missing one is     *)
(* always answered 404.                                                    *)
NoUnexplainedFailure ==
    \A r \in Requests :
        (stage[r] = "answered" /\ op[r] \in SnapshotOps) => Explained(r)

(* A client that went away before its request was given the lock does not  *)
(* change anything, even when the lock comes free in the same moment and   *)
(* the select takes that case.                                             *)
GoneBeforeItsTurn ==
    \A r \in Requests :
        []((stage[r] = "wait" /\ ctxDone[r]) => [](stage[r] # "mutate"))

Older(a, b) == IF a.time = 0 \/ b.time = 0 \/ a.time = b.time THEN a.name < b.name
               ELSE a.time < b.time

(* If all the snapshots have a creation time, a list shows every one       *)
(* before all newer ones, and those of the same time by name, in whatever  *)
(* order libvirt returned them.  If some have none the comparison is not   *)
(* transitive, and only neighbours are certain to be in order, by name     *)
(* where a time is missing; of more than twelve snapshots not even those.  *)
(* If the snapshots did not change while they were read the list has       *)
(* exactly those there are, each once, with the current one marked.        *)
ListExact ==
    [][\A r \in Requests :
         (Listing(r) /\ stage'[r] = "answered" /\ status'[r] = "ok")
           => LET d == DomOf(r)
                  list == report'[r]
              IN  /\ (\A i \in DOMAIN list : list[i].time # 0)
                       => \A i, j \in DOMAIN list : i < j => Older(list[i], list[j])
                  /\ Len(list) <= 12
                       => \A i \in 1 .. Len(list) - 1 : Older(list[i], list[i + 1])
                  /\ r \notin overlapped =>
                       /\ Len(list) = Cardinality(Existing(d))
                       /\ {list[i] : i \in DOMAIN list} = {TrueEntry(d, s) : s \in Existing(d)}
      ]_snapshotVars

SnapshotCause(r) ==
    /\ err[r] = "none" <=> status[r] = "ok"
    /\ err[r] = "INVALID" <=> status[r] = "409"
    /\ err[r] \in {"UNSUPPORTED", "CONFIG"} <=> status[r] = "422"
    /\ err[r] \in {"OTHER", "ARGUMENT", "CANCELLED"} => status[r] = "503"
    /\ status[r] = "404" => err[r] \in {"NO_DOMAIN", "NO_SNAPSHOT"}

(* With other clients and failures acting in between, the answer follows   *)
(* from the error libvirt returned: 409 for what does not fit the state,   *)
(* 422 for an operation or a configuration that is not supported, 503 for  *)
(* an argument that is not, for a failure and for a client that left, 404  *)
(* for nothing but a missing domain or snapshot, and success for nothing   *)
(* but success.                                                            *)
SnapshotStatusMatchesCause ==
    \A r \in Requests :
        (stage[r] = "answered" /\ op[r] \in SnapshotOps) => SnapshotCause(r)

(* Both, for requests of every kind.                                       *)
AnswerMatchesCause == StatusMatchesCause /\ SnapshotStatusMatchesCause

(* If every holder of the lock comes back from libvirt, then every request *)
(* that arrived is answered, and leaves no lock behind.                    *)
SnapshotAnswered ==
    (\A q \in Requests : []<>(pc[q] # "holding"))
      => \A r \in Requests :
           stage[r] = "byName" ~> (stage[r] = "answered" /\ lock[r] = NoLock)

(* A request whose client went away while it waited is over even if the    *)
(* holder of the lock never comes back from libvirt.                       *)
LeaversNotHeldUp ==
    \A r \in Requests :
        (stage[r] = "wait" /\ ctxDone[r])
          ~> (stage[r] \in SnapshotCritical \/ (stage[r] = "answered" /\ lock[r] = NoLock))
=============================================================================
