--------------------------- MODULE DomainActions ---------------------------
(***************************************************************************)
(* The action routes: Start, Shutdown, Reboot, Pause, Resume, Reset, Stop  *)
(* and SetAutostart of internal/hypervisor/libvirt.go, called by the       *)
(* handlers of internal/api/server.go, and how writeServiceError answers   *)
(* their errors.                                                           *)
(*                                                                         *)
(* A request looks its domain up, takes the domain's action lock           *)
(* (DomainActionLock), and then makes a sequence of separate libvirt calls *)
(* with the lock held; each libvirt call is one step.  The domains belong  *)
(* to libvirtd (external): other clients of libvirtd, the guests and the   *)
(* daemon's failures act between any two steps, as far as Environment      *)
(* allows.                                                                 *)
(***************************************************************************)
EXTENDS DomainActionLock

CONSTANTS
    Domains,        \* domains, by UUID
    Names,          \* domain names
    DomainNamed,    \* DomainNamed[n]: the domain whose name is n
    Operations,     \* operations the requests of a run ask for
    Lifetimes,      \* subset of {"persistent", "transient"}
    Environment,    \* subset of {"guest", "virsh", "faults", "unsupported"}
    Nothing         \* nothing asked, nothing answered

ASSUME ActionsAssumption ==
    /\ Keys = Domains \cup Names
    /\ Domains \cap Names = {}
    /\ DomainNamed \in [Names -> Domains]
    /\ Nothing \notin {"ok", "404", "409", "422", "503"}
    /\ Nothing \notin {[op |-> o, dom |-> d] : o \in Operations, d \in Domains}

VARIABLES
    stage,      \* stage[r]: the call r makes next
    op,         \* op[r]: the operation asked for
    ident,      \* ident[r]: the {identifier} of the path, a name or a UUID
    saw,        \* saw[r]: the result of GetState
    err,        \* err[r]: the first error libvirt returned to r
    status,     \* status[r]: how r is, or will be, answered ("ok": 200 or 202)
    result,     \* result[r]: the state reported in a successful answer
    life,       \* life[d]: "persistent", "transient" or "gone"
    power,      \* power[d]: "shutoff", "running" or "paused"
    autostart   \* autostart[d]: "enable" or "disable", as last set

requestVars == <<stage, op, ident, saw, err, status, result>>
domainVars == <<life, power, autostart>>
actionVars == <<lockVars, requestVars, domainVars>>

ActionsInit ==
    /\ LockInit
    /\ stage = [r \in Requests |-> "new"]
    /\ op = [r \in Requests |-> Nothing]
    /\ ident = [r \in Requests |-> Nothing]
    /\ saw = [r \in Requests |-> Nothing]
    /\ err = [r \in Requests |-> "none"]
    /\ status = [r \in Requests |-> Nothing]
    /\ result = [r \in Requests |-> Nothing]
    /\ life \in [Domains -> Lifetimes]
    /\ power \in [Domains -> {"shutoff", "running", "paused"}]
    /\ \A d \in Domains : life[d] = "transient" => power[d] # "shutoff"
    /\ autostart = [d \in Domains |-> "disable"]

-----------------------------------------------------------------------------
(***************************************************************************)
(* libvirtd, as far as the code uses it (external).                        *)
(***************************************************************************)

Dom(i) == IF i \in Names THEN DomainNamed[i] ELSE i
DomOf(r) == Dom(ident[r])

Active(d) == power[d] # "shutoff"

(* What a call that only reads can return.                                 *)
QueryErrors(d) ==
    (IF life[d] = "gone" THEN {"NO_DOMAIN"} ELSE {"none"})
        \cup (IF "faults" \in Environment THEN {"OTHER"} ELSE {})

Unsupported == {"UNSUPPORTED", "CONFIG", "ARGUMENT"}

(* What the call of an operation can return: a domain that is gone, in the *)
(* wrong state, or transient where a persistent one is needed; a failure   *)
(* of the daemon; an operation the driver does not support (UNSUPPORTED    *)
(* for NO_SUPPORT and OPERATION_UNSUPPORTED), or not in this configuration *)
(* (CONFIG for CONFIG_UNSUPPORTED) or with these flags (ARGUMENT for       *)
(* ARGUMENT_UNSUPPORTED).                                                  *)
CallErrors(o, d) ==
    (IF life[d] = "gone" THEN {"NO_DOMAIN"}
     ELSE IF \/ o = "start" /\ Active(d)
             \/ o \in {"enable", "disable"} /\ life[d] = "transient"
             \/ o = "resume" /\ power[d] # "paused"
             \/ o \notin {"start", "enable", "disable"} /\ ~Active(d)
          THEN {"INVALID"}
     ELSE {"none"})
        \cup (IF "faults" \in Environment THEN {"OTHER"} ELSE {})
        \cup (IF "unsupported" \in Environment THEN Unsupported ELSE {})

(* A transient domain ceases to exist when it is powered off.              *)
PowerOff(d) ==
    /\ power' = [power EXCEPT ![d] = "shutoff"]
    /\ life' = [life EXCEPT ![d] = IF @ = "transient" THEN "gone" ELSE @]
    /\ UNCHANGED autostart

SetPower(d, p) == power' = [power EXCEPT ![d] = p] /\ UNCHANGED <<life, autostart>>

(* The effect of a call that succeeds.  Shutdown and Reboot only ask the   *)
(* guest; Reset leaves a paused domain paused.                             *)
Effect(o, d) ==
    CASE o \in {"start", "resume"}   -> SetPower(d, "running")
      [] o = "pause"                 -> SetPower(d, "paused")
      [] o = "stop"                  -> PowerOff(d)
      [] o \in {"enable", "disable"} -> /\ autostart' = [autostart EXCEPT ![d] = o]
                                        /\ UNCHANGED <<life, power>>
      [] OTHER                       -> UNCHANGED domainVars

(* The guest powers itself off, asked or not.                              *)
GuestPowersOff(d) ==
    /\ "guest" \in Environment
    /\ power[d] = "running"
    /\ PowerOff(d)
    /\ UNCHANGED <<lockVars, requestVars>>

(* Another client of libvirtd acts on the domain.                          *)
VirshActs(d) ==
    /\ "virsh" \in Environment
    /\ life[d] # "gone"
    /\ \/ ~Active(d) /\ SetPower(d, "running")
       \/ power[d] = "running" /\ SetPower(d, "paused")
       \/ power[d] = "paused" /\ SetPower(d, "running")
       \/ Active(d) /\ PowerOff(d)
       \/ /\ ~Active(d)
          /\ life' = [life EXCEPT ![d] = "gone"]
          /\ UNCHANGED <<power, autostart>>
    /\ UNCHANGED <<lockVars, requestVars>>

-----------------------------------------------------------------------------
(***************************************************************************)
(* A request.                                                              *)
(***************************************************************************)

ActionOps == {"start", "shutdown", "reboot", "pause", "resume", "reset", "stop",
              "enable", "disable"}

(* The operations of SetAutostart, which looks at no state first.          *)
Autostarts == {"enable", "disable"}

Goes(r, from, to) == stage[r] = from /\ stage' = [stage EXCEPT ![r] = to]

(* writeServiceError: ErrNotFound is 404, ErrConflict 409, ErrUnsupported  *)
(* 422 and every other error 503.                                          *)
Answer(r, code) == status' = [status EXCEPT ![r] = code]

Fails(r, e) == err' = [err EXCEPT ![r] = e]

Arrive(r, o, i) ==
    /\ Goes(r, "new", "byName")
    /\ op' = [op EXCEPT ![r] = o]
    /\ ident' = [ident EXCEPT ![r] = i]
    /\ UNCHANGED <<lockVars, saw, err, status, result, domainVars>>

(* lookupDomain: by name first, and by UUID when there is no such name and *)
(* the identifier is a canonical UUID.                                     *)
LookupByName(r) ==
    /\ stage[r] = "byName"
    /\ \E e \in IF ident[r] \in Names THEN QueryErrors(DomOf(r))
                ELSE {"NO_DOMAIN"} \cup (QueryErrors(DomOf(r)) \cap {"OTHER"}) :
         \/ e = "none" /\ Goes(r, "byName", "identity") /\ UNCHANGED <<err, status>>
         \/ /\ e = "NO_DOMAIN" /\ ident[r] \in Domains
            /\ Goes(r, "byName", "byUUID")
            /\ UNCHANGED <<err, status>>
         \/ /\ e = "NO_DOMAIN" /\ ident[r] \notin Domains
            /\ Goes(r, "byName", "answered") /\ Answer(r, "404") /\ Fails(r, e)
         \/ /\ e = "OTHER"
            /\ Goes(r, "byName", "answered") /\ Answer(r, "503") /\ Fails(r, e)
    /\ UNCHANGED <<lockVars, op, ident, saw, result, domainVars>>

LookupByUUID(r) ==
    /\ stage[r] = "byUUID"
    /\ \E e \in QueryErrors(DomOf(r)) :
         \/ e = "none" /\ Goes(r, "byUUID", "identity") /\ UNCHANGED <<err, status>>
         \/ /\ e # "none"
            /\ Goes(r, "byUUID", "answered") /\ Fails(r, e)
            /\ Answer(r, IF e = "NO_DOMAIN" THEN "404" ELSE "503")
    /\ UNCHANGED <<lockVars, op, ident, saw, result, domainVars>>

(* domainIdentity: GetName and GetUUIDString read the domain handle, and   *)
(* find it whether or not the domain still exists.                         *)
Identity(r) ==
    /\ stage[r] = "identity"
    /\ \/ Goes(r, "identity", "lock") /\ UNCHANGED <<err, status>>
       \/ /\ "faults" \in Environment
          /\ Goes(r, "identity", "answered") /\ Answer(r, "503") /\ Fails(r, "OTHER")
    /\ UNCHANGED <<lockVars, op, ident, saw, result, domainVars>>

(* Mutant of LockKey: the lock is keyed by what the client wrote.          *)
LockKeyIdentifier(r) == ident[r]

(* The lock is keyed by the UUID domainIdentity found, so that a name and  *)
(* a UUID of the same domain take the same lock.                           *)
LockKey(r) == DomOf(r)

Lock(r) ==
    /\ Goes(r, "lock", "wait")
    /\ Retain(r, LockKey(r), FALSE)
    /\ UNCHANGED <<op, ident, saw, err, status, result, domainVars>>

Locked(r) ==
    /\ Goes(r, "wait", IF op[r] \in Autostarts THEN "operate" ELSE "isActive")
    /\ Acquire(r)
    /\ UNCHANGED <<op, ident, saw, err, status, result, domainVars>>

(* IsActive, and the conflict it may find.                                 *)
IsActive(r) ==
    /\ stage[r] = "isActive"
    /\ \E e \in QueryErrors(DomOf(r)) :
         \/ /\ e # "none"
            /\ Goes(r, "isActive", "unlock") /\ Answer(r, "503") /\ Fails(r, e)
         \/ /\ e = "none" /\ (op[r] = "start" <=> Active(DomOf(r)))
            /\ Goes(r, "isActive", "unlock") /\ Answer(r, "409")
            /\ UNCHANGED err
         \/ /\ e = "none" /\ ~(op[r] = "start" <=> Active(DomOf(r)))
            /\ Goes(r, "isActive", IF op[r] \in {"start", "stop"} THEN "operate"
                                   ELSE "getState")
            /\ UNCHANGED <<err, status>>
    /\ UNCHANGED <<lockVars, op, ident, saw, result, domainVars>>

(* The conflicts the closures of Pause and Resume find in the state.       *)
AlreadySo(o, p) == \/ o = "pause" /\ p = "paused"
                   \/ o = "resume" /\ p # "paused"

GetState(r) ==
    /\ stage[r] = "getState"
    /\ \E e \in QueryErrors(DomOf(r)) :
         \/ /\ e # "none"
            /\ Goes(r, "getState", "unlock") /\ Answer(r, "503") /\ Fails(r, e)
            /\ UNCHANGED saw
         \/ /\ e = "none" /\ AlreadySo(op[r], power[DomOf(r)])
            /\ Goes(r, "getState", "unlock") /\ Answer(r, "409")
            /\ UNCHANGED <<saw, err>>
         \/ /\ e = "none" /\ ~AlreadySo(op[r], power[DomOf(r)])
            /\ Goes(r, "getState", "operate")
            /\ saw' = [saw EXCEPT ![r] = power[DomOf(r)]]
            /\ UNCHANGED <<err, status>>
    /\ UNCHANGED <<lockVars, op, ident, result, domainVars>>

(* The state a successful answer reports.                                  *)
Reported(r) ==
    CASE op[r] \in {"start", "resume", "reset"} -> "running"
      [] op[r] = "pause" -> "paused"
      [] op[r] = "stop" -> "shutoff"
      [] op[r] \in Autostarts -> op[r]
      [] OTHER -> saw[r]

(* Mutant of Classified: an operation invalid in the current state is      *)
(* taken for a failure of libvirt.                                         *)
ClassifiedCoarsely(o, e) == IF e = "UNSUPPORTED" THEN "422" ELSE "503"

(* How an error of the operation itself is classified and answered.  Start *)
(* and Stop classify nothing, SetAutostart no invalid state, and only      *)
(* Shutdown an unsupported configuration or argument.                      *)
Classified(o, e) ==
    CASE e = "INVALID" /\ o \in {"shutdown", "reboot", "pause", "resume", "reset"} -> "409"
      [] e = "UNSUPPORTED" /\ o \notin {"start", "stop"} -> "422"
      [] e \in {"CONFIG", "ARGUMENT"} /\ o = "shutdown" -> "422"
      [] OTHER -> "503"

(* The libvirt call of the operation.                                      *)
Operate(r) ==
    /\ stage[r] = "operate"
    /\ \E e \in CallErrors(op[r], DomOf(r)) :
         \/ /\ e = "none"
            /\ Goes(r, "operate", IF op[r] = "shutdown" THEN "reread" ELSE "unlock")
            /\ Answer(r, "ok")
            /\ result' = [result EXCEPT ![r] = Reported(r)]
            /\ Effect(op[r], DomOf(r))
            /\ UNCHANGED err
         \/ /\ e # "none" /\ op[r] \in {"start", "stop", "shutdown"}
            /\ Goes(r, "operate", "recheck") /\ Fails(r, e)
            /\ UNCHANGED <<status, result, domainVars>>
         \/ /\ e # "none" /\ op[r] \notin {"start", "stop", "shutdown"}
            /\ Goes(r, "operate", "unlock") /\ Fails(r, e)
            /\ Answer(r, Classified(op[r], e))
            /\ UNCHANGED <<result, domainVars>>
    /\ UNCHANGED <<lockVars, op, ident, saw>>

(* The IsActive after a failed Create, Destroy or ShutdownFlags.           *)
Recheck(r) ==
    /\ Goes(r, "recheck", "unlock")
    /\ \E e \in QueryErrors(DomOf(r)) :
         /\ Answer(r, IF e = "none" /\ (op[r] = "start" <=> Active(DomOf(r)))
                      THEN "409" ELSE Classified(op[r], err[r]))
         /\ saw' = [saw EXCEPT ![r] = IF e # "none" THEN @
                                      ELSE IF Active(DomOf(r)) THEN "active" ELSE "inactive"]
    /\ UNCHANGED <<lockVars, op, ident, err, result, domainVars>>

(* The GetState after an accepted graceful shutdown; its failure is        *)
(* ignored.                                                                *)
Reread(r) ==
    /\ Goes(r, "reread", "unlock")
    /\ \E e \in QueryErrors(DomOf(r)) :
         result' = IF e = "none" THEN [result EXCEPT ![r] = power[DomOf(r)]] ELSE result
    /\ UNCHANGED <<lockVars, op, ident, saw, err, status, domainVars>>

(* The deferred unlock: the token, then the reference.                     *)
GiveBack(r) ==
    /\ Goes(r, "unlock", "release")
    /\ Unlock(r)
    /\ UNCHANGED <<op, ident, saw, err, status, result, domainVars>>

Leave(r) ==
    /\ Goes(r, "release", "answered")
    /\ Release(r)
    /\ UNCHANGED <<op, ident, saw, err, status, result, domainVars>>

-----------------------------------------------------------------------------

Serve(r) == \/ LookupByName(r) \/ LookupByUUID(r) \/ Identity(r) \/ Lock(r) \/ Locked(r)
            \/ IsActive(r) \/ GetState(r) \/ Operate(r) \/ Recheck(r) \/ Reread(r)
            \/ GiveBack(r) \/ Leave(r)

(* Only this service acts on the domains; Snapshots adds the others.       *)
ActionsNext ==
    \E r \in Requests :
        \/ \E o \in Operations, i \in Keys : Arrive(r, o, i)
        \/ Serve(r)

ActionsSpec == ActionsInit /\ [][ActionsNext]_actionVars

-----------------------------------------------------------------------------
(***************************************************************************)
(* Properties.                                                             *)
(***************************************************************************)

(* libvirt called the operation unsupported in a way its route knows: not  *)
(* Start and Stop, and all four errors only for Shutdown.                  *)
KnownUnsupported(r) ==
    \/ err[r] = "UNSUPPORTED" /\ op[r] \notin {"start", "stop"}
    \/ err[r] \in {"CONFIG", "ARGUMENT"} /\ op[r] = "shutdown"

(* Start, Stop or Shutdown failed, looked again and found the domain       *)
(* already in the state they are to bring about.                           *)
ConflictSeen(r) ==
    \/ op[r] = "start" /\ saw[r] = "active"
    \/ op[r] \in {"stop", "shutdown"} /\ saw[r] = "inactive"

(* The answer to r follows from the first error libvirt returned.          *)
ActionCause(r) ==
    LET invalid == err[r] = "INVALID" /\ op[r] \notin {"start", "stop", "enable", "disable"}
    IN  /\ err[r] = "none" => status[r] \in {"ok", "409"}
        /\ status[r] = "ok" => err[r] = "none"
        /\ invalid => status[r] = "409"
        /\ status[r] = "409" => err[r] = "none" \/ invalid \/ ConflictSeen(r)
        /\ KnownUnsupported(r) => status[r] \in {"409", "422"}
        /\ status[r] = "422" => KnownUnsupported(r)
        /\ err[r] = "OTHER" => status[r] \in {"409", "503"}
        /\ status[r] = "404" => err[r] = "NO_DOMAIN"

(* With other clients, guests and failures acting in between, the answer   *)
(* still follows from the first error libvirt returned: 409 for an         *)
(* operation that does not fit the state (Start, Stop and SetAutostart     *)
(* apart), 422 for an unsupported one the route knows as such, 503 for a   *)
(* failure, and success only without error.  Only Start, Stop and Shutdown *)
(* answer 409 to any other error, and only if the domain was seen in the   *)
(* state that is the conflict when they looked again.                      *)
StatusMatchesCause ==
    \A r \in Requests : (stage[r] = "answered" /\ op[r] \in ActionOps) => ActionCause(r)

(* The README: "A missing domain returns `404 Not Found`".  libvirt said   *)
(* that the domain does not exist.                                         *)
MissingIs404 ==
    \A r \in Requests :
        (stage[r] = "answered" /\ err[r] = "NO_DOMAIN") => status[r] = "404"

(* What a request asks for, and how it is answered, as AtomicActions puts  *)
(* it.                                                                     *)
WantedBy(r) == IF stage[r] = "new" THEN Nothing ELSE [op |-> op[r], dom |-> DomOf(r)]

AnswerTo(r) ==
    CASE status[r] = Nothing -> Nothing
      [] status[r] = "ok" -> [status |-> "ok", state |-> result[r]]
      [] status[r] = "409" -> [status |-> "conflict", state |-> "none"]
      [] status[r] \in {"422", "503"} /\ err[r] \in {"OTHER"} \cup Unsupported
           -> [status |-> "failed", state |-> "none"]
      [] OTHER -> [status |-> "unexplained", state |-> "none"]

Atomic == INSTANCE AtomicActions WITH
    Clients <- Requests,
    wanted <- [r \in Requests |-> WantedBy(r)],
    answer <- [r \in Requests |-> AnswerTo(r)]

(* When only this service acts on the domains, the lock makes look-up,     *)
(* check and operation one atomic step: requests are answered as if served *)
(* one at a time, and a request is answered 422 or 503 only because        *)
(* libvirt failed or did not support it, and has then changed nothing.     *)
(* Each report is the state the domain is in when it is made, except that  *)
(* of Reset, which says "running" of a paused domain that stays paused.    *)
ImplementsAtomic == Atomic!Spec
=============================================================================
