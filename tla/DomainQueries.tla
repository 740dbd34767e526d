--------------------------- MODULE DomainQueries ---------------------------
(***************************************************************************)
(* The reading routes of internal/hypervisor/libvirt.go: ListDomains,      *)
(* Domain, DomainStats, DomainInterfaces, Autostart, DomainXML, Viewer,    *)
(* Host, HostStats and Ready.                                              *)
(*                                                                         *)
(* They take no lock.  Each is a sequence of libvirt calls, and what it    *)
(* answers is put together from what each call saw; the domains start,     *)
(* stop and cease to exist in between, and devices are unplugged.  Names,  *)
(* memory sizes, counters, addresses and flags are left out: nothing       *)
(* depends on them.                                                        *)
(***************************************************************************)
EXTENDS DomainActions, Integers, Sequences

Lists == {"listAll", "listActive", "listInactive"}
HostQueries == Lists \cup {"host", "hostStats", "ready"}
Queries == HostQueries
             \cup {"domain", "stats", "interfaces", "autostart", "xml", "viewer"}

CONSTANTS
    Devices,    \* devices of every domain, at first: [kind, target] records
    NoTarget,   \* a device without a target name
    MaxUint,    \* 2^32 - 1 in libvirt: a handle's ID for "not running"
    MaxStarts   \* bound: the largest ID given to a domain

ASSUME QueriesAssumption ==
    /\ Operations \subseteq Queries /\ Lifetimes \subseteq {"persistent", "transient"}
    /\ Nothing \notin Domains
    /\ MaxUint \in Nat /\ MaxStarts \in 1 .. MaxUint - 1
    /\ \A x \in Devices : x.kind \in {"disk", "cdrom", "interface"}

VARIABLES
    runID,      \* runID[d]: the ID libvirtd gave d when it last started
    present,    \* present[d]: its devices
    call,       \* call[r]: the call r makes next
    todo,       \* todo[r]: the calls that begin the turns left of r's loop
    handle,     \* handle[r][d]: the ID in the handle r holds for d
    report,     \* report[r]: what r will answer, one record per domain
    was         \* was[r]: what has been true of the domains while r read

libvirtdVars == <<domainVars, runID, present>>
readVars == <<call, todo, handle, report, was>>
queryVars == <<lockVars, requestVars, libvirtdVars, readVars>>

-----------------------------------------------------------------------------
(***************************************************************************)
(* libvirtd (external).                                                    *)
(***************************************************************************)

StateCode(p) == CASE p = "running" -> 1 [] p = "paused" -> 3 [] OTHER -> 5

(* The ID a handle gets when it is made; GetID reads it from there.        *)
HandleID(d) == IF Active(d) THEN runID[d] ELSE MaxUint

(* The port of the domain's display is chosen when the domain starts.      *)
Port(d) == IF Active(d) THEN runID[d] ELSE -1

Fact(d) == [dom |-> d, power |-> power[d], id |-> IF Active(d) THEN runID[d] ELSE -1]
Facts == {Fact(d) : d \in {x \in Domains : life[x] # "gone"}}

(* What a call can return.  Name, UUID and ID are read from the handle,    *)
(* whether or not the domain still exists.  Statistics need a running      *)
(* domain, and the device; an empty cdrom drive has none.  Addresses may   *)
(* be unavailable: to the driver, or from the source asked for, when the   *)
(* domain has no guest agent (ARGUMENT_UNSUPPORTED).                       *)
Unavailable == {"UNSUPPORTED", "ARGUMENT"}

Answers(c) ==
    LET d == c.on
        faults == IF "faults" \in Environment THEN {"OTHER"} ELSE {}
        unsupported == IF "unsupported" \in Environment /\ c.call = "addresses"
                       THEN Unavailable ELSE {}
    IN  (IF d = Nothing \/ c.call \in {"identity", "id"} THEN {"none"}
         ELSE IF life[d] = "gone" THEN {"NO_DOMAIN"}
         ELSE IF c.call \in {"cpu", "memory", "device", "addresses"} /\ ~Active(d)
              THEN {"INVALID"}
         ELSE IF c.call = "device" /\ (c.of \notin present[d] \/ c.of.kind = "cdrom")
              THEN {"OTHER"}
         ELSE {"none"})
            \cup faults \cup unsupported

-----------------------------------------------------------------------------
(***************************************************************************)
(* The conversions.                                                        *)
(***************************************************************************)

(* StateName.                                                              *)
StateName(code) ==
    LET names == <<"no-state", "running", "blocked", "paused", "shutdown",
                   "shutoff", "crashed", "suspended">>
    IN  IF code \in 0 .. Len(names) - 1 THEN names[code + 1] ELSE "unknown"

(* Mutant of NormalizeDomainID: the ID is taken as it is.                  *)
NormalizeDomainIDNot(id) == id
NormalizeDomainID(id) == IF id = MaxUint THEN -1 ELSE id

(* Mutant of TargetsFromXML: every device with a target is asked for.      *)
TargetsFromXMLAll(devices) == {x \in devices : x.target # NoTarget}

TargetsFromXML(devices) ==
    {x \in devices : x.kind \in {"disk", "interface"} /\ x.target # NoTarget}

(* viewerFromXML, as far as the port goes: "-1" is no port.                *)
ViewerPort(port) == IF port = -1 THEN Nothing ELSE port

-----------------------------------------------------------------------------
(***************************************************************************)
(* The calls of each query: which call follows which.  "next" is the next  *)
(* turn of the function's loop, or its return.                             *)
(***************************************************************************)

HostCalls == [start |-> "hostname", hostname |-> "nodeInfo", nodeInfo |-> "next"]
HostStatsCalls == [start |-> "hostCPU", hostCPU |-> "hostMemory", hostMemory |-> "next"]
ReadyCalls == [start |-> "isAlive", isAlive |-> "next"]

(* Every turn is a domainSummary.                                          *)
ListDomainsCalls ==
    [start |-> "listDomains", listDomains |-> "next",
     identity |-> "state", state |-> "active", active |-> "next", id |-> "next"]

(* A domainSummary, and GetInfo.                                           *)
DomainCalls ==
    [start |-> "identity", identity |-> "state", state |-> "active", active |-> "info",
     id |-> "info", info |-> "next"]

DomainStatsCalls ==
    [start |-> "identity", identity |-> "running", running |-> "state", state |-> "cpu",
     cpu |-> "memory", memory |-> "targets", targets |-> "next", device |-> "next"]

DomainInterfacesCalls == [start |-> "identity", identity |-> "addresses", addresses |-> "next"]
AutostartCalls == [start |-> "identity", identity |-> "autostart", autostart |-> "next"]
DomainXMLCalls == [start |-> "xml", xml |-> "next"]
ViewerCalls == [start |-> "viewer", viewer |-> "next"]

Calls(o) ==
    CASE o = "domain"     -> DomainCalls
      [] o = "stats"      -> DomainStatsCalls
      [] o = "interfaces" -> DomainInterfacesCalls
      [] o = "autostart"  -> AutostartCalls
      [] o = "xml"        -> DomainXMLCalls
      [] o = "viewer"     -> ViewerCalls
      [] o = "host"       -> HostCalls
      [] o = "hostStats"  -> HostStatsCalls
      [] o = "ready"      -> ReadyCalls
      [] OTHER            -> ListDomainsCalls

Call(name, d) == [call |-> name, on |-> d, of |-> Nothing]
DeviceCall(d, x) == [call |-> "device", on |-> d, of |-> x]
Return == Call("return", Nothing)

(* Mutant of Filtered: the flags are swapped.                              *)
FilteredSwapped(o) == {d \in Domains : /\ life[d] # "gone"
                                       /\ o = "listActive" => ~Active(d)
                                       /\ o = "listInactive" => Active(d)}

(* The flags of ListAllDomains.                                            *)
Filtered(o) == {d \in Domains : /\ life[d] # "gone"
                                /\ o = "listActive" => Active(d)
                                /\ o = "listInactive" => ~Active(d)}

(* Mutant of AsksID: an inactive domain is asked for its ID, an active one *)
(* is not.                                                                 *)
AsksIDInverted(c) == c.call = "active" /\ ~Active(c.on)
AsksID(c) == c.call = "active" /\ Active(c.on)

(* domainSummary asks for the ID only of a domain it found active.         *)
Following(o, c) == IF AsksID(c) THEN "id" ELSE Calls(o)[c.call]

(* The turns left of the loop of ListDomains or DomainStats.               *)
Turns(r, c) ==
    CASE c.call = "listDomains" -> {Call("identity", d) : d \in Filtered(op[r])}
      [] c.call = "targets" -> {DeviceCall(c.on, x) : x \in TargetsFromXML(present[c.on])}
      [] OTHER -> todo[r]

(* libvirt lists domains and devices in some order; DomainStats asks for   *)
(* the disks first.                                                        *)
MayBeNext(x, turns) ==
    x.call = "device" /\ x.of.kind = "interface" => \A y \in turns : y.of.kind # "disk"

GoesOn(r, c) ==
    LET name == Following(op[r], c)
        turns == Turns(r, c)
    IN  \/ /\ name # "next"
           /\ call' = [call EXCEPT ![r] = Call(name, c.on)]
           /\ todo' = [todo EXCEPT ![r] = turns]
        \/ /\ name = "next" /\ turns = {}
           /\ call' = [call EXCEPT ![r] = Return]
           /\ todo' = [todo EXCEPT ![r] = {}]
        \/ /\ name = "next"
           /\ \E x \in turns :
                /\ MayBeNext(x, turns)
                /\ call' = [call EXCEPT ![r] = x]
                /\ todo' = [todo EXCEPT ![r] = turns \ {x}]

(* What the answer of a call adds to the report.                           *)
Unread(d) == [dom |-> d, state |-> Nothing, active |-> Nothing, id |-> -1, code |-> Nothing,
              port |-> Nothing]

Learn(rep, c, ids) ==
    LET d == c.on
        n == Len(rep)
    IN  CASE c.call = "identity" -> Append(rep, Unread(d))
          [] c.call = "viewer" -> Append(rep, [Unread(d) EXCEPT !.port = ViewerPort(Port(d))])
          [] c.call = "state" -> [rep EXCEPT ![n].state = StateName(StateCode(power[d]))]
          [] c.call = "active" -> [rep EXCEPT ![n].active = Active(d)]
          [] c.call = "id" -> [rep EXCEPT ![n].id = NormalizeDomainID(ids[d])]
          [] c.call = "info" -> [rep EXCEPT ![n].code = StateCode(power[d])]
          [] OTHER -> rep

-----------------------------------------------------------------------------
(***************************************************************************)
(* A request.                                                              *)
(***************************************************************************)

QueriesInit ==
    /\ ActionsInit
    /\ runID = [d \in Domains |-> 1]
    /\ present = [d \in Domains |-> Devices]
    /\ call = [r \in Requests |-> Return]
    /\ todo = [r \in Requests |-> {}]
    /\ handle = [r \in Requests |-> [d \in Domains |-> MaxUint]]
    /\ report = [r \in Requests |-> <<>>]
    /\ was = [r \in Requests |-> {}]

Opens(r) == /\ handle' = [handle EXCEPT ![r] = [d \in Domains |-> HandleID(d)]]
            /\ was' = [was EXCEPT ![r] = Facts]

ArriveQuery(r, o, i) ==
    /\ Arrive(r, o, i)
    /\ call' = [call EXCEPT ![r] = Call(Calls(o).start, Dom(i))]
    /\ UNCHANGED <<runID, present, todo, handle, report, was>>

(* A query of the host looks no domain up.                                 *)
ArriveHostQuery(r, o) ==
    /\ Goes(r, "new", "identity")
    /\ op' = [op EXCEPT ![r] = o]
    /\ call' = [call EXCEPT ![r] = Call(Calls(o).start, Nothing)]
    /\ UNCHANGED <<lockVars, ident, saw, err, status, result, libvirtdVars, todo, handle,
                   report, was>>

LookupQuery(r) ==
    /\ LookupByName(r) \/ LookupByUUID(r)
    /\ Opens(r)
    /\ UNCHANGED <<runID, present, call, todo, report>>

(* ListAllInterfaceAddresses' ARGUMENT_UNSUPPORTED is not classified.      *)
QueryError(c, e) == IF c.call = "addresses" /\ e = "UNSUPPORTED" THEN "422" ELSE "503"

CallFails(r, c, e) ==
    /\ Goes(r, "identity", "answered")
    /\ Answer(r, QueryError(c, e)) /\ Fails(r, e)
    /\ UNCHANGED readVars

(* DomainStats finds the domain inactive.                                  *)
Inactive(c) == c.call = "running" /\ ~Active(c.on)

CallConflicts(r) ==
    /\ Goes(r, "identity", "answered")
    /\ Answer(r, "409")
    /\ UNCHANGED <<err, readVars>>

CallSucceeds(r, c) ==
    /\ GoesOn(r, c)
    /\ report' = [report EXCEPT ![r] = Learn(@, c, handle[r])]
    /\ IF c.call = "listDomains" THEN Opens(r) ELSE UNCHANGED <<handle, was>>
    /\ UNCHANGED <<stage, err, status>>

MakeCall(r) ==
    /\ stage[r] = "identity" /\ call[r] # Return
    /\ \E e \in Answers(call[r]) :
         \/ e # "none" /\ CallFails(r, call[r], e)
         \/ e = "none" /\ Inactive(call[r]) /\ CallConflicts(r)
         \/ e = "none" /\ ~Inactive(call[r]) /\ CallSucceeds(r, call[r])
    /\ UNCHANGED <<lockVars, op, ident, saw, result, libvirtdVars>>

AnswerQuery(r) ==
    /\ Goes(r, "identity", "answered")
    /\ call[r] = Return
    /\ Answer(r, "ok")
    /\ UNCHANGED <<lockVars, op, ident, saw, err, result, libvirtdVars, readVars>>

-----------------------------------------------------------------------------

(* A domain can disturb only a request that is reading it, and a device    *)
(* only one that asks for devices.                                         *)
Reading(r, d) == /\ stage[r] \notin {"new", "answered"}
                 /\ op[r] \in Lists \/ (op[r] \notin HostQueries /\ DomOf(r) = d)

(* A domain that starts gets a new ID.                                     *)
DomainChanges(d) ==
    /\ \E r \in Requests : Reading(r, d)
    /\ VirshActs(d) \/ GuestPowersOff(d)
    /\ runID' = [runID EXCEPT ![d] = IF ~Active(d) /\ power'[d] # "shutoff" THEN @ + 1 ELSE @]
    /\ runID'[d] <= MaxStarts
    /\ was' = [r \in Requests |-> IF stage[r] = "identity" THEN was[r] \cup Facts' ELSE was[r]]
    /\ UNCHANGED <<present, call, todo, handle, report>>

Unplug(d) ==
    /\ "virsh" \in Environment
    /\ \E r \in Requests : Reading(r, d) /\ op[r] = "stats"
    /\ \E x \in present[d] : present' = [present EXCEPT ![d] = @ \ {x}]
    /\ UNCHANGED <<lockVars, requestVars, domainVars, runID, readVars>>

QueriesNext ==
    \/ \E r \in Requests :
        \/ \E o \in Operations \ HostQueries, i \in Keys : ArriveQuery(r, o, i)
        \/ \E o \in Operations \cap HostQueries : ArriveHostQuery(r, o)
        \/ LookupQuery(r) \/ MakeCall(r) \/ AnswerQuery(r)
    \/ \E d \in Domains : DomainChanges(d) \/ Unplug(d)

QueriesSpec == QueriesInit /\ [][QueriesNext]_queryVars

-----------------------------------------------------------------------------
(***************************************************************************)
(* Properties.                                                             *)
(***************************************************************************)

Answered200(r) == stage[r] = "answered" /\ status[r] = "ok"
Reports(r) == {report[r][i] : i \in DOMAIN report[r]}

(* Whatever happens in between, everything a successful answer says of a   *)
(* domain was true of it at some moment after the request looked it up:    *)
(* its state, whether it was active or not, its ID, its state code, its    *)
(* port.  (Not at one and the same moment: see UndisturbedIsExact.)        *)
EachFieldWasTrue ==
    \A r \in Requests : Answered200(r) =>
        \A x \in Reports(r) :
            LET facts == {f \in was[r] : f.dom = x.dom}
            IN  /\ x.state = Nothing \/ \E f \in facts : f.power = x.state
                /\ x.active # Nothing => \E f \in facts : x.active = (f.power # "shutoff")
                /\ x.code # Nothing => \E f \in facts : StateName(x.code) = f.power
                /\ x.id # -1 => \E f \in facts : f.id = x.id
                /\ x.port # Nothing => \E f \in facts : f.id = x.port

Undisturbed(r) == \A f, g \in was[r] : f.dom = g.dom => f = g

(* If a domain did not change while the request read it, its parts agree:  *)
(* state, state code, activity and ID belong together, and an inactive     *)
(* domain has the ID -1.                                                   *)
UndisturbedIsExact ==
    \A r \in Requests : (Answered200(r) /\ op[r] \in Lists \cup {"domain"} /\ Undisturbed(r)) =>
        \A x \in Reports(r) : \A f \in was[r] : f.dom = x.dom =>
            /\ x.state = f.power /\ x.id = f.id
            /\ x.active = (f.power # "shutoff")
            /\ x.code = Nothing \/ StateName(x.code) = x.state

Matches(o, f) == /\ o = "listActive" => f.power # "shutoff"
                 /\ o = "listInactive" => f.power = "shutoff"

(* A list shows no domain twice, every domain that matched the filter all  *)
(* the while, and none that never matched it, though domains start, stop   *)
(* and vanish while ListDomains reads them one by one.  When libvirt does  *)
(* not fail it is refused, as a whole, only because a domain has vanished. *)
ListComplete ==
    \A r \in Requests : (stage[r] = "answered" /\ op[r] \in Lists) =>
        LET shown == {x.dom : x \in Reports(r)}
            about(d) == {f \in was[r] : f.dom = d}
        IN  IF status[r] = "ok"
            THEN /\ Cardinality(shown) = Len(report[r])
                 /\ \A d \in shown : \E f \in about(d) : Matches(op[r], f)
                 /\ \A d \in Domains :
                      (about(d) # {} /\ \A f \in about(d) : Matches(op[r], f)) => d \in shown
            ELSE \E d \in Domains : about(d) # {} /\ life[d] = "gone"

(* When libvirt does not fail, a query is refused only for what it met:    *)
(* 409 for statistics of a domain that was not running, and always when it *)
(* never ran, 422 for addresses the driver cannot give, 503 for addresses  *)
(* the domain's configuration does not allow (DomainInterfaces leaves this *)
(* error unclassified) or when the domain stopped, vanished or lost a      *)
(* device under the request, and never for an idle cdrom drive or a device *)
(* without a target.                                                       *)
RefusedForACause ==
    \A r \in Requests : (stage[r] = "answered" /\ op[r] \in Queries \ HostQueries) =>
        LET d == DomOf(r)
            stopped == \E f \in was[r] : f.dom = d /\ f.power = "shutoff"
            runs == life[d] = "gone" \/ \E f \in was[r] : f.dom = d /\ f.power # "shutoff"
        IN  /\ status[r] = "409" => op[r] = "stats" /\ stopped
            /\ (op[r] = "stats" /\ ~runs) => status[r] = "409"
            /\ status[r] = "422" => op[r] = "interfaces"
            /\ status[r] = "503" => \/ life[d] = "gone"
                                    \/ op[r] \in {"stats", "interfaces"} /\ stopped
                                    \/ op[r] = "stats" /\ present[d] # Devices
                                    \/ op[r] = "interfaces" /\ err[r] = "ARGUMENT"
            /\ err[r] = "UNSUPPORTED" => status[r] = "422"
=============================================================================
