------------------------ MODULE DomainQueriesProofs ------------------------
(***************************************************************************)
(* What the answers of the reading routes can be relied on for, with any   *)
(* number of requests, domains and devices, while domains start, stop and  *)
(* cease to exist and devices are unplugged between any two calls.         *)
(***************************************************************************)
EXTENDS DomainQueries, FiniteSetTheorems, TLAPS

PowerStates == {"shutoff", "running", "paused"}

(* libvirtd: a domain that is gone is shut off, and devices only go.       *)
WorldInv ==
    /\ life \in [Domains -> {"persistent", "transient", "gone"}]
    /\ power \in [Domains -> PowerStates]
    /\ runID \in [Domains -> 1 .. MaxStarts]
    /\ present \in [Domains -> SUBSET Devices]
    /\ \A d \in Domains : life[d] = "gone" => power[d] = "shutoff"

(* What can have been true of a domain.                                    *)
AllFacts == {f \in [dom : Domains, power : PowerStates, id : Int] :
                f.power = "shutoff" <=> f.id = -1}

Entries == [dom : Domains, state : PowerStates \cup {Nothing}, id : Int,
            active : BOOLEAN \cup {Nothing}, code : Int \cup {Nothing}, port : Int \cup {Nothing}]

DeviceCalls(d) == {DeviceCall(d, x) : x \in TargetsFromXML(Devices)}

RequestTypes ==
    /\ DOMAIN stage = Requests /\ DOMAIN op = Requests /\ DOMAIN ident = Requests
    /\ DOMAIN err = Requests /\ DOMAIN status = Requests
    /\ DOMAIN call = Requests /\ DOMAIN todo = Requests
    /\ handle \in [Requests -> [Domains -> Int]]
    /\ report \in [Requests -> Seq(Entries)]
    /\ was \in [Requests -> SUBSET AllFacts]

(* The calls that a function makes.                                        *)
CallsOf(o) == (DOMAIN Calls(o)) \ {"start"}
Looking == {"byName", "byUUID"}

(* The call a request has come to.                                         *)
CallInv(r) ==
    \/ call[r] = Return /\ todo[r] = {}
    \/ /\ call[r].call \in CallsOf(op[r])
       /\ op[r] \notin HostQueries => call[r].on = DomOf(r)
       /\ call[r].call = "device" => call[r] \in DeviceCalls(DomOf(r))
       /\ call[r].call # "device" => call[r] = Call(call[r].call, call[r].on)
       /\ op[r] \in Lists => (call[r].on = Nothing <=> call[r].call = "listDomains")
       /\ op[r] \in Lists => call[r].on \in Domains \cup {Nothing}
       /\ op[r] \in HostQueries \ Lists => call[r].on = Nothing

TurnsInv(r) ==
    /\ op[r] \in Lists => todo[r] \subseteq {Call("identity", d) : d \in Domains}
    /\ op[r] = "stats" => todo[r] \subseteq DeviceCalls(DomOf(r))
    /\ op[r] \notin Lists \cup {"stats"} => todo[r] = {}

(* Where a request is, and that the entry its calls complete is the last.  *)
CourseInv(r) ==
    /\ stage[r] \in Looking \cup {"new", "identity", "answered"}
    /\ stage[r] # "new" => op[r] \in Queries
    /\ (stage[r] # "new" /\ op[r] \notin HostQueries) => ident[r] \in Keys
    /\ stage[r] \in Looking => /\ op[r] \notin HostQueries
                               /\ call[r] = Call(Calls(op[r]).start, DomOf(r))
    /\ stage[r] \in Looking \cup {"new"} => report[r] = <<>> /\ todo[r] = {}
    /\ stage[r] # "answered" => err[r] = "none"
    /\ Answered200(r) => call[r] = Return /\ todo[r] = {}
    /\ stage[r] = "identity" =>
         /\ CallInv(r) /\ TurnsInv(r)
         /\ call[r].call = "listDomains" => report[r] = <<>> /\ todo[r] = {}
         /\ call[r].call \in {"running", "state", "active", "id", "info"} =>
              report[r] # <<>> /\ report[r][Len(report[r])].dom = call[r].on

Known(facts, d) == \E f \in facts : f.dom = d

(* A request that has looked its domains up knows what is true of them,    *)
(* and an ID in a handle was the domain's.                                 *)
Opened(r) == /\ stage[r] = "identity" /\ call[r].call # "listDomains"
             /\ op[r] \notin HostQueries \ Lists

KnownInv(r) ==
    /\ \A i \in DOMAIN report[r] : Known(was[r], report[r][i].dom)
    /\ Opened(r) =>
         /\ Facts \subseteq was[r]
         /\ call[r] # Return => Known(was[r], call[r].on)
         /\ \A x \in todo[r] : Known(was[r], x.on)
         /\ \A d \in Domains : Known(was[r], d) =>
              \E f \in was[r] : f.dom = d /\ f.id = NormalizeDomainID(handle[r][d])

(* Every part of an entry was true.                                        *)
Backed(x, facts) ==
    /\ x.state = Nothing \/ \E f \in facts : f.dom = x.dom /\ f.power = x.state
    /\ x.active # Nothing => \E f \in facts : f.dom = x.dom /\ x.active = (f.power # "shutoff")
    /\ x.code # Nothing => \E f \in facts : f.dom = x.dom /\ StateName(x.code) = f.power
    /\ x.id # -1 => \E f \in facts : f.dom = x.dom /\ f.id = x.id
    /\ x.port # Nothing => \E f \in facts : f.dom = x.dom /\ f.id = x.port

BackedInv(r) == \A i \in DOMAIN report[r] : Backed(report[r][i], was[r])

ReaderInv == /\ WorldInv /\ RequestTypes
             /\ \A r \in Requests : CourseInv(r) /\ KnownInv(r) /\ BackedInv(r)

-----------------------------------------------------------------------------
(* Entry i of the report agrees with f, as far as r has read it: the last  *)
(* entry lacks what the calls to come will add.                            *)
AgreesSoFar(r, i, f) ==
    LET x == report[r][i]
        n == IF i = Len(report[r]) THEN call[r].call ELSE "none"
    IN  /\ n # "state" => x.state = f.power
        /\ n \notin {"state", "active"} => x.active = (f.power # "shutoff")
        /\ n \in {"state", "active", "id"} => x.id = -1
        /\ n \notin {"state", "active", "id"} => x.id = f.id
        /\ n = "id" => f.power # "shutoff"
        /\ x.code = Nothing \/ StateName(x.code) = f.power

ExactInv(r) ==
    (/\ op[r] \in Lists \cup {"domain"} /\ Undisturbed(r)
     /\ stage[r] = "identity" \/ Answered200(r)) =>
        \A i \in DOMAIN report[r] : \A f \in was[r] :
            f.dom = report[r][i].dom => AgreesSoFar(r, i, f)

-----------------------------------------------------------------------------
Shown(r) == {report[r][i].dom : i \in DOMAIN report[r]}
Ahead(r) == {x.on : x \in todo[r]}
              \cup (IF call[r].call = "identity" THEN {call[r].on} ELSE {})

(* The domains of a list are those shown and those ahead.                  *)
ListInv(r) ==
    (op[r] \in Lists /\ (Opened(r) \/ Answered200(r))) =>
        /\ \A i, j \in DOMAIN report[r] : report[r][i].dom = report[r][j].dom => i = j
        /\ Shown(r) \cap Ahead(r) = {}
        /\ call[r] \notin todo[r]
        /\ \A d \in Shown(r) \cup Ahead(r) : \E f \in was[r] : f.dom = d /\ Matches(op[r], f)
        /\ \A d \in Domains :
             (Known(was[r], d) /\ \A f \in was[r] : f.dom = d => Matches(op[r], f))
                => d \in Shown(r) \cup Ahead(r)

ListRefusedInv(r) ==
    (op[r] \in Lists /\ stage[r] = "answered" /\ status[r] # "ok") =>
        \E d \in Domains : Known(was[r], d) /\ life[d] = "gone"

-----------------------------------------------------------------------------
WasRunning(r) == \E f \in was[r] : f.dom = DomOf(r) /\ f.power # "shutoff"

RefusalInv(r) ==
    /\ (Opened(r) /\ op[r] = "stats" /\ call[r].call \notin {"identity", "running"})
         => WasRunning(r)
    /\ stage[r] = "answered" /\ op[r] \in Queries \ HostQueries =>
        LET d == DomOf(r)
            stopped == \E f \in was[r] : f.dom = d /\ f.power = "shutoff"
        IN  /\ status[r] = "409" => op[r] = "stats" /\ stopped
            /\ op[r] = "stats" => life[d] = "gone" \/ WasRunning(r) \/ status[r] = "409"
            /\ status[r] = "422" => op[r] = "interfaces"
            /\ status[r] = "503" => \/ life[d] = "gone"
                                    \/ op[r] \in {"stats", "interfaces"} /\ stopped
                                    \/ op[r] = "stats" /\ present[d] # Devices
                                    \/ op[r] = "interfaces" /\ err[r] = "ARGUMENT"
            /\ err[r] = "UNSUPPORTED" => status[r] = "422"

-----------------------------------------------------------------------------
(***************************************************************************)
(* Lemmas about the operators of the model.                                *)
(***************************************************************************)

(* What a list and the description of one domain call.                     *)
LEMMA SummaryTable ==
    ASSUME NEW o \in Lists \cup {"domain"}
    PROVE  /\ CallsOf(o) \subseteq {"listDomains", "identity", "state", "active", "id", "info"}
           /\ "identity" \in CallsOf(o) /\ Calls(o)["identity"] = "state"
           /\ "state" \in CallsOf(o) /\ Calls(o)["state"] = "active"
           /\ "active" \in CallsOf(o) /\ Calls(o)["active"] \in {"next", "info"}
           /\ "id" \in CallsOf(o) /\ Calls(o)["id"] = Calls(o)["active"]
           /\ "info" \in CallsOf(o) <=> o = "domain"
           /\ "listDomains" \in CallsOf(o) <=> o \in Lists
           /\ o \in Lists => /\ Calls(o)["active"] = "next" /\ Calls(o)["listDomains"] = "next"
                             /\ Calls(o).start = "listDomains"
           /\ o = "domain" => /\ Calls(o)["active"] = "info" /\ Calls(o)["info"] = "next"
                              /\ Calls(o).start = "identity"
<1>1. CASE o = "domain" BY <1>1 DEF CallsOf, Calls, DomainCalls, Lists
<1>2. CASE o \in Lists BY <1>2 DEF CallsOf, Calls, ListDomainsCalls, Lists
<1> QED BY <1>1, <1>2

(* What the statistics of a domain call.                                   *)
LEMMA StatsTable ==
    /\ CallsOf("stats") = {"identity", "running", "state", "cpu", "memory", "targets", "device"}
    /\ Calls("stats").start = "identity" /\ Calls("stats")["identity"] = "running"
    /\ Calls("stats")["running"] = "state" /\ Calls("stats")["state"] = "cpu"
    /\ Calls("stats")["cpu"] = "memory" /\ Calls("stats")["memory"] = "targets"
    /\ Calls("stats")["targets"] = "next" /\ Calls("stats")["device"] = "next"
  BY DEF CallsOf, Calls, DomainStatsCalls

(* What the other queries of one domain call.                              *)
LEMMA OneDomainTable ==
    ASSUME NEW o \in {"interfaces", "autostart", "xml", "viewer"}
    PROVE  /\ CallsOf(o) \subseteq {"identity", "addresses", "autostart", "xml", "viewer"}
           /\ Calls(o).start \in CallsOf(o)
           /\ Calls(o).start \in {"identity", "xml", "viewer"}
           /\ "addresses" \in CallsOf(o) => o = "interfaces"
           /\ \A n \in CallsOf(o) : Calls(o)[n] \in {"addresses", "autostart", "next"}
           /\ \A n \in CallsOf(o) : Calls(o)[n] # "next" => Calls(o)[n] \in CallsOf(o)
<1>1. CASE o = "interfaces" BY <1>1 DEF CallsOf, Calls, DomainInterfacesCalls
<1>2. CASE o = "autostart" BY <1>2 DEF CallsOf, Calls, AutostartCalls
<1>3. CASE o = "xml" BY <1>3 DEF CallsOf, Calls, DomainXMLCalls
<1>4. CASE o = "viewer" BY <1>4 DEF CallsOf, Calls, ViewerCalls
<1> QED BY <1>1, <1>2, <1>3, <1>4

(* What the queries of the host call.                                      *)
LEMMA HostTable ==
    ASSUME NEW o \in HostQueries \ Lists
    PROVE  /\ CallsOf(o) \subseteq {"hostname", "nodeInfo", "hostCPU", "hostMemory", "isAlive"}
           /\ Calls(o).start \in CallsOf(o)
           /\ \A n \in CallsOf(o) : Calls(o)[n] \in {"nodeInfo", "hostMemory", "next"}
           /\ \A n \in CallsOf(o) : Calls(o)[n] # "next" => Calls(o)[n] \in CallsOf(o)
<1>1. CASE o = "host" BY <1>1 DEF CallsOf, Calls, HostCalls
<1>2. CASE o = "hostStats" BY <1>2 DEF CallsOf, Calls, HostStatsCalls
<1>3. CASE o = "ready" BY <1>3 DEF CallsOf, Calls, ReadyCalls
<1> QED BY <1>1, <1>2, <1>3 DEF HostQueries

(* The state that is named is the state the domain has.                    *)
LEMMA StateNamed ==
    ASSUME NEW p \in PowerStates
    PROVE  StateCode(p) \in Int /\ StateName(StateCode(p)) = p
<1>1. CASE p = "running"
  <2>1. StateCode(p) = 1 BY <1>1 DEF StateCode
  <2> QED BY <2>1, <1>1 DEF StateName
<1>2. CASE p = "paused"
  <2>1. StateCode(p) = 3 BY <1>2 DEF StateCode
  <2> QED BY <2>1, <1>2 DEF StateName
<1>3. CASE p = "shutoff"
  <2>1. StateCode(p) = 5 BY <1>3 DEF StateCode
  <2> QED BY <2>1, <1>3 DEF StateName
<1> QED BY <1>1, <1>2, <1>3 DEF PowerStates

(* What is true of a domain can have been true.                            *)
LEMMA FactsAreFacts ==
    ASSUME WorldInv
    PROVE  /\ \A d \in Domains : /\ Fact(d) \in AllFacts
                                 /\ Fact(d).dom = d /\ Fact(d).power = power[d]
                                 /\ Fact(d).id = NormalizeDomainID(HandleID(d))
                                 /\ Fact(d).id = Port(d)
                                 /\ Fact(d).power = "shutoff" <=> ~Active(d)
                                 /\ HandleID(d) \in Int /\ Port(d) \in Int
                                 /\ life[d] # "gone" => Fact(d) \in Facts
           /\ \A f \in Facts : f.dom \in Domains /\ life[f.dom] # "gone" /\ f = Fact(f.dom)
           /\ Facts \subseteq AllFacts
<1>1. ASSUME NEW d \in Domains
      PROVE  /\ Fact(d) \in AllFacts
             /\ Fact(d).dom = d /\ Fact(d).power = power[d]
             /\ Fact(d).id = NormalizeDomainID(HandleID(d))
             /\ Fact(d).id = Port(d)
             /\ Fact(d).power = "shutoff" <=> ~Active(d)
             /\ HandleID(d) \in Int /\ Port(d) \in Int
  <2>1. power[d] \in PowerStates /\ runID[d] \in 1 .. MaxStarts BY DEF WorldInv
  <2>2. runID[d] \in Int /\ runID[d] # -1 /\ runID[d] # MaxUint /\ MaxUint \in Int
    BY <2>1, QueriesAssumption
  <2>3. /\ Fact(d).dom = d /\ Fact(d).power = power[d]
        /\ Fact(d).id = IF Active(d) THEN runID[d] ELSE -1
    BY DEF Fact
  <2>4. Fact(d) \in AllFacts BY <2>1, <2>2 DEF Fact, AllFacts, Active
  <2> QED BY <2>2, <2>3, <2>4 DEF NormalizeDomainID, HandleID, Port, Active
<1>2. \A f \in Facts : \E d \in Domains : life[d] # "gone" /\ f = Fact(d) BY DEF Facts
<1>3. \A d \in Domains : life[d] # "gone" => Fact(d) \in Facts BY DEF Facts
<1> QED BY <1>1, <1>2, <1>3

(* A domain that is gone stays gone.                                       *)
LEMMA ChangesKeepWorld ==
    ASSUME WorldInv, NEW d \in Domains, DomainChanges(d)
    PROVE  WorldInv' /\ \A x \in Domains : life[x] = "gone" => life'[x] = "gone"
<1>1. VirshActs(d) \/ GuestPowersOff(d) BY DEF DomainChanges
<1>2. /\ life' \in [Domains -> {"persistent", "transient", "gone"}]
      /\ power' \in [Domains -> PowerStates]
      /\ \A x \in Domains : life'[x] = "gone" => power'[x] = "shutoff"
      /\ \A x \in Domains : life[x] = "gone" => life'[x] = "gone"
  <2>1. CASE GuestPowersOff(d)
    BY <2>1 DEF GuestPowersOff, PowerOff, WorldInv, PowerStates
  <2>2. CASE VirshActs(d)
    BY <2>2 DEF VirshActs, PowerOff, SetPower, Active, WorldInv, PowerStates
  <2> QED BY <1>1, <2>1, <2>2
<1>3. runID' \in [Domains -> 1 .. MaxStarts]
  BY QueriesAssumption DEF DomainChanges, WorldInv
<1>4. present' = present BY DEF DomainChanges
<1> QED BY <1>2, <1>3, <1>4 DEF WorldInv

(* Changing the last entry of a report changes no other.                   *)
LEMMA LastChanged ==
    ASSUME NEW rep \in Seq(Entries), rep # <<>>, NEW y \in Entries
    PROVE  LET new == [rep EXCEPT ![Len(rep)] = y]
           IN  /\ new \in Seq(Entries) /\ Len(new) = Len(rep)
               /\ Len(rep) \in DOMAIN rep /\ DOMAIN new = DOMAIN rep
               /\ new[Len(rep)] = y
               /\ \A i \in DOMAIN rep : i # Len(rep) => new[i] = rep[i]
  OBVIOUS

(* Appending an entry changes no other.                                    *)
LEMMA Appended ==
    ASSUME NEW rep \in Seq(Entries), NEW y \in Entries
    PROVE  LET new == Append(rep, y)
           IN  /\ new \in Seq(Entries) /\ Len(new) = Len(rep) + 1 /\ Len(rep) \in Nat
               /\ DOMAIN rep = 1 .. Len(rep) /\ DOMAIN new = 1 .. Len(rep) + 1
               /\ new[Len(rep) + 1] = y
               /\ \A i \in DOMAIN rep : new[i] = rep[i]
  OBVIOUS

(* The entry a summary starts with.                                        *)
LEMMA BlankEntry == ASSUME NEW d \in Domains PROVE Unread(d) \in Entries
<1>1. Nothing \in PowerStates \cup {Nothing} /\ Nothing \in Int \cup {Nothing} OBVIOUS
<1>2. -1 \in Int OBVIOUS
<1>3. FALSE \in BOOLEAN OBVIOUS
<1> HIDE DEF PowerStates
<1> QED BY <1>1, <1>2, <1>3, Zenon DEF Unread, Entries

(* What each call adds to a report.                                        *)
LEMMA Learnt ==
    ASSUME WorldInv, NEW rep \in Seq(Entries), NEW c, NEW ids \in [Domains -> Int],
           c.call \in {"identity", "viewer", "state", "active", "id", "info"} => c.on \in Domains,
           c.call \in {"state", "active", "id", "info"} => rep # <<>>
    PROVE  LET new == Learn(rep, c, ids)
               d == c.on
               n == Len(rep)
               last == rep[Len(rep)]
           IN  /\ new \in Seq(Entries)
               /\ c.call = "identity" => Unread(d) \in Entries /\ new = Append(rep, Unread(d))
               /\ c.call = "viewer" =>
                    /\ [Unread(d) EXCEPT !.port = ViewerPort(Port(d))] \in Entries
                    /\ new = Append(rep, [Unread(d) EXCEPT !.port = ViewerPort(Port(d))])
               /\ c.call = "state" =>
                    /\ last \in Entries /\ [last EXCEPT !.state = power[d]] \in Entries
                    /\ new = [rep EXCEPT ![n] = [last EXCEPT !.state = power[d]]]
               /\ c.call = "active" =>
                    /\ last \in Entries /\ [last EXCEPT !.active = Active(d)] \in Entries
                    /\ new = [rep EXCEPT ![n] = [last EXCEPT !.active = Active(d)]]
               /\ c.call = "id" =>
                    /\ last \in Entries
                    /\ [last EXCEPT !.id = NormalizeDomainID(ids[d])] \in Entries
                    /\ new = [rep EXCEPT ![n] = [last EXCEPT !.id = NormalizeDomainID(ids[d])]]
               /\ c.call = "info" =>
                    /\ last \in Entries /\ [last EXCEPT !.code = StateCode(power[d])] \in Entries
                    /\ new = [rep EXCEPT ![n] = [last EXCEPT !.code = StateCode(power[d])]]
               /\ c.call \notin {"identity", "viewer", "state", "active", "id", "info"} => new = rep
<1> DEFINE d == c.on
           n == Len(rep)
           last == rep[Len(rep)]
<1>1. c.call \in {"state", "active", "id", "info"} => last \in Entries /\ n \in DOMAIN rep
  OBVIOUS
<1>2. CASE c.call = "identity"
  <2>1. Unread(d) \in Entries BY <1>2, BlankEntry
  <2>2. Learn(rep, c, ids) = Append(rep, Unread(d)) BY <1>2 DEF Learn
  <2> QED BY <1>2, <2>1, <2>2, Appended
<1>3. CASE c.call = "viewer"
  <2>1. ViewerPort(Port(d)) \in Int \cup {Nothing}
    BY <1>3, FactsAreFacts DEF ViewerPort
  <2>2. [Unread(d) EXCEPT !.port = ViewerPort(Port(d))] \in Entries
    <3>1. Unread(d) \in Entries BY <1>3, BlankEntry
    <3>2. \A x \in Entries : \A p \in Int \cup {Nothing} : [x EXCEPT !.port = p] \in Entries
      BY DEF Entries
    <3> HIDE DEF d
    <3> QED BY <2>1, <3>1, <3>2
  <2>3. Learn(rep, c, ids) = Append(rep, [Unread(d) EXCEPT !.port = ViewerPort(Port(d))])
    BY <1>3 DEF Learn
  <2> QED BY <1>3, <2>2, <2>3, Appended
<1>4. CASE c.call = "state"
  <2>1. power[d] \in PowerStates BY <1>4 DEF WorldInv
  <2>2. [last EXCEPT !.state = power[d]] \in Entries BY <1>1, <1>4, <2>1 DEF Entries
  <2>3. Learn(rep, c, ids) = [rep EXCEPT ![n].state = power[d]]
    BY <1>4, <2>1, StateNamed DEF Learn
  <2>4. @ = [rep EXCEPT ![n] = [last EXCEPT !.state = power[d]]] OBVIOUS
  <2> QED BY <1>1, <1>4, <2>2, <2>3, <2>4, LastChanged
<1>5. CASE c.call = "active"
  <2>1. Active(d) \in BOOLEAN BY DEF Active
  <2>2. [last EXCEPT !.active = Active(d)] \in Entries BY <1>1, <1>5, <2>1 DEF Entries
  <2>3. Learn(rep, c, ids) = [rep EXCEPT ![n].active = Active(d)] BY <1>5 DEF Learn
  <2>4. @ = [rep EXCEPT ![n] = [last EXCEPT !.active = Active(d)]] OBVIOUS
  <2> QED BY <1>1, <1>5, <2>2, <2>3, <2>4, LastChanged
<1>6. CASE c.call = "id"
  <2>1. NormalizeDomainID(ids[d]) \in Int BY <1>6 DEF NormalizeDomainID
  <2>2. [last EXCEPT !.id = NormalizeDomainID(ids[d])] \in Entries
    BY <1>1, <1>6, <2>1 DEF Entries
  <2>3. Learn(rep, c, ids) = [rep EXCEPT ![n].id = NormalizeDomainID(ids[d])]
    BY <1>6 DEF Learn
  <2>4. @ = [rep EXCEPT ![n] = [last EXCEPT !.id = NormalizeDomainID(ids[d])]] OBVIOUS
  <2> QED BY <1>1, <1>6, <2>2, <2>3, <2>4, LastChanged
<1>7. CASE c.call = "info"
  <2>1. StateCode(power[d]) \in Int BY <1>7, StateNamed DEF WorldInv
  <2>2. [last EXCEPT !.code = StateCode(power[d])] \in Entries
    BY <1>1, <1>7, <2>1 DEF Entries
  <2>3. Learn(rep, c, ids) = [rep EXCEPT ![n].code = StateCode(power[d])]
    BY <1>7 DEF Learn
  <2>4. @ = [rep EXCEPT ![n] = [last EXCEPT !.code = StateCode(power[d])]] OBVIOUS
  <2> QED BY <1>1, <1>7, <2>2, <2>3, <2>4, LastChanged
<1>8. CASE c.call \notin {"identity", "viewer", "state", "active", "id", "info"}
  BY <1>8 DEF Learn
<1> QED BY <1>2, <1>3, <1>4, <1>5, <1>6, <1>7, <1>8
-----------------------------------------------------------------------------
(***************************************************************************)
(* ReaderInv is kept by what other requests and libvirtd do.               *)
(***************************************************************************)

ReadsRight(r) == CourseInv(r) /\ KnownInv(r) /\ BackedInv(r)

(* A step leaves a request where it is.                                    *)
Same(r) ==
    /\ stage'[r] = stage[r] /\ op'[r] = op[r] /\ ident'[r] = ident[r] /\ err'[r] = err[r]
    /\ status'[r] = status[r] /\ call'[r] = call[r] /\ todo'[r] = todo[r]
    /\ handle'[r] = handle[r] /\ report'[r] = report[r]

(* What is true of the domains changes only with them.                     *)
LEMMA FactsUnchanged == ASSUME UNCHANGED <<life, power, runID>> PROVE Facts' = Facts
  BY DEF Facts, Fact, Active

(* A step that leaves a request alone leaves it on its course.             *)
LEMMA CourseUnchanged ==
    ASSUME NEW r \in Requests, CourseInv(r), Same(r) PROVE CourseInv(r)'
<1>1. DomOf(r)' = DomOf(r) BY DEF Same, DomOf
<1>2. CallInv(r) => CallInv(r)' BY <1>1 DEF Same, CallInv
<1>3. TurnsInv(r) => TurnsInv(r)' BY <1>1 DEF Same, TurnsInv
<1> QED BY <1>1, <1>2, <1>3 DEF Same, CourseInv, Answered200

(* Another request's step changes nothing for r.                           *)
LEMMA OthersStep ==
    ASSUME NEW r \in Requests, ReadsRight(r), Same(r), was'[r] = was[r],
           UNCHANGED <<life, power, runID>>
    PROVE  ReadsRight(r)'
<1>1. CourseInv(r)' BY CourseUnchanged DEF ReadsRight
<1>2. KnownInv(r)'
  BY FactsUnchanged DEF ReadsRight, Same, KnownInv, Known, Opened
<1>3. BackedInv(r)' BY DEF ReadsRight, Same, BackedInv
<1> QED BY <1>1, <1>2, <1>3 DEF ReadsRight

(* What was true was true, however much more becomes known.                *)
LEMMA BackedStays ==
    ASSUME NEW x, NEW old, NEW new, old \subseteq new, Backed(x, old) PROVE Backed(x, new)
  BY DEF Backed

(* A change of a domain leaves every request on its course.                *)
LEMMA ChangeSeen ==
    ASSUME WorldInv, NEW r \in Requests, ReadsRight(r), Same(r), WorldInv',
           was'[r] = IF stage[r] = "identity" THEN was[r] \cup Facts' ELSE was[r],
           \A x \in Domains : life[x] = "gone" => life'[x] = "gone"
    PROVE  ReadsRight(r)'
<1>1. CourseInv(r)' BY CourseUnchanged DEF ReadsRight
<1>2. was[r] \subseteq was'[r] OBVIOUS
<1>3. BackedInv(r)' BY <1>2, BackedStays DEF ReadsRight, Same, BackedInv
<1>4. \A d : Known(was[r], d) => Known(was'[r], d) BY <1>2 DEF Known
<1>5. \A i \in DOMAIN report'[r] : Known(was'[r], report'[r][i].dom)
  BY <1>4 DEF ReadsRight, KnownInv, Same
<1>6. ASSUME Opened(r)'
      PROVE  /\ Facts' \subseteq was'[r]
             /\ call'[r] # Return => Known(was'[r], call'[r].on)
             /\ \A x \in todo'[r] : Known(was'[r], x.on)
             /\ \A d \in Domains : Known(was'[r], d) =>
                  \E f \in was'[r] : f.dom = d /\ f.id = NormalizeDomainID(handle'[r][d])
  <2>1. Opened(r) /\ stage[r] = "identity" BY <1>6 DEF Opened, Same
  <2>2. Facts \subseteq was[r] BY <2>1 DEF ReadsRight, KnownInv
  <2>3. ASSUME NEW d \in Domains, Known(was'[r], d) PROVE Known(was[r], d)
    <3>1. CASE \E f \in was[r] : f.dom = d BY <3>1 DEF Known
    <3>2. CASE \E f \in Facts' : f.dom = d
      <4>1. life'[d] # "gone" BY <3>2, FactsAreFacts DEF Facts, Fact
      <4>2. life[d] # "gone" BY <4>1
      <4>3. Fact(d) \in was[r] /\ Fact(d).dom = d BY <4>2, <2>2, FactsAreFacts
      <4> QED BY <4>3 DEF Known
    <3> QED BY <2>1, <2>3, <3>1, <3>2 DEF Known
  <2>4. \A d \in Domains : Known(was[r], d) =>
          \E f \in was[r] : f.dom = d /\ f.id = NormalizeDomainID(handle[r][d])
    BY <2>1 DEF ReadsRight, KnownInv
  <2>5. \A d \in Domains : Known(was'[r], d) =>
          \E f \in was'[r] : f.dom = d /\ f.id = NormalizeDomainID(handle'[r][d])
    BY <1>2, <2>3, <2>4 DEF Same
  <2>6. Facts' \subseteq was'[r] BY <2>1
  <2>7. /\ call[r] # Return => Known(was[r], call[r].on)
        /\ \A x \in todo[r] : Known(was[r], x.on)
    BY <2>1 DEF ReadsRight, KnownInv
  <2> QED BY <1>4, <2>5, <2>6, <2>7 DEF Same
<1> QED BY <1>1, <1>3, <1>5, <1>6 DEF ReadsRight, KnownInv
-----------------------------------------------------------------------------
(***************************************************************************)
(* What a step of a request does to it.                                    *)
(***************************************************************************)

(* A step of r leaves the other requests where they are.                   *)
Alone(r) == \A q \in Requests \ {r} : Same(q) /\ was'[q] = was[q]

(* The start of a query.                                                   *)
LEMMA StartCall ==
    ASSUME NEW o \in Queries
    PROVE  /\ Calls(o).start \in CallsOf(o)
           /\ Calls(o).start \notin {"device", "running", "state", "active", "id", "info"}
           /\ Calls(o).start = "listDomains" <=> o \in Lists
           /\ Calls(o).start = "identity" => o \notin HostQueries
<1>1. CASE o \in Lists \cup {"domain"}
  BY <1>1, SummaryTable DEF Lists, HostQueries
<1>2. CASE o = "stats" BY <1>2, StatsTable DEF Lists, HostQueries
<1>3. CASE o \in {"interfaces", "autostart", "xml", "viewer"}
  BY <1>3, OneDomainTable DEF Lists, HostQueries
<1>4. CASE o \in HostQueries \ Lists BY <1>4, HostTable DEF Lists, HostQueries
<1> QED BY <1>1, <1>2, <1>3, <1>4 DEF Queries, HostQueries, Lists

(* A name or a UUID is that of a domain.                                   *)
LEMMA DomainOfKey == ASSUME NEW i \in Keys PROVE Dom(i) \in Domains
  BY ActionsAssumption DEF Dom

(* A query of a domain arrives.                                            *)
LEMMA ArriveQueryKeeps ==
    ASSUME RequestTypes, NEW r \in Requests, ReadsRight(r),
           NEW o \in Operations \ HostQueries, NEW i \in Keys, ArriveQuery(r, o, i)
    PROVE  RequestTypes' /\ Alone(r) /\ ReadsRight(r)' /\ UNCHANGED <<libvirtdVars, was>>
<1>1. /\ stage[r] = "new" /\ stage' = [stage EXCEPT ![r] = "byName"]
      /\ op' = [op EXCEPT ![r] = o] /\ ident' = [ident EXCEPT ![r] = i]
      /\ call' = [call EXCEPT ![r] = Call(Calls(o).start, Dom(i))]
      /\ UNCHANGED <<err, status, todo, handle, report, was>>
      /\ UNCHANGED libvirtdVars
  BY DEF ArriveQuery, Arrive, Goes, libvirtdVars
<1>2. RequestTypes' BY <1>1 DEF RequestTypes
<1>3. Alone(r) BY <1>1 DEF RequestTypes, Alone, Same
<1>4. /\ stage'[r] = "byName" /\ op'[r] = o /\ ident'[r] = i
      /\ call'[r] = Call(Calls(o).start, Dom(i))
  BY <1>1 DEF RequestTypes
<1>5. report'[r] = <<>> /\ todo'[r] = {} /\ err'[r] = "none"
  BY <1>1 DEF ReadsRight, CourseInv
<1>6. CourseInv(r)'
  BY <1>4, <1>5, QueriesAssumption DEF CourseInv, Looking, DomOf, Answered200
<1>7. KnownInv(r)' /\ BackedInv(r)'
  BY <1>4, <1>5 DEF KnownInv, BackedInv, Opened
<1> QED BY <1>1, <1>2, <1>3, <1>6, <1>7 DEF ReadsRight

(* A query of the host, or a list, arrives.                                *)
LEMMA ArriveHostQueryKeeps ==
    ASSUME RequestTypes, NEW r \in Requests, ReadsRight(r),
           NEW o \in Operations \cap HostQueries, ArriveHostQuery(r, o)
    PROVE  RequestTypes' /\ Alone(r) /\ ReadsRight(r)' /\ UNCHANGED <<libvirtdVars, was>>
<1>1. /\ stage[r] = "new" /\ stage' = [stage EXCEPT ![r] = "identity"]
      /\ op' = [op EXCEPT ![r] = o]
      /\ call' = [call EXCEPT ![r] = Call(Calls(o).start, Nothing)]
      /\ UNCHANGED <<ident, err, status, todo, handle, report, was>>
      /\ UNCHANGED libvirtdVars
  BY DEF ArriveHostQuery, Goes
<1>2. RequestTypes' BY <1>1 DEF RequestTypes
<1>3. Alone(r) BY <1>1 DEF RequestTypes, Alone, Same
<1>4. /\ stage'[r] = "identity" /\ op'[r] = o
      /\ call'[r] = Call(Calls(o).start, Nothing)
  BY <1>1 DEF RequestTypes
<1>5. report'[r] = <<>> /\ todo'[r] = {} /\ err'[r] = "none"
  BY <1>1 DEF ReadsRight, CourseInv
<1>6. /\ call'[r].call = Calls(o).start /\ call'[r].on = Nothing
      /\ call'[r] = Call(call'[r].call, call'[r].on)
  BY <1>4 DEF Call
<1>7. o \in Queries /\ o \in HostQueries BY DEF Queries
<1>8. CallInv(r)' BY <1>4, <1>6, <1>7, StartCall DEF CallInv
<1>9. TurnsInv(r)' BY <1>5 DEF TurnsInv
<1>10. CourseInv(r)'
  BY <1>4, <1>5, <1>6, <1>7, <1>8, <1>9, StartCall DEF CourseInv, Looking, Answered200
<1>11. ~Opened(r)' BY <1>4, <1>6, <1>7, StartCall DEF Opened
<1>12. KnownInv(r)' /\ BackedInv(r)'
  BY <1>5, <1>11 DEF KnownInv, BackedInv
<1> QED BY <1>1, <1>2, <1>3, <1>10, <1>12 DEF ReadsRight

(* lookupDomain succeeds only with a domain that exists, and without       *)
(* faults it fails only with one that does not.                            *)
LEMMA LookupEffect ==
    ASSUME RequestTypes, NEW r \in Requests, ReadsRight(r), LookupQuery(r)
    PROVE  /\ stage[r] \in Looking /\ stage'[r] \in {"byUUID", "identity", "answered"}
           /\ DOMAIN stage' = Requests /\ DOMAIN err' = Requests /\ DOMAIN status' = Requests
           /\ \A q \in Requests \ {r} :
                stage'[q] = stage[q] /\ err'[q] = err[q] /\ status'[q] = status[q]
           /\ handle' = [handle EXCEPT ![r] = [d \in Domains |-> HandleID(d)]]
           /\ was' = [was EXCEPT ![r] = Facts]
           /\ UNCHANGED <<op, ident, call, todo, report>> /\ UNCHANGED libvirtdVars
           /\ stage'[r] = "identity" => life[DomOf(r)] # "gone"
           /\ stage'[r] # "answered" => err'[r] = err[r]
           /\ stage'[r] = "answered" => status'[r] \in {"404", "503"}
           /\ (stage'[r] = "answered" /\ "faults" \notin Environment) =>
                life[DomOf(r)] = "gone" /\ status'[r] = "404" /\ err'[r] = "NO_DOMAIN"
<1>1. /\ handle' = [handle EXCEPT ![r] = [d \in Domains |-> HandleID(d)]]
      /\ was' = [was EXCEPT ![r] = Facts]
      /\ UNCHANGED <<call, todo, report, runID, present>>
  BY DEF LookupQuery, Opens
<1>2. /\ stage[r] # "new" /\ op[r] \notin HostQueries => ident[r] \in Names \cup Domains
      /\ stage[r] \in Looking => op[r] \notin HostQueries
  BY ActionsAssumption DEF ReadsRight, CourseInv
<1>3. CASE LookupByName(r)
  <2>1. stage[r] = "byName" /\ ident[r] \in Names \cup Domains
    BY <1>2, <1>3 DEF LookupByName, Looking
  <2>2. UNCHANGED <<op, ident, life, power, autostart>>
    BY <1>3 DEF LookupByName, domainVars
  <2>3. PICK e \in IF ident[r] \in Names THEN QueryErrors(DomOf(r))
                   ELSE {"NO_DOMAIN"} \cup (QueryErrors(DomOf(r)) \cap {"OTHER"}) :
         \/ e = "none" /\ Goes(r, "byName", "identity") /\ UNCHANGED <<err, status>>
         \/ /\ e = "NO_DOMAIN" /\ ident[r] \in Domains
            /\ Goes(r, "byName", "byUUID")
            /\ UNCHANGED <<err, status>>
         \/ /\ e = "NO_DOMAIN" /\ ident[r] \notin Domains
            /\ Goes(r, "byName", "answered") /\ Answer(r, "404") /\ Fails(r, e)
         \/ /\ e = "OTHER"
            /\ Goes(r, "byName", "answered") /\ Answer(r, "503") /\ Fails(r, e)
    BY <1>3 DEF LookupByName
  <2>4. /\ e = "none" => life[DomOf(r)] # "gone"
        /\ (e = "NO_DOMAIN" /\ ident[r] \notin Domains) => life[DomOf(r)] = "gone"
        /\ e = "OTHER" => "faults" \in Environment
    BY <2>1 DEF QueryErrors
  <2> QED BY <1>1, <2>1, <2>2, <2>3, <2>4
          DEF RequestTypes, Goes, Answer, Fails, Looking, libvirtdVars, domainVars
<1>4. CASE LookupByUUID(r)
  <2>1. stage[r] = "byUUID" BY <1>4 DEF LookupByUUID
  <2>2. UNCHANGED <<op, ident, life, power, autostart>>
    BY <1>4 DEF LookupByUUID, domainVars
  <2>3. PICK e \in QueryErrors(DomOf(r)) :
         \/ e = "none" /\ Goes(r, "byUUID", "identity") /\ UNCHANGED <<err, status>>
         \/ /\ e # "none"
            /\ Goes(r, "byUUID", "answered") /\ Fails(r, e)
            /\ Answer(r, IF e = "NO_DOMAIN" THEN "404" ELSE "503")
    BY <1>4 DEF LookupByUUID
  <2>4. /\ e = "none" => life[DomOf(r)] # "gone"
        /\ e = "NO_DOMAIN" => life[DomOf(r)] = "gone"
        /\ e \notin {"none", "NO_DOMAIN"} => "faults" \in Environment
    BY DEF QueryErrors
  <2> QED BY <1>1, <2>1, <2>2, <2>3, <2>4
          DEF RequestTypes, Goes, Answer, Fails, Looking, libvirtdVars, domainVars
<1> QED BY <1>3, <1>4 DEF LookupQuery

(* lookupDomain, and what its handle knows.                                *)
LEMMA LookupKeeps ==
    ASSUME WorldInv, RequestTypes, NEW r \in Requests, ReadsRight(r), LookupQuery(r)
    PROVE  RequestTypes' /\ Alone(r) /\ ReadsRight(r)' /\ UNCHANGED libvirtdVars
<1>1. /\ stage[r] \in Looking /\ stage'[r] \in {"byUUID", "identity", "answered"}
      /\ DOMAIN stage' = Requests /\ DOMAIN err' = Requests /\ DOMAIN status' = Requests
      /\ \A q \in Requests \ {r} :
           stage'[q] = stage[q] /\ err'[q] = err[q] /\ status'[q] = status[q]
      /\ handle' = [handle EXCEPT ![r] = [d \in Domains |-> HandleID(d)]]
      /\ was' = [was EXCEPT ![r] = Facts]
      /\ UNCHANGED <<op, ident, call, todo, report>> /\ UNCHANGED libvirtdVars
      /\ stage'[r] = "identity" => life[DomOf(r)] # "gone"
      /\ stage'[r] # "answered" => err'[r] = err[r]
      /\ stage'[r] = "answered" => status'[r] \in {"404", "503"}
  BY LookupEffect
<1>2. RequestTypes'
  <2>1. [d \in Domains |-> HandleID(d)] \in [Domains -> Int] BY FactsAreFacts
  <2>2. Facts \in SUBSET AllFacts BY FactsAreFacts
  <2> QED BY <1>1, <2>1, <2>2 DEF RequestTypes
<1>3. Alone(r) BY <1>1 DEF RequestTypes, Alone, Same
<1>4. /\ op[r] \in Queries \ HostQueries /\ ident[r] \in Keys /\ report[r] = <<>>
      /\ todo[r] = {} /\ err[r] = "none" /\ call[r] = Call(Calls(op[r]).start, DomOf(r))
  BY <1>1 DEF ReadsRight, CourseInv, Looking
<1>5. DomOf(r) \in Domains /\ DomOf(r) # Nothing /\ DomOf(r)' = DomOf(r)
  BY <1>1, <1>4, DomainOfKey, QueriesAssumption DEF DomOf
<1>6. /\ call[r].call = Calls(op[r]).start /\ call[r].on = DomOf(r)
      /\ call[r] = Call(call[r].call, call[r].on)
  BY <1>4 DEF Call
<1>7. call[r].call \in CallsOf(op[r]) /\ op[r] \notin Lists
  BY <1>4, <1>6, StartCall DEF HostQueries
<1>8. call[r].call \notin {"device", "running", "state", "active", "id", "info", "listDomains"}
  BY <1>4, <1>6, <1>7, StartCall
<1>9. CallInv(r)'
  <2>1. op'[r] = op[r] /\ call'[r] = call[r] BY <1>1
  <2> QED BY <2>1, <1>4, <1>5, <1>6, <1>7, <1>8 DEF CallInv
<1>10. TurnsInv(r)' BY <1>1, <1>4 DEF TurnsInv
<1>11. CourseInv(r)'
  BY <1>1, <1>4, <1>5, <1>8, <1>9, <1>10 DEF CourseInv, Looking, Answered200
<1>12. was'[r] = Facts /\ handle'[r] = [d \in Domains |-> HandleID(d)]
  BY <1>1 DEF RequestTypes
<1>13. Facts' = Facts BY <1>1, FactsUnchanged DEF libvirtdVars, domainVars
<1>14. ASSUME Opened(r)'
       PROVE  /\ Facts' \subseteq was'[r]
              /\ call'[r] # Return => Known(was'[r], call'[r].on)
              /\ \A x \in todo'[r] : Known(was'[r], x.on)
              /\ \A d \in Domains : Known(was'[r], d) =>
                   \E f \in was'[r] : f.dom = d /\ f.id = NormalizeDomainID(handle'[r][d])
  <2>1. stage'[r] = "identity" BY <1>14 DEF Opened
  <2>2. Fact(DomOf(r)) \in Facts /\ Fact(DomOf(r)).dom = DomOf(r)
    BY <1>1, <1>5, <2>1, FactsAreFacts
  <2>3. Known(was'[r], call'[r].on) BY <1>1, <1>6, <1>12, <2>2 DEF Known
  <2>4. ASSUME NEW d \in Domains, NEW f \in Facts, f.dom = d
        PROVE  f.id = NormalizeDomainID(handle'[r][d])
    BY <1>12, <2>4, FactsAreFacts
  <2> QED BY <1>1, <1>4, <1>12, <1>13, <2>3, <2>4 DEF Known
<1>15. KnownInv(r)' BY <1>1, <1>4, <1>14 DEF KnownInv
<1>16. BackedInv(r)' BY <1>1, <1>4 DEF BackedInv
<1> QED BY <1>1, <1>2, <1>3, <1>11, <1>15, <1>16 DEF ReadsRight

-----------------------------------------------------------------------------
(***************************************************************************)
(* A call that succeeds.                                                   *)
(***************************************************************************)

Succeeds(r) ==
    /\ stage[r] = "identity" /\ call[r] # Return /\ "none" \in Answers(call[r])
    /\ ~Inactive(call[r]) /\ CallSucceeds(r, call[r])
    /\ UNCHANGED <<lockVars, op, ident, saw, result, libvirtdVars>>

LastCalls == {"state", "active", "id", "info"}

(* Which call can follow which.                                            *)
LEMMA FollowTable ==
    ASSUME NEW o \in Queries, NEW c, c.call \in CallsOf(o)
    PROVE  LET n == c.call
               next == Following(o, c)
           IN  /\ next = "next" \/ next \in CallsOf(o)
               /\ next \notin {"device", "identity", "listDomains", "viewer", "return"}
               /\ next = "state" => n \in {"identity", "running"}
               /\ next = "running" => n = "identity"
               /\ next = "active" => n = "state"
               /\ next = "id" => n = "active" /\ Active(c.on)
               /\ next = "info" => n \in {"active", "id"}
               /\ n \in {"listDomains", "targets", "device"} => next = "next"
               /\ n = "listDomains" => o \in Lists
               /\ n \in {"running", "targets", "device", "cpu", "memory"} => o = "stats"
               /\ n = "addresses" => o = "interfaces"
               /\ o \in HostQueries \ Lists =>
                    n \in {"hostname", "nodeInfo", "hostCPU", "hostMemory", "isAlive"}
               /\ n \notin {"return", "next", "none"}
<1>1. CASE o \in Lists \cup {"domain"}
  BY <1>1, SummaryTable DEF Following, AsksID, Lists, HostQueries
<1>2. CASE o = "stats" BY <1>2, StatsTable DEF Following, AsksID, Lists, HostQueries
<1>3. CASE o \in {"interfaces", "autostart", "xml", "viewer"}
  BY <1>3, OneDomainTable DEF Following, AsksID, Lists, HostQueries
<1>4. CASE o \in HostQueries \ Lists
  BY <1>4, HostTable DEF Following, AsksID, Lists, HostQueries
<1> QED BY <1>1, <1>2, <1>3, <1>4 DEF Queries, HostQueries, Lists

(* A request that is answered keeps what it has read.                      *)
LEMMA EndKeeps ==
    ASSUME RequestTypes, NEW r \in Requests, ReadsRight(r),
           Goes(r, "identity", "answered"), NEW code, Answer(r, code),
           code = "ok" => call[r] = Return,
           DOMAIN err' = Requests, \A q \in Requests \ {r} : err'[q] = err[q],
           UNCHANGED <<op, ident, libvirtdVars, readVars>>
    PROVE  RequestTypes' /\ Alone(r) /\ ReadsRight(r)'
<1>1. /\ stage[r] = "identity" /\ stage' = [stage EXCEPT ![r] = "answered"]
      /\ status' = [status EXCEPT ![r] = code]
      /\ UNCHANGED <<op, ident, call, todo, handle, report, was>>
  BY DEF Goes, Answer, readVars
<1>2. RequestTypes' BY <1>1 DEF RequestTypes
<1>3. Alone(r) BY <1>1 DEF RequestTypes, Alone, Same
<1>4. stage'[r] = "answered" /\ status'[r] = code BY <1>1 DEF RequestTypes
<1>5. CourseInv(r)'
  <2>1. CourseInv(r) /\ CallInv(r) /\ op[r] \in Queries BY <1>1 DEF ReadsRight, CourseInv
  <2>2. code = "ok" => todo[r] = {}
    <3>1. call[r] = Return => call[r].call = "return" BY DEF Return, Call
    <3> QED BY <2>1, <3>1, FollowTable DEF CallInv
  <2> QED BY <1>1, <1>4, <2>1, <2>2 DEF CourseInv, Looking, Answered200
<1>6. KnownInv(r)' BY <1>1, <1>4 DEF ReadsRight, KnownInv, Opened
<1>7. BackedInv(r)' BY <1>1 DEF ReadsRight, BackedInv
<1> QED BY <1>2, <1>3, <1>5, <1>6, <1>7 DEF ReadsRight

(* The turns of a loop.                                                    *)
LEMMA TurnsTyped ==
    ASSUME WorldInv, NEW r \in Requests, CourseInv(r), stage[r] = "identity", call[r] # Return
    PROVE  LET turns == Turns(r, call[r])
           IN  /\ op[r] \in Lists => turns \subseteq {Call("identity", d) : d \in Domains}
               /\ op[r] = "stats" => turns \subseteq DeviceCalls(DomOf(r))
               /\ op[r] \notin Lists \cup {"stats"} => turns = {}
               /\ call[r].call \notin {"listDomains", "targets"} => turns = todo[r]
               /\ call[r].call = "listDomains" =>
                    turns = {Call("identity", d) : d \in Filtered(op[r])}
<1>1. /\ op[r] \in Queries /\ TurnsInv(r) /\ call[r].call \in CallsOf(op[r])
      /\ op[r] \notin HostQueries => call[r].on = DomOf(r) /\ ident[r] \in Keys
  BY DEF CourseInv, CallInv
<1>2. CASE call[r].call = "listDomains"
  <2>1. Turns(r, call[r]) = {Call("identity", d) : d \in Filtered(op[r])}
    BY <1>2 DEF Turns
  <2>2. op[r] \in Lists BY <1>1, <1>2, FollowTable
  <2> QED BY <1>2, <2>1, <2>2 DEF Filtered, Lists
<1>3. CASE call[r].call = "targets"
  <2>1. Turns(r, call[r]) = {DeviceCall(call[r].on, x) : x \in TargetsFromXML(present[call[r].on])}
    BY <1>3 DEF Turns
  <2>2. op[r] = "stats" BY <1>1, <1>3, FollowTable
  <2>3. call[r].on = DomOf(r) /\ DomOf(r) \in Domains
    BY <1>1, <2>2, DomainOfKey DEF HostQueries, Lists, DomOf
  <2>4. TargetsFromXML(present[DomOf(r)]) \subseteq TargetsFromXML(Devices)
    BY <2>3 DEF WorldInv, TargetsFromXML
  <2> QED BY <1>3, <2>1, <2>2, <2>3, <2>4 DEF DeviceCalls, Lists
<1>4. CASE call[r].call \notin {"listDomains", "targets"}
  <2>1. Turns(r, call[r]) = todo[r] BY <1>4 DEF Turns
  <2> QED BY <1>1, <1>4, <2>1 DEF TurnsInv
<1> QED BY <1>2, <1>3, <1>4

(* What a call that succeeds does.                                         *)
LEMMA SuccessEffect ==
    ASSUME WorldInv, RequestTypes, NEW r \in Requests, ReadsRight(r), Succeeds(r)
    PROVE  LET c == call[r]
               next == Following(op[r], c)
               turns == Turns(r, c)
           IN  /\ op[r] \in Queries /\ c.call \in CallsOf(op[r])
               /\ UNCHANGED <<stage, op, ident, err, status, life, power, runID, present>>
               /\ DOMAIN call' = Requests /\ DOMAIN todo' = Requests
               /\ report' = [report EXCEPT ![r] = Learn(report[r], c, handle[r])]
               /\ \A q \in Requests \ {r} : call'[q] = call[q] /\ todo'[q] = todo[q]
               /\ c.call = "listDomains" =>
                    /\ handle' = [handle EXCEPT ![r] = [d \in Domains |-> HandleID(d)]]
                    /\ was' = [was EXCEPT ![r] = Facts]
               /\ c.call # "listDomains" => UNCHANGED <<handle, was>>
               /\ \/ next # "next" /\ call'[r] = Call(next, c.on) /\ todo'[r] = todo[r]
                  \/ next = "next" /\ turns = {} /\ call'[r] = Return /\ todo'[r] = {}
                  \/ next = "next" /\ call'[r] \in turns /\ todo'[r] = turns \ {call'[r]}
<1> DEFINE c == call[r]
           next == Following(op[r], c)
           turns == Turns(r, c)
<1>1. CourseInv(r) /\ stage[r] = "identity" /\ c # Return BY DEF ReadsRight, Succeeds
<1>2. op[r] \in Queries /\ c.call \in CallsOf(op[r]) BY <1>1 DEF CourseInv, CallInv
<1>3. next # "next" => turns = todo[r] BY <1>1, <1>2, FollowTable, TurnsTyped
<1>4. CallSucceeds(r, c) BY DEF Succeeds
<1>5. /\ report' = [report EXCEPT ![r] = Learn(report[r], c, handle[r])]
      /\ c.call = "listDomains" => Opens(r)
      /\ c.call # "listDomains" => UNCHANGED <<handle, was>>
      /\ UNCHANGED <<stage, err, status>>
  BY <1>4 DEF CallSucceeds
<1>6. UNCHANGED <<op, ident, life, power, runID, present>>
  BY DEF Succeeds, libvirtdVars, domainVars
<1>7. GoesOn(r, c) BY <1>4 DEF CallSucceeds
<1> HIDE DEF c, next, turns
<1>8. \/ /\ next # "next"
         /\ call' = [call EXCEPT ![r] = Call(next, c.on)]
         /\ todo' = [todo EXCEPT ![r] = turns]
      \/ /\ next = "next" /\ turns = {}
         /\ call' = [call EXCEPT ![r] = Return]
         /\ todo' = [todo EXCEPT ![r] = {}]
      \/ /\ next = "next"
         /\ \E x \in turns : /\ call' = [call EXCEPT ![r] = x]
                             /\ todo' = [todo EXCEPT ![r] = turns \ {x}]
  BY <1>7 DEF GoesOn, next, turns
<1>9. /\ DOMAIN call' = Requests /\ DOMAIN todo' = Requests
      /\ \A q \in Requests \ {r} : call'[q] = call[q] /\ todo'[q] = todo[q]
      /\ \/ next # "next" /\ call'[r] = Call(next, c.on) /\ todo'[r] = todo[r]
         \/ next = "next" /\ turns = {} /\ call'[r] = Return /\ todo'[r] = {}
         \/ next = "next" /\ call'[r] \in turns /\ todo'[r] = turns \ {call'[r]}
  BY <1>3, <1>8 DEF RequestTypes
<1> QED BY <1>2, <1>5, <1>6, <1>9 DEF Opens, c, next, turns

(* A call that found no error met a domain that exists, and what is true   *)
(* of it is known.  (Name, UUID and ID are read from the handle.)          *)
LEMMA MetInTime ==
    ASSUME WorldInv, NEW r \in Requests, ReadsRight(r), Succeeds(r),
           call[r].on \in Domains, call[r].call \notin {"identity", "id"}
    PROVE  /\ life[call[r].on] # "gone" /\ Fact(call[r].on) \in was[r]
           /\ Fact(call[r].on).dom = call[r].on
<1>1. life[call[r].on] # "gone" BY QueriesAssumption DEF Succeeds, Answers, Unavailable
<1>2. Fact(call[r].on) \in Facts /\ Fact(call[r].on).dom = call[r].on
  BY <1>1, FactsAreFacts
<1>3. Opened(r)
  <2>1. CourseInv(r) /\ stage[r] = "identity" /\ call[r] # Return BY DEF ReadsRight, Succeeds
  <2>2. CallInv(r) /\ call[r].on # Nothing BY <2>1, QueriesAssumption DEF CourseInv
  <2>3. op[r] \notin HostQueries \ Lists BY <2>1, <2>2 DEF CallInv
  <2>4. op[r] \in Lists => call[r].call # "listDomains" BY <2>1, <2>2 DEF CallInv
  <2>5. op[r] \notin Lists => call[r].call # "listDomains"
    <3>1. op[r] \in Queries /\ call[r].call \in CallsOf(op[r])
      BY <2>1 DEF CourseInv, CallInv
    <3> QED BY <3>1, FollowTable
  <2> QED BY <2>1, <2>3, <2>4, <2>5 DEF Opened
<1> QED BY <1>1, <1>2, <1>3 DEF ReadsRight, KnownInv

(* A call on a domain.                                                     *)
LEMMA CallOnDomain ==
    ASSUME NEW r \in Requests, CourseInv(r), stage[r] = "identity", call[r] # Return,
           op[r] \notin HostQueries \/ (op[r] \in Lists /\ call[r].call # "listDomains")
    PROVE  call[r].on \in Domains
<1>1. CASE op[r] \notin HostQueries
  BY <1>1, DomainOfKey DEF CourseInv, CallInv, DomOf
<1>2. CASE op[r] \in Lists /\ call[r].call # "listDomains"
  BY <1>2 DEF CourseInv, CallInv
<1> QED BY <1>1, <1>2

(* A call adds an entry for its domain, or completes the last one, or      *)
(* leaves the report as it is.                                             *)
LEMMA EntryStep ==
    ASSUME WorldInv, RequestTypes, NEW r \in Requests, ReadsRight(r), Succeeds(r)
    PROVE  LET c == call[r]
               new == report'[r]
               n == Len(report[r])
               last == report[r][n]
               d == c.on
           IN  /\ new = Learn(report[r], c, handle[r]) /\ new \in Seq(Entries) /\ n \in Nat
               /\ DOMAIN report[r] = 1 .. n
               /\ c.call \in {"identity", "viewer"} =>
                    /\ d \in Domains /\ Len(new) = n + 1 /\ DOMAIN new = 1 .. n + 1
                    /\ \A i \in 1 .. n : new[i] = report[r][i]
                    /\ new[n + 1].dom = d
               /\ c.call = "identity" => new[n + 1] = Unread(d)
               /\ c.call = "viewer" =>
                    new[n + 1] = [Unread(d) EXCEPT !.port = ViewerPort(Port(d))]
               /\ c.call \in LastCalls =>
                    /\ d \in Domains /\ Len(new) = n /\ DOMAIN new = 1 .. n /\ n \in 1 .. n
                    /\ last \in Entries /\ last.dom = d
                    /\ \A i \in 1 .. n : i # n => new[i] = report[r][i]
                    /\ new[n].dom = d
               /\ c.call = "state" => new[n] = [last EXCEPT !.state = power[d]]
               /\ c.call = "active" => new[n] = [last EXCEPT !.active = Active(d)]
               /\ c.call = "id" => new[n] = [last EXCEPT !.id = NormalizeDomainID(handle[r][d])]
               /\ c.call = "info" => new[n] = [last EXCEPT !.code = StateCode(power[d])]
               /\ c.call \notin LastCalls \cup {"identity", "viewer"} => new = report[r]
<1> DEFINE c == call[r]
           rep == report[r]
           ids == handle[r]
           new == Learn(rep, c, ids)
           d == c.on
           n == Len(rep)
           last == rep[n]
<1>1. CourseInv(r) /\ stage[r] = "identity" /\ c # Return BY DEF ReadsRight, Succeeds
<1>2. op[r] \in Queries /\ c.call \in CallsOf(op[r]) BY <1>1 DEF CourseInv, CallInv
<1>3. rep \in Seq(Entries) /\ ids \in [Domains -> Int] BY DEF RequestTypes
<1>4. c.call \in LastCalls \cup {"identity", "viewer"} => d \in Domains
  <2>1. op[r] \in HostQueries \ Lists => c.call \notin LastCalls \cup {"identity", "viewer"}
    BY <1>2, FollowTable DEF LastCalls
  <2> QED BY <1>1, <2>1, CallOnDomain DEF LastCalls
<1>5. c.call \in LastCalls => rep # <<>> /\ last.dom = d BY <1>1 DEF CourseInv, LastCalls
<1>6. report'[r] = new BY SuccessEffect DEF RequestTypes
<1> HIDE DEF c, rep, ids
<1>7. /\ new \in Seq(Entries)
      /\ c.call = "identity" => Unread(d) \in Entries /\ new = Append(rep, Unread(d))
      /\ c.call = "viewer" =>
           /\ [Unread(d) EXCEPT !.port = ViewerPort(Port(d))] \in Entries
           /\ new = Append(rep, [Unread(d) EXCEPT !.port = ViewerPort(Port(d))])
      /\ c.call = "state" =>
           /\ last \in Entries /\ [last EXCEPT !.state = power[d]] \in Entries
           /\ new = [rep EXCEPT ![n] = [last EXCEPT !.state = power[d]]]
      /\ c.call = "active" =>
           /\ last \in Entries /\ [last EXCEPT !.active = Active(d)] \in Entries
           /\ new = [rep EXCEPT ![n] = [last EXCEPT !.active = Active(d)]]
      /\ c.call = "id" =>
           /\ last \in Entries
           /\ [last EXCEPT !.id = NormalizeDomainID(ids[d])] \in Entries
           /\ new = [rep EXCEPT ![n] = [last EXCEPT !.id = NormalizeDomainID(ids[d])]]
      /\ c.call = "info" =>
           /\ last \in Entries /\ [last EXCEPT !.code = StateCode(power[d])] \in Entries
           /\ new = [rep EXCEPT ![n] = [last EXCEPT !.code = StateCode(power[d])]]
      /\ c.call \notin {"identity", "viewer", "state", "active", "id", "info"} => new = rep
  <2>1. c.call \in {"identity", "viewer", "state", "active", "id", "info"} => c.on \in Domains
    BY <1>4 DEF LastCalls
  <2>2. c.call \in {"state", "active", "id", "info"} => rep # <<>> BY <1>5 DEF LastCalls
  <2> QED BY <1>3, <2>1, <2>2, Learnt, Zenon
<1>8. new \in Seq(Entries) /\ DOMAIN rep = 1 .. n /\ n \in Nat
  BY <1>3, <1>7
<1>9. ASSUME c.call \in {"identity", "viewer"}
      PROVE  /\ Len(new) = n + 1 /\ DOMAIN new = 1 .. n + 1
             /\ \A i \in 1 .. n : new[i] = rep[i]
             /\ new[n + 1].dom = d
             /\ c.call = "identity" => new[n + 1] = Unread(d)
             /\ c.call = "viewer" =>
                  new[n + 1] = [Unread(d) EXCEPT !.port = ViewerPort(Port(d))]
  <2>1. PICK y \in Entries :
          /\ new = Append(rep, y) /\ y.dom = d
          /\ c.call = "identity" => y = Unread(d)
          /\ c.call = "viewer" => y = [Unread(d) EXCEPT !.port = ViewerPort(Port(d))]
    <3>1. Unread(d).dom = d /\ [Unread(d) EXCEPT !.port = ViewerPort(Port(d))].dom = d
      BY DEF Unread
    <3>2. /\ c.call = "identity" => Unread(d) \in Entries /\ new = Append(rep, Unread(d))
          /\ c.call = "viewer" =>
               /\ [Unread(d) EXCEPT !.port = ViewerPort(Port(d))] \in Entries
               /\ new = Append(rep, [Unread(d) EXCEPT !.port = ViewerPort(Port(d))])
      BY <1>7
    <3> HIDE DEF new, d
    <3> QED BY <1>9, <3>1, <3>2
  <2> HIDE DEF new, d
  <2> QED BY <1>3, <1>8, <2>1, Appended
<1>10. ASSUME c.call \in LastCalls
      PROVE  /\ Len(new) = n /\ DOMAIN new = 1 .. n /\ n \in 1 .. n
             /\ last \in Entries
             /\ \A i \in 1 .. n : i # n => new[i] = rep[i]
             /\ new[n].dom = d
             /\ c.call = "state" => new[n] = [last EXCEPT !.state = power[d]]
             /\ c.call = "active" => new[n] = [last EXCEPT !.active = Active(d)]
             /\ c.call = "id" => new[n] = [last EXCEPT !.id = NormalizeDomainID(ids[d])]
             /\ c.call = "info" => new[n] = [last EXCEPT !.code = StateCode(power[d])]
  <2>1. PICK y \in Entries :
          /\ new = [rep EXCEPT ![n] = y]
          /\ c.call = "state" => y = [last EXCEPT !.state = power[d]]
          /\ c.call = "active" => y = [last EXCEPT !.active = Active(d)]
          /\ c.call = "id" => y = [last EXCEPT !.id = NormalizeDomainID(ids[d])]
          /\ c.call = "info" => y = [last EXCEPT !.code = StateCode(power[d])]
    <3>1. /\ c.call = "state" =>
               /\ [last EXCEPT !.state = power[d]] \in Entries
               /\ new = [rep EXCEPT ![n] = [last EXCEPT !.state = power[d]]]
          /\ c.call = "active" =>
               /\ [last EXCEPT !.active = Active(d)] \in Entries
               /\ new = [rep EXCEPT ![n] = [last EXCEPT !.active = Active(d)]]
          /\ c.call = "id" =>
               /\ [last EXCEPT !.id = NormalizeDomainID(ids[d])] \in Entries
               /\ new = [rep EXCEPT ![n] = [last EXCEPT !.id = NormalizeDomainID(ids[d])]]
          /\ c.call = "info" =>
               /\ [last EXCEPT !.code = StateCode(power[d])] \in Entries
               /\ new = [rep EXCEPT ![n] = [last EXCEPT !.code = StateCode(power[d])]]
      BY <1>7
    <3> HIDE DEF new, d, n, last
    <3> QED BY <1>10, <3>1 DEF LastCalls
  <2>2. last \in Entries /\ last.dom = d /\ rep # <<>> /\ n \in 1 .. n
    BY <1>3, <1>5, <1>8, <1>10
  <2>3. y.dom = d BY <1>10, <2>1, <2>2 DEF Entries, LastCalls
  <2> HIDE DEF new, d, last
  <2> QED BY <1>3, <1>8, <2>1, <2>2, <2>3, LastChanged
<1>11. c.call \notin LastCalls \cup {"identity", "viewer"} => new = rep
  BY <1>7 DEF LastCalls
<1> HIDE DEF new, d, n, last
<1>12. /\ report'[r] = new /\ new \in Seq(Entries) /\ n \in Nat /\ DOMAIN rep = 1 .. n
       /\ c.call \in LastCalls \cup {"identity", "viewer"} => d \in Domains
  BY <1>4, <1>6, <1>8
<1> QED BY <1>5, <1>9, <1>10, <1>11, <1>12 DEF new, rep, d, c, ids, n, last, LastCalls

(* After a call that succeeds, the types are right,                        *)
LEMMA SuccessTypes ==
    ASSUME WorldInv, RequestTypes, NEW r \in Requests, ReadsRight(r), Succeeds(r)
    PROVE  RequestTypes' /\ Alone(r) /\ UNCHANGED libvirtdVars
<1>1. /\ UNCHANGED <<stage, op, ident, err, status>>
      /\ DOMAIN call' = Requests /\ DOMAIN todo' = Requests
      /\ report' = [report EXCEPT ![r] = Learn(report[r], call[r], handle[r])]
      /\ \A q \in Requests \ {r} : call'[q] = call[q] /\ todo'[q] = todo[q]
      /\ call[r].call = "listDomains" =>
           /\ handle' = [handle EXCEPT ![r] = [d \in Domains |-> HandleID(d)]]
           /\ was' = [was EXCEPT ![r] = Facts]
      /\ call[r].call # "listDomains" => UNCHANGED <<handle, was>>
  BY SuccessEffect
<1>2. Learn(report[r], call[r], handle[r]) \in Seq(Entries) BY EntryStep
<1>3. [d \in Domains |-> HandleID(d)] \in [Domains -> Int] BY FactsAreFacts
<1>4. Facts \in SUBSET AllFacts BY FactsAreFacts
<1>5. handle' \in [Requests -> [Domains -> Int]] /\ was' \in [Requests -> SUBSET AllFacts]
  BY <1>1, <1>3, <1>4 DEF RequestTypes
<1>6. RequestTypes' BY <1>1, <1>2, <1>5 DEF RequestTypes
<1>7. \A q \in Requests \ {r} : handle'[q] = handle[q] /\ was'[q] = was[q]
  BY <1>1 DEF RequestTypes
<1>8. Alone(r) BY <1>1, <1>7 DEF RequestTypes, Alone, Same
<1> QED BY <1>6, <1>8 DEF Succeeds

(* the request is on its course,                                           *)
LEMMA SuccessCourse ==
    ASSUME WorldInv, RequestTypes, NEW r \in Requests, ReadsRight(r), Succeeds(r)
    PROVE  CourseInv(r)'
<1> DEFINE c == call[r]
           next == Following(op[r], c)
           turns == Turns(r, c)
<1>1. /\ CourseInv(r) /\ CallInv(r) /\ TurnsInv(r) /\ stage[r] = "identity" /\ c # Return
      /\ op[r] \in Queries /\ c.call \in CallsOf(op[r])
  BY DEF ReadsRight, Succeeds, CourseInv, CallInv
<1>2. UNCHANGED <<stage, op, ident, err>> /\ DomOf(r)' = DomOf(r)
  BY SuccessEffect DEF DomOf
<1>3. \/ next # "next" /\ call'[r] = Call(next, c.on) /\ todo'[r] = todo[r]
      \/ next = "next" /\ turns = {} /\ call'[r] = Return /\ todo'[r] = {}
      \/ next = "next" /\ call'[r] \in turns /\ todo'[r] = turns \ {call'[r]}
  BY SuccessEffect
<1>4. /\ op[r] \in Lists => turns \subseteq {Call("identity", d) : d \in Domains}
      /\ op[r] = "stats" => turns \subseteq DeviceCalls(DomOf(r))
      /\ op[r] \notin Lists \cup {"stats"} => turns = {}
  BY <1>1, TurnsTyped
<1>5. /\ next = "next" \/ next \in CallsOf(op[r])
      /\ next \notin {"device", "identity", "listDomains", "viewer", "return"}
      /\ next = "state" => c.call \in {"identity", "running"}
      /\ next = "running" => c.call = "identity"
      /\ next = "active" => c.call = "state"
      /\ next = "id" => c.call = "active"
      /\ next = "info" => c.call \in {"active", "id"}
      /\ c.call = "listDomains" => next = "next"
  BY <1>1, FollowTable
<1> HIDE DEF c, next, turns
<1>6. TurnsInv(r)' BY <1>1, <1>2, <1>3, <1>4 DEF TurnsInv
<1>7. CASE next # "next"
  <2>1. /\ call'[r] = Call(next, c.on) /\ call'[r].call = next /\ call'[r].on = c.on
        /\ next \in CallsOf(op[r])
    BY <1>3, <1>5, <1>7 DEF Call
  <2>2. /\ op[r] \notin HostQueries => c.on = DomOf(r)
        /\ op[r] \in Lists => c.on # Nothing /\ c.on \in Domains \cup {Nothing}
        /\ op[r] \in HostQueries \ Lists => c.on = Nothing
    BY <1>1, <1>5, <1>7 DEF CallInv, c
  <2>3. CallInv(r)' BY <1>2, <1>5, <2>1, <2>2 DEF CallInv
  <2>4. ASSUME next \in LastCalls \cup {"running"}
        PROVE  report'[r] # <<>> /\ report'[r][Len(report'[r])].dom = c.on
    <3>1. CASE c.call = "identity"
      <4>1. /\ Len(report'[r]) = Len(report[r]) + 1 /\ Len(report[r]) \in Nat
            /\ report'[r][Len(report[r]) + 1].dom = c.on
        BY <3>1, EntryStep DEF c
      <4> QED BY <4>1
    <3>2. CASE c.call \in LastCalls
      <4>1. /\ Len(report'[r]) = Len(report[r]) /\ Len(report[r]) \in 1 .. Len(report[r])
            /\ report'[r][Len(report[r])].dom = c.on
        BY <3>2, EntryStep DEF c
      <4> QED BY <4>1
    <3>3. CASE c.call = "running"
      <4>1. report'[r] = report[r] BY <3>3, EntryStep DEF c, LastCalls
      <4> QED BY <1>1, <3>3, <4>1 DEF CourseInv, c
    <3> QED BY <1>5, <2>4, <3>1, <3>2, <3>3 DEF LastCalls
  <2> QED BY <1>1, <1>2, <1>5, <1>6, <2>1, <2>3, <2>4 DEF CourseInv, Looking, LastCalls, Answered200
<1>8. CASE next = "next" /\ call'[r] = Return /\ todo'[r] = {}
  <2>1. CallInv(r)' BY <1>8 DEF CallInv
  <2>2. call'[r].call = "return" BY <1>8 DEF Return, Call
  <2> QED BY <1>1, <1>2, <1>6, <2>1, <2>2 DEF CourseInv, Looking, Answered200
<1>9. CASE next = "next" /\ call'[r] \in turns
  <2>1. CASE op[r] \in Lists
    <3>1. PICK d \in Domains : call'[r] = Call("identity", d) BY <1>4, <1>9, <2>1
    <3>2. call'[r].call = "identity" /\ call'[r].on = d /\ d # Nothing
      BY <3>1, QueriesAssumption DEF Call
    <3>3. "identity" \in CallsOf(op[r]) BY <2>1, SummaryTable
    <3>4. CallInv(r)' BY <1>2, <2>1, <3>1, <3>2, <3>3 DEF CallInv, HostQueries
    <3> QED BY <1>1, <1>2, <1>6, <3>2, <3>4 DEF CourseInv, Looking, Answered200
  <2>2. CASE op[r] = "stats"
    <3>1. call'[r] \in DeviceCalls(DomOf(r)) BY <1>4, <1>9, <2>2
    <3>2. call'[r].call = "device" /\ call'[r].on = DomOf(r)
      BY <3>1 DEF DeviceCalls, DeviceCall
    <3>3. "device" \in CallsOf(op[r]) BY <2>2, StatsTable
    <3>4. CallInv(r)' BY <1>2, <2>2, <3>1, <3>2, <3>3 DEF CallInv, HostQueries, Lists
    <3> QED BY <1>1, <1>2, <1>6, <3>2, <3>4 DEF CourseInv, Looking, Answered200
  <2> QED BY <1>4, <1>9, <2>1, <2>2
<1> QED BY <1>3, <1>7, <1>8, <1>9

(* it knows the domains it has yet to ask for,                             *)
LEMMA SuccessKnown ==
    ASSUME WorldInv, RequestTypes, NEW r \in Requests, ReadsRight(r), Succeeds(r)
    PROVE  KnownInv(r)'
<1> DEFINE c == call[r]
           next == Following(op[r], c)
           turns == Turns(r, c)
<1>1. /\ CourseInv(r) /\ KnownInv(r) /\ CallInv(r) /\ stage[r] = "identity" /\ c # Return
      /\ op[r] \in Queries /\ c.call \in CallsOf(op[r])
  BY DEF ReadsRight, Succeeds, CourseInv, CallInv
<1>2. UNCHANGED <<stage, op>> /\ Facts' = Facts
  BY SuccessEffect, FactsUnchanged
<1>3. \/ next # "next" /\ call'[r] = Call(next, c.on) /\ todo'[r] = todo[r]
      \/ next = "next" /\ turns = {} /\ call'[r] = Return /\ todo'[r] = {}
      \/ next = "next" /\ call'[r] \in turns /\ todo'[r] = turns \ {call'[r]}
  BY SuccessEffect
<1>4. CASE c.call = "listDomains"
  <2>1. /\ was'[r] = Facts /\ handle'[r] = [d \in Domains |-> HandleID(d)]
        /\ next = "next" /\ turns = {Call("identity", d) : d \in Filtered(op[r])}
    BY <1>1, <1>4, SuccessEffect, FollowTable, TurnsTyped DEF RequestTypes
  <2>2. report'[r] = <<>>
    <3>1. report'[r] = report[r] BY <1>4, EntryStep DEF LastCalls
    <3> QED BY <1>1, <1>4, <3>1 DEF CourseInv
  <2>3. \A x \in turns : Known(Facts, x.on)
    <3>1. \A d \in Filtered(op[r]) : Fact(d) \in Facts /\ Fact(d).dom = d
      BY FactsAreFacts DEF Filtered
    <3> QED BY <2>1, <3>1 DEF Known, Call
  <2>4. ASSUME NEW d \in Domains, NEW f \in Facts, f.dom = d
        PROVE  f.id = NormalizeDomainID(handle'[r][d])
    BY <2>1, <2>4, FactsAreFacts
  <2>5. \A d \in Domains : Known(was'[r], d) =>
          \E f \in was'[r] : f.dom = d /\ f.id = NormalizeDomainID(handle'[r][d])
    BY <2>1, <2>4 DEF Known
  <2>6. /\ call'[r] # Return => Known(was'[r], call'[r].on)
        /\ \A x \in todo'[r] : Known(was'[r], x.on)
    BY <1>3, <2>1, <2>3
  <2> QED BY <1>2, <2>1, <2>2, <2>5, <2>6 DEF KnownInv
<1>5. CASE c.call # "listDomains"
  <2>1. UNCHANGED <<handle, was>> BY <1>5, SuccessEffect
  <2>2. Opened(r)' => Opened(r) BY <1>1, <1>2, <1>5 DEF Opened
  <2>3. op[r] \in HostQueries \ Lists \/ Opened(r) BY <1>1, <1>5 DEF Opened
  <2>4. Opened(r) => Known(was[r], c.on) BY <1>1 DEF KnownInv
  <2>5. \A i \in DOMAIN report'[r] : Known(was[r], report'[r][i].dom)
    <3>0. \A i \in DOMAIN report[r] : Known(was[r], report[r][i].dom)
      BY <1>1 DEF KnownInv
    <3>1. CASE op[r] \in HostQueries \ Lists
      <4>1. c.call \notin LastCalls \cup {"identity", "viewer"}
        BY <1>1, <3>1, FollowTable DEF LastCalls
      <4>2. report'[r] = report[r] BY <4>1, EntryStep
      <4> QED BY <3>0, <4>2
    <3>2. CASE Opened(r) /\ c.call \in {"identity", "viewer"}
      <4>1. /\ DOMAIN report'[r] = 1 .. Len(report[r]) + 1
            /\ Len(report[r]) \in Nat /\ DOMAIN report[r] = 1 .. Len(report[r])
            /\ \A i \in 1 .. Len(report[r]) : report'[r][i] = report[r][i]
            /\ report'[r][Len(report[r]) + 1].dom = c.on
        BY <3>2, EntryStep
      <4> QED BY <2>4, <3>0, <3>2, <4>1
    <3>3. CASE Opened(r) /\ c.call \in LastCalls
      <4>1. /\ DOMAIN report'[r] = 1 .. Len(report[r])
            /\ DOMAIN report[r] = 1 .. Len(report[r])
            /\ \A i \in 1 .. Len(report[r]) : i # Len(report[r]) => report'[r][i] = report[r][i]
            /\ report'[r][Len(report[r])].dom = c.on
        BY <3>3, EntryStep
      <4> QED BY <2>4, <3>0, <3>3, <4>1
    <3>4. CASE c.call \notin LastCalls \cup {"identity", "viewer"}
      BY <3>0, <3>4, EntryStep
    <3> QED BY <2>3, <3>1, <3>2, <3>3, <3>4
  <2>6. ASSUME Opened(r)
        PROVE  /\ call'[r] # Return => Known(was[r], call'[r].on)
               /\ \A x \in todo'[r] : Known(was[r], x.on)
    <3>1. \A x \in todo[r] : Known(was[r], x.on) BY <1>1, <2>6 DEF KnownInv
    <3>2. \A x \in turns : Known(was[r], x.on)
      <4>1. CASE c.call = "targets"
        <5>1. turns = {DeviceCall(c.on, x) : x \in TargetsFromXML(present[c.on])}
          BY <4>1 DEF Turns
        <5>2. \A x \in turns : x.on = c.on BY <5>1 DEF DeviceCall
        <5> QED BY <2>4, <2>6, <5>2
      <4>2. CASE c.call # "targets"
        <5>1. turns = todo[r] BY <1>1, <1>5, <4>2, TurnsTyped
        <5> QED BY <3>1, <5>1
      <4> QED BY <4>1, <4>2
    <3>3. Call(next, c.on).on = c.on BY DEF Call
    <3> HIDE DEF c, next, turns
    <3> QED BY <1>3, <2>4, <2>6, <3>1, <3>2, <3>3
  <2>7. Opened(r) =>
          /\ Facts \subseteq was[r]
          /\ \A d \in Domains : Known(was[r], d) =>
               \E f \in was[r] : f.dom = d /\ f.id = NormalizeDomainID(handle[r][d])
    BY <1>1 DEF KnownInv
  <2> QED BY <1>2, <2>1, <2>2, <2>5, <2>6, <2>7 DEF KnownInv
<1> QED BY <1>4, <1>5

(* and every part of every entry was true.                                 *)
LEMMA SuccessBacked ==
    ASSUME WorldInv, RequestTypes, NEW r \in Requests, ReadsRight(r), Succeeds(r)
    PROVE  BackedInv(r)'
<1> DEFINE c == call[r]
           d == c.on
           n == Len(report[r])
           last == report[r][n]
<1>1. /\ CourseInv(r) /\ KnownInv(r) /\ stage[r] = "identity" /\ c # Return
      /\ op[r] \in Queries /\ c.call \in CallsOf(op[r])
  BY DEF ReadsRight, Succeeds, CourseInv, CallInv
<1>2. \A i \in DOMAIN report[r] : Backed(report[r][i], was[r])
  BY DEF ReadsRight, BackedInv
<1>3. CASE c.call = "listDomains"
  <2>1. report'[r] = report[r] BY <1>3, EntryStep DEF LastCalls
  <2>2. report[r] = <<>> BY <1>1, <1>3 DEF CourseInv
  <2> QED BY <2>1, <2>2 DEF BackedInv
<1>4. CASE c.call \notin LastCalls \cup {"identity", "viewer", "listDomains"}
  <2>1. report'[r] = report[r] BY <1>4, EntryStep
  <2>2. was'[r] = was[r] BY <1>4, SuccessEffect
  <2> QED BY <1>2, <2>1, <2>2 DEF BackedInv
<1>5. CASE c.call \in {"identity", "viewer"}
  <2>1. /\ DOMAIN report'[r] = 1 .. n + 1 /\ n \in Nat /\ DOMAIN report[r] = 1 .. n
        /\ \A i \in 1 .. n : report'[r][i] = report[r][i] /\ d \in Domains
        /\ d \in Domains
        /\ c.call = "identity" => report'[r][n + 1] = Unread(d)
        /\ c.call = "viewer" => report'[r][n + 1] = [Unread(d) EXCEPT !.port = ViewerPort(Port(d))]
    BY <1>5, EntryStep
  <2>2. was'[r] = was[r] BY <1>5, SuccessEffect
  <2>3. Backed(Unread(d), was[r]) BY DEF Backed, Unread
  <2>4. ASSUME c.call = "viewer"
        PROVE  Backed([Unread(d) EXCEPT !.port = ViewerPort(Port(d))], was[r])
    <3>1. Fact(d) \in was[r] /\ Fact(d).dom = d BY <2>1, <2>4, MetInTime
    <3>2. Fact(d).id = Port(d) BY <2>1, FactsAreFacts
    <3>3. ViewerPort(Port(d)) # Nothing => ViewerPort(Port(d)) = Port(d) BY DEF ViewerPort
    <3> HIDE DEF d
    <3> DEFINE y == [Unread(d) EXCEPT !.port = ViewerPort(Port(d))]
    <3>4. /\ y.state = Nothing /\ y.active = Nothing /\ y.id = -1 /\ y.dom = d
          /\ y.code = Nothing
          /\ y.port = ViewerPort(Port(d))
      BY DEF Unread
    <3> HIDE DEF y
    <3>5. Backed(y, was[r]) BY <3>1, <3>2, <3>3, <3>4 DEF Backed
    <3> QED BY <3>5 DEF y
  <2>5. Backed(report'[r][n + 1], was[r]) BY <1>5, <2>1, <2>3, <2>4
  <2> QED BY <1>2, <2>1, <2>2, <2>5 DEF BackedInv
<1>6. CASE c.call \in LastCalls
  <2>1. /\ DOMAIN report'[r] = 1 .. n /\ n \in 1 .. n /\ DOMAIN report[r] = 1 .. n
        /\ \A i \in 1 .. n : i # n => report'[r][i] = report[r][i]
        /\ d \in Domains /\ last \in Entries /\ last.dom = d
        /\ c.call = "state" => report'[r][n] = [last EXCEPT !.state = power[d]]
        /\ c.call = "active" => report'[r][n] = [last EXCEPT !.active = Active(d)]
        /\ c.call = "id" => report'[r][n] = [last EXCEPT !.id = NormalizeDomainID(handle[r][d])]
        /\ c.call = "info" => report'[r][n] = [last EXCEPT !.code = StateCode(power[d])]
    BY <1>6, EntryStep
  <2>2. was'[r] = was[r] BY <1>6, SuccessEffect DEF LastCalls
  <2>3. Backed(last, was[r]) BY <1>2, <2>1
  <2>4. c.call # "id" =>
          /\ Fact(d) \in was[r] /\ Fact(d).dom = d /\ Fact(d).power = power[d]
          /\ Fact(d).power = "shutoff" <=> ~Active(d)
    BY <1>6, <2>1, MetInTime, FactsAreFacts DEF LastCalls
  <2>5. c.call = "id" =>
          \E f \in was[r] : f.dom = d /\ f.id = NormalizeDomainID(handle[r][d])
    <3>1. SUFFICES ASSUME c.call = "id"
                   PROVE  \E f \in was[r] : f.dom = d /\ f.id = NormalizeDomainID(handle[r][d])
      OBVIOUS
    <3>2. op[r] \notin HostQueries \ Lists BY <1>1, <3>1, FollowTable
    <3>3. Opened(r) BY <1>1, <3>1, <3>2 DEF Opened
    <3> QED BY <1>1, <2>1, <3>3 DEF KnownInv
  <2>6. Backed(report'[r][n], was[r])
    <3> HIDE DEF d, n, last
    <3>1. CASE c.call = "state"
      <4>1. report'[r][n] = [last EXCEPT !.state = power[d]] BY <2>1, <3>1
      <4> QED BY <2>1, <2>3, <2>4, <3>1, <4>1 DEF Backed, Entries
    <3>2. CASE c.call = "active"
      <4>1. report'[r][n] = [last EXCEPT !.active = Active(d)] BY <2>1, <3>2
      <4> DEFINE y == report'[r][n]
      <4>2. /\ y.dom = d /\ y.state = last.state /\ y.id = last.id /\ y.code = last.code
            /\ y.port = last.port /\ y.active = Active(d)
        BY <2>1, <4>1 DEF Entries
      <4>3. Active(d) = (Fact(d).power # "shutoff")
        <5>1. Active(d) \in BOOLEAN BY DEF Active
        <5> QED BY <2>4, <3>2, <5>1
      <4>4. Fact(d) \in was[r] /\ Fact(d).dom = y.dom /\ y.active = (Fact(d).power # "shutoff")
        BY <2>4, <3>2, <4>2, <4>3
      <4> HIDE DEF y
      <4>5. Backed(y, was[r]) BY <2>1, <2>3, <4>2, <4>4, Zenon DEF Backed
      <4> QED BY <4>5 DEF y
    <3>3. CASE c.call = "id"
      <4>1. report'[r][n] = [last EXCEPT !.id = NormalizeDomainID(handle[r][d])]
        BY <2>1, <3>3
      <4> QED BY <2>1, <2>3, <2>5, <3>3, <4>1 DEF Backed, Entries
    <3>4. CASE c.call = "info"
      <4>1. report'[r][n] = [last EXCEPT !.code = StateCode(power[d])] BY <2>1, <3>4
      <4>2. StateName(StateCode(power[d])) = power[d] BY <2>1, StateNamed DEF WorldInv
      <4> QED BY <2>1, <2>3, <2>4, <3>4, <4>1, <4>2 DEF Backed, Entries
    <3> QED BY <1>6, <3>1, <3>2, <3>3, <3>4 DEF LastCalls
  <2> QED BY <1>2, <2>1, <2>2, <2>6 DEF BackedInv
<1> QED BY <1>3, <1>4, <1>5, <1>6
-----------------------------------------------------------------------------
(***************************************************************************)
(* ReaderInv is an invariant.                                              *)
(***************************************************************************)

(* A call ends the query, or succeeds.                                     *)
LEMMA CallOutcome ==
    ASSUME RequestTypes, NEW r \in Requests, MakeCall(r)
    PROVE  \/ /\ Goes(r, "identity", "answered") /\ UNCHANGED <<op, ident, libvirtdVars, readVars>>
              /\ call[r] # Return
              /\ \E e \in Answers(call[r]) :
                   e # "none" /\ Answer(r, QueryError(call[r], e)) /\ Fails(r, e)
           \/ /\ Goes(r, "identity", "answered") /\ UNCHANGED <<op, ident, libvirtdVars, readVars>>
              /\ call[r] # Return
              /\ Inactive(call[r]) /\ "none" \in Answers(call[r])
              /\ Answer(r, "409") /\ UNCHANGED err
           \/ Succeeds(r)
<1>1. /\ stage[r] = "identity" /\ call[r] # Return
      /\ UNCHANGED <<lockVars, op, ident, saw, result, libvirtdVars>>
  BY DEF MakeCall
<1>2. PICK e \in Answers(call[r]) :
         \/ e # "none" /\ CallFails(r, call[r], e)
         \/ e = "none" /\ Inactive(call[r]) /\ CallConflicts(r)
         \/ e = "none" /\ ~Inactive(call[r]) /\ CallSucceeds(r, call[r])
  BY DEF MakeCall
<1>3. CASE e # "none" /\ CallFails(r, call[r], e)
  BY <1>1, <1>3 DEF CallFails, readVars
<1>4. CASE e = "none" /\ Inactive(call[r]) /\ CallConflicts(r)
  BY <1>1, <1>4 DEF CallConflicts, readVars
<1>5. CASE e = "none" /\ ~Inactive(call[r]) /\ CallSucceeds(r, call[r])
  BY <1>1, <1>5 DEF Succeeds
<1> QED BY <1>2, <1>3, <1>4, <1>5

(* What a step of one request does to it, and to no other.                 *)
OwnStep(r) ==
    \/ \E o \in Operations \ HostQueries, i \in Keys : ArriveQuery(r, o, i)
    \/ \E o \in Operations \cap HostQueries : ArriveHostQuery(r, o)
    \/ LookupQuery(r) \/ MakeCall(r) \/ AnswerQuery(r)

(* A step of a request keeps it on its course and leaves the others alone. *)
LEMMA OwnStepKeeps ==
    ASSUME WorldInv, RequestTypes, NEW r \in Requests, ReadsRight(r), OwnStep(r)
    PROVE  RequestTypes' /\ Alone(r) /\ ReadsRight(r)' /\ UNCHANGED libvirtdVars
<1>1. CASE \E o \in Operations \ HostQueries, i \in Keys : ArriveQuery(r, o, i)
  BY <1>1, ArriveQueryKeeps
<1>2. CASE \E o \in Operations \cap HostQueries : ArriveHostQuery(r, o)
  BY <1>2, ArriveHostQueryKeeps
<1>3. CASE LookupQuery(r) BY <1>3, LookupKeeps
<1>4. CASE AnswerQuery(r)
  <2>1. /\ Goes(r, "identity", "answered") /\ Answer(r, "ok") /\ UNCHANGED err
        /\ UNCHANGED <<op, ident, libvirtdVars, readVars>>
    BY <1>4 DEF AnswerQuery
  <2>2. call[r] = Return BY <1>4 DEF AnswerQuery
  <2>3. DOMAIN err' = Requests BY <2>1 DEF RequestTypes
  <2> QED BY <2>1, <2>2, <2>3, EndKeeps
<1>5. CASE MakeCall(r)
  <2>1. CASE Succeeds(r)
    BY <2>1, SuccessTypes, SuccessCourse, SuccessKnown, SuccessBacked DEF ReadsRight
  <2>2. CASE /\ Goes(r, "identity", "answered")
             /\ UNCHANGED <<op, ident, libvirtdVars, readVars>>
             /\ \E e \in Answers(call[r]) :
                  e # "none" /\ Answer(r, QueryError(call[r], e)) /\ Fails(r, e)
    <3>1. PICK e : Answer(r, QueryError(call[r], e)) /\ Fails(r, e) BY <2>2
    <3>2. DOMAIN err' = Requests /\ \A q \in Requests \ {r} : err'[q] = err[q]
      BY <3>1 DEF RequestTypes, Fails
    <3>3. QueryError(call[r], e) # "ok" BY DEF QueryError
    <3> QED BY <2>2, <3>1, <3>2, <3>3, EndKeeps
  <2>3. CASE /\ Goes(r, "identity", "answered")
             /\ UNCHANGED <<op, ident, libvirtdVars, readVars>>
             /\ Answer(r, "409") /\ UNCHANGED err
    <3>1. DOMAIN err' = Requests BY <2>3 DEF RequestTypes
    <3> QED BY <2>3, <3>1, EndKeeps
  <2> QED BY <1>5, <2>1, <2>2, <2>3, CallOutcome
<1> QED BY <1>1, <1>2, <1>3, <1>4, <1>5 DEF OwnStep

(* What libvirtd does to the requests.                                     *)
LEMMA ChangesSeen ==
    ASSUME RequestTypes, NEW d \in Domains, DomainChanges(d)
    PROVE  /\ \A r \in Requests :
                /\ Same(r)
                /\ was'[r] = IF stage[r] = "identity" THEN was[r] \cup Facts' ELSE was[r]
           /\ UNCHANGED <<stage, op, ident, err, status, call, todo, handle, report, present>>
           /\ was' = [r \in Requests |->
                        IF stage[r] = "identity" THEN was[r] \cup Facts' ELSE was[r]]
<1>1. UNCHANGED <<stage, op, ident, err, status>>
  BY DEF DomainChanges, VirshActs, GuestPowersOff, requestVars
<1>2. /\ UNCHANGED <<present, call, todo, handle, report>>
      /\ was' = [r \in Requests |->
                   IF stage[r] = "identity" THEN was[r] \cup Facts' ELSE was[r]]
  BY DEF DomainChanges
<1> QED BY <1>1, <1>2 DEF Same

(* Unplugging a device changes no request and no domain.                   *)
LEMMA UnplugSeen ==
    ASSUME NEW d \in Domains, Unplug(d)
    PROVE  /\ \A r \in Requests : Same(r) /\ was'[r] = was[r]
           /\ UNCHANGED <<stage, op, ident, err, status, call, todo, handle, report, was>>
           /\ UNCHANGED <<life, power, runID>>
           /\ \E x \in present[d] : present' = [present EXCEPT ![d] = @ \ {x}]
  BY DEF Unplug, Same, requestVars, readVars, domainVars

(* A stuttering step.                                                      *)
LEMMA StutterSeen ==
    ASSUME UNCHANGED queryVars
    PROVE  /\ \A r \in Requests : Same(r) /\ was'[r] = was[r]
           /\ UNCHANGED <<stage, op, ident, err, status, call, todo, handle, report, was>>
           /\ UNCHANGED <<life, power, runID, present>>
  BY DEF queryVars, Same, requestVars, readVars, libvirtdVars, domainVars

(* A step is that of a request, of libvirtd, or none.                      *)
LEMMA StepCases ==
    ASSUME [QueriesNext]_queryVars
    PROVE  \/ \E r \in Requests : OwnStep(r)
           \/ \E d \in Domains : DomainChanges(d)
           \/ \E d \in Domains : Unplug(d)
           \/ UNCHANGED queryVars
  BY Zenon DEF QueriesNext, OwnStep

(* The invariant holds at first,                                           *)
LEMMA ReaderInit == QueriesInit => ReaderInv
<1> SUFFICES ASSUME QueriesInit PROVE ReaderInv OBVIOUS
<1>1. WorldInv
  <2>1. /\ life \in [Domains -> Lifetimes] /\ power \in [Domains -> PowerStates]
        /\ runID = [d \in Domains |-> 1] /\ present = [d \in Domains |-> Devices]
    BY DEF QueriesInit, ActionsInit, PowerStates
  <2>2. 1 \in 1 .. MaxStarts /\ Lifetimes \subseteq {"persistent", "transient"}
    BY QueriesAssumption
  <2> QED BY <2>1, <2>2 DEF WorldInv
<1>2. RequestTypes
  <2>1. /\ stage = [r \in Requests |-> "new"] /\ op = [r \in Requests |-> Nothing]
        /\ ident = [r \in Requests |-> Nothing] /\ err = [r \in Requests |-> "none"]
        /\ status = [r \in Requests |-> Nothing] /\ call = [r \in Requests |-> Return]
        /\ todo = [r \in Requests |-> {}]
    BY DEF QueriesInit, ActionsInit
  <2>2. /\ handle = [r \in Requests |-> [d \in Domains |-> MaxUint]]
        /\ report = [r \in Requests |-> <<>>] /\ was = [r \in Requests |-> {}]
        /\ MaxUint \in Int
    BY QueriesAssumption DEF QueriesInit
  <2> QED BY <2>1, <2>2 DEF RequestTypes
<1>3. ASSUME NEW r \in Requests PROVE ReadsRight(r)
  <2>1. /\ stage[r] = "new" /\ err[r] = "none" /\ todo[r] = {} /\ report[r] = <<>>
    BY DEF QueriesInit, ActionsInit
  <2> QED BY <2>1
          DEF ReadsRight, CourseInv, KnownInv, BackedInv, Opened, Looking, Answered200
<1> QED BY <1>1, <1>2, <1>3 DEF ReaderInv, ReadsRight

(* and every step keeps it.                                                *)
LEMMA ReaderStep == ReaderInv /\ [QueriesNext]_queryVars => ReaderInv'
<1> SUFFICES ASSUME ReaderInv, [QueriesNext]_queryVars PROVE ReaderInv' OBVIOUS
<1>1. WorldInv /\ RequestTypes /\ \A r \in Requests : ReadsRight(r)
  BY DEF ReaderInv, ReadsRight
<1>2. ASSUME NEW r \in Requests, OwnStep(r) PROVE ReaderInv'
  <2>1. RequestTypes' /\ Alone(r) /\ ReadsRight(r)' /\ UNCHANGED libvirtdVars
    BY <1>1, <1>2, OwnStepKeeps
  <2>2. WorldInv' BY <1>1, <2>1 DEF WorldInv, libvirtdVars, domainVars
  <2>3. ASSUME NEW q \in Requests, q # r PROVE ReadsRight(q)'
    <3>1. Same(q) /\ was'[q] = was[q] BY <2>1, <2>3 DEF Alone
    <3>2. UNCHANGED <<life, power, runID>> BY <2>1 DEF libvirtdVars, domainVars
    <3> QED BY <1>1, <3>1, <3>2, OthersStep
  <2> QED BY <2>1, <2>2, <2>3 DEF ReaderInv, ReadsRight
<1>3. ASSUME NEW d \in Domains, DomainChanges(d) PROVE ReaderInv'
  <2>1. WorldInv' /\ \A x \in Domains : life[x] = "gone" => life'[x] = "gone"
    BY <1>1, <1>3, ChangesKeepWorld
  <2>2. RequestTypes'
    <3>1. Facts' \subseteq AllFacts
      <4>1. \A x \in Domains : Fact(x)' \in AllFacts
        <5>1. SUFFICES ASSUME NEW x \in Domains PROVE Fact(x)' \in AllFacts OBVIOUS
        <5>2. power'[x] \in PowerStates /\ runID'[x] \in 1 .. MaxStarts BY <2>1 DEF WorldInv
        <5>3. runID'[x] \in Int /\ runID'[x] # -1 BY <5>2, QueriesAssumption
        <5> QED BY <5>2, <5>3 DEF Fact, AllFacts, Active
      <4> QED BY <4>1 DEF Facts
    <3>2. /\ UNCHANGED <<stage, op, ident, err, status, call, todo, handle, report>>
          /\ was' = [r \in Requests |->
                       IF stage[r] = "identity" THEN was[r] \cup Facts' ELSE was[r]]
      BY <1>1, <1>3, ChangesSeen
    <3> QED BY <1>1, <3>1, <3>2 DEF RequestTypes
  <2>3. ASSUME NEW r \in Requests PROVE ReadsRight(r)'
    BY <1>1, <1>3, <2>1, ChangesSeen, ChangeSeen
  <2> QED BY <2>1, <2>2, <2>3 DEF ReaderInv, ReadsRight
<1>4. ASSUME NEW d \in Domains, Unplug(d) PROVE ReaderInv'
  <2>1. WorldInv' BY <1>1, <1>4, UnplugSeen DEF WorldInv
  <2>2. RequestTypes' BY <1>1, <1>4, UnplugSeen DEF RequestTypes
  <2>3. ASSUME NEW r \in Requests PROVE ReadsRight(r)'
    BY <1>1, <1>4, UnplugSeen, OthersStep
  <2> QED BY <2>1, <2>2, <2>3 DEF ReaderInv, ReadsRight
<1>5. CASE UNCHANGED queryVars
  <2>1. WorldInv' BY <1>1, <1>5, StutterSeen DEF WorldInv
  <2>2. RequestTypes' BY <1>1, <1>5, StutterSeen DEF RequestTypes
  <2>3. ASSUME NEW r \in Requests PROVE ReadsRight(r)'
    BY <1>1, <1>5, StutterSeen, OthersStep
  <2> QED BY <2>1, <2>2, <2>3 DEF ReaderInv, ReadsRight
<1> QED BY <1>2, <1>3, <1>4, <1>5, StepCases

(* ReaderInv holds in every state of every query: what has been read, what *)
(* is known of the domains and where each request is fit together.         *)
THEOREM ReadersFollowTheirCourse == QueriesSpec => []ReaderInv
  BY ReaderInit, ReaderStep, PTL DEF QueriesSpec

(* Everything a successful answer of ListDomains, Domain, DomainStats or   *)
(* Viewer says of a domain was true at some moment after the lookup,       *)
(* however many domains change however often in between.                   *)
THEOREM AnswersWereTrue == QueriesSpec => []EachFieldWasTrue
<1>1. ReaderInv => EachFieldWasTrue
  <2>1. SUFFICES ASSUME ReaderInv, NEW r \in Requests, NEW i \in DOMAIN report[r]
                 PROVE  LET x == report[r][i]
                            facts == {f \in was[r] : f.dom = x.dom}
                        IN  /\ x.state = Nothing \/ \E f \in facts : f.power = x.state
                            /\ x.active # Nothing =>
                                 \E f \in facts : x.active = (f.power # "shutoff")
                            /\ x.code # Nothing => \E f \in facts : StateName(x.code) = f.power
                            /\ x.id # -1 => \E f \in facts : f.id = x.id
                            /\ x.port # Nothing => \E f \in facts : f.id = x.port
    BY DEF EachFieldWasTrue, Reports
  <2>2. Backed(report[r][i], was[r]) BY <2>1 DEF ReaderInv, BackedInv
  <2> QED BY <2>2 DEF Backed
<1> QED BY <1>1, ReadersFollowTheirCourse, PTL
-----------------------------------------------------------------------------
(***************************************************************************)
(* The parts of an answer agree when nothing changed.                      *)
(***************************************************************************)

(* A step that leaves a request alone leaves its answer exact.             *)
LEMMA ExactUnchanged ==
    ASSUME NEW r \in Requests, ExactInv(r), Same(r), was'[r] = was[r] PROVE ExactInv(r)'
  BY DEF ExactInv, Same, Undisturbed, Answered200, AgreesSoFar

(* If a request is still undisturbed after a change, the change was of no  *)
(* domain it knows.                                                        *)
LEMMA ExactSeen ==
    ASSUME NEW r \in Requests, ExactInv(r), KnownInv(r), Same(r), was[r] \subseteq was'[r]
    PROVE  ExactInv(r)'
<1> SUFFICES ASSUME op'[r] \in Lists \cup {"domain"}, Undisturbed(r)',
                    stage'[r] = "identity" \/ Answered200(r)',
                    NEW i \in DOMAIN report'[r], NEW f \in was'[r],
                    f.dom = report'[r][i].dom
             PROVE  AgreesSoFar(r, i, f)'
  BY DEF ExactInv
<1>1. PICK g \in was[r] : g.dom = report[r][i].dom BY DEF KnownInv, Known, Same
<1>2. f = g BY <1>1 DEF Undisturbed, Same
<1>3. Undisturbed(r) BY DEF Undisturbed
<1>4. AgreesSoFar(r, i, g) BY <1>1, <1>3 DEF ExactInv, Same, Answered200
<1> QED BY <1>2, <1>4 DEF AgreesSoFar, Same

(* The name of the call a summary comes to.                                *)
LEMMA SummaryGoesOn ==
    ASSUME WorldInv, RequestTypes, NEW r \in Requests, ReadsRight(r), Succeeds(r),
           op[r] \in Lists \cup {"domain"}
    PROVE  LET n == call[r].call
               m == call'[r].call
           IN  /\ n \in LastCalls \cup {"listDomains", "identity"}
               /\ n = "listDomains" => m \in {"identity", "return"}
               /\ n = "identity" => m = "state"
               /\ n = "state" => m = "active"
               /\ n = "active" /\ Active(call[r].on) => m = "id"
               /\ n = "active" /\ ~Active(call[r].on) => m \in {"info", "identity", "return"}
               /\ n = "id" => m \in {"info", "identity", "return"}
               /\ n = "info" => m = "return"
<1> DEFINE c == call[r]
           next == Following(op[r], c)
           turns == Turns(r, c)
<1>1. /\ CourseInv(r) /\ stage[r] = "identity" /\ c # Return
      /\ op[r] \in Queries /\ c.call \in CallsOf(op[r])
  BY DEF ReadsRight, Succeeds, CourseInv, CallInv
<1>2. \/ next # "next" /\ call'[r] = Call(next, c.on)
      \/ next = "next" /\ call'[r] = Return
      \/ next = "next" /\ call'[r] \in turns
  BY SuccessEffect
<1>3. /\ op[r] \in Lists => turns \subseteq {Call("identity", d) : d \in Domains}
      /\ op[r] = "domain" => turns = {}
  BY <1>1, TurnsTyped DEF Lists
<1>4. /\ c.call \in LastCalls \cup {"listDomains", "identity"}
      /\ c.call = "listDomains" => next = "next"
      /\ c.call = "identity" => next = "state"
      /\ c.call = "state" => next = "active"
      /\ c.call = "active" /\ Active(c.on) => next = "id"
      /\ c.call = "active" /\ ~Active(c.on) => next \in {"next", "info"}
      /\ c.call = "id" => next \in {"next", "info"}
      /\ c.call = "info" => next = "next" /\ op[r] = "domain"
  BY <1>1, SummaryTable DEF Following, AsksID, LastCalls
<1> HIDE DEF c, next, turns
<1>5. /\ next # "next" => call'[r].call = next
      /\ next = "next" => call'[r].call \in {"identity", "return"}
      /\ next = "next" /\ op[r] = "domain" => call'[r].call = "return"
  BY <1>2, <1>3 DEF Call, Return
<1> QED BY <1>4, <1>5 DEF c

(* A call that succeeds keeps the answer exact.                            *)
LEMMA ExactSuccess ==
    ASSUME WorldInv, RequestTypes, NEW r \in Requests, ReadsRight(r), ExactInv(r), Succeeds(r)
    PROVE  ExactInv(r)'
<1> SUFFICES ASSUME op'[r] \in Lists \cup {"domain"}, Undisturbed(r)',
                    NEW i \in DOMAIN report'[r], NEW f \in was'[r],
                    f.dom = report'[r][i].dom
             PROVE  AgreesSoFar(r, i, f)'
  BY DEF ExactInv
<1> DEFINE c == call[r]
           d == c.on
           n == Len(report[r])
           last == report[r][n]
           x == report'[r][i]
           m == call'[r].call
<1>1. op'[r] = op[r] /\ stage[r] = "identity" /\ op[r] \in Lists \cup {"domain"}
  BY SuccessEffect DEF Succeeds
<1>2. /\ c.call \in LastCalls \cup {"listDomains", "identity"}
      /\ c.call = "identity" => m = "state"
      /\ c.call = "state" => m = "active"
      /\ c.call = "active" /\ Active(d) => m = "id"
      /\ c.call = "active" /\ ~Active(d) => m \in {"info", "identity", "return"}
      /\ c.call = "id" => m \in {"info", "identity", "return"}
      /\ c.call = "info" => m = "return"
  BY <1>1, SummaryGoesOn
<1>3. CASE c.call = "listDomains"
  <2>1. report'[r] = report[r] BY <1>3, EntryStep DEF LastCalls
  <2>2. report[r] = <<>> BY <1>1, <1>3 DEF ReadsRight, CourseInv
  <2> QED BY <2>1, <2>2
<1>4. ASSUME c.call # "listDomains"
      PROVE  /\ was'[r] = was[r] /\ Undisturbed(r)
             /\ \A j \in DOMAIN report[r] : \A g \in was[r] :
                  g.dom = report[r][j].dom => AgreesSoFar(r, j, g)
  <2>1. was'[r] = was[r] BY <1>4, SuccessEffect
  <2>2. Undisturbed(r) BY <2>1 DEF Undisturbed
  <2> QED BY <1>1, <2>1, <2>2 DEF ExactInv
<1>5. CASE c.call = "identity"
  <2>1. /\ DOMAIN report'[r] = 1 .. n + 1 /\ n \in Nat /\ DOMAIN report[r] = 1 .. n
        /\ \A j \in 1 .. n : report'[r][j] = report[r][j]
        /\ report'[r][n + 1] = Unread(d) /\ Len(report'[r]) = n + 1
    BY <1>5, EntryStep
  <2>2. CASE i = n + 1
    <3>1. x.id = -1 /\ x.code = Nothing BY <2>1, <2>2 DEF Unread
    <3> QED BY <1>2, <1>5, <2>1, <2>2, <3>1 DEF AgreesSoFar
  <2>3. CASE i # n + 1
    <3>1. i \in DOMAIN report[r] /\ x = report[r][i] /\ i # Len(report'[r]) BY <2>1, <2>3
    <3>2. AgreesSoFar(r, i, f) BY <1>4, <1>5, <3>1
    <3>3. /\ x.state = f.power /\ x.active = (f.power # "shutoff") /\ x.id = f.id
          /\ x.code = Nothing \/ StateName(x.code) = f.power
      BY <1>5, <3>1, <3>2 DEF AgreesSoFar
    <3> QED BY <3>1, <3>3 DEF AgreesSoFar
  <2> QED BY <2>2, <2>3
<1>6. CASE c.call \in LastCalls
  <2>1. /\ DOMAIN report'[r] = 1 .. n /\ n \in 1 .. n /\ DOMAIN report[r] = 1 .. n
        /\ Len(report'[r]) = n
        /\ \A j \in 1 .. n : j # n => report'[r][j] = report[r][j]
        /\ d \in Domains /\ last \in Entries /\ last.dom = d /\ report'[r][n].dom = d
        /\ c.call = "state" => report'[r][n] = [last EXCEPT !.state = power[d]]
        /\ c.call = "active" => report'[r][n] = [last EXCEPT !.active = Active(d)]
        /\ c.call = "id" => report'[r][n] = [last EXCEPT !.id = NormalizeDomainID(handle[r][d])]
        /\ c.call = "info" => report'[r][n] = [last EXCEPT !.code = StateCode(power[d])]
    BY <1>6, EntryStep
  <2>2. c.call # "listDomains" BY <1>6 DEF LastCalls
  <2>3. CASE i # n
    <3>1. i \in DOMAIN report[r] /\ x = report[r][i] /\ i # Len(report'[r]) /\ i # Len(report[r])
      BY <2>1, <2>3
    <3>2. AgreesSoFar(r, i, f) BY <1>4, <2>2, <3>1
    <3> QED BY <3>1, <3>2 DEF AgreesSoFar
  <2>4. CASE i = n
    <3>1. f \in was[r] /\ f.dom = d /\ f \in AllFacts
      BY <1>4, <2>1, <2>2, <2>4 DEF RequestTypes
    <3>2. AgreesSoFar(r, n, f) BY <1>4, <2>1, <2>2, <3>1
    <3>3. /\ c.call # "state" => last.state = f.power
          /\ c.call \in {"id", "info"} => last.active = (f.power # "shutoff")
          /\ c.call \in {"state", "active", "id"} => last.id = -1
          /\ c.call = "info" => last.id = f.id
          /\ c.call = "id" => f.power # "shutoff"
          /\ last.code = Nothing \/ StateName(last.code) = f.power
      BY <1>6, <2>1, <3>2 DEF AgreesSoFar, LastCalls
    <3>4. c.call # "id" => f.power = power[d] /\ (f.power = "shutoff" <=> ~Active(d))
      <4>1. SUFFICES ASSUME c.call # "id"
                     PROVE  f.power = power[d] /\ (f.power = "shutoff" <=> ~Active(d))
        OBVIOUS
      <4>2. Fact(d) \in was[r] /\ Fact(d).dom = d
        BY <1>6, <2>1, <4>1, MetInTime DEF LastCalls
      <4>3. f = Fact(d) BY <1>4, <2>2, <3>1, <4>2 DEF Undisturbed
      <4> QED BY <2>1, <4>3, FactsAreFacts
    <3>5. c.call = "id" => f.id = NormalizeDomainID(handle[r][d])
      <4>1. SUFFICES ASSUME c.call = "id" PROVE f.id = NormalizeDomainID(handle[r][d])
        OBVIOUS
      <4>2. Opened(r) /\ KnownInv(r)
        BY <1>1, <4>1 DEF Opened, ReadsRight, Lists, HostQueries
      <4>3. PICK g \in was[r] : g.dom = d /\ g.id = NormalizeDomainID(handle[r][d])
        BY <2>1, <3>1, <4>2 DEF KnownInv, Known
      <4> QED BY <1>4, <2>2, <3>1, <4>3 DEF Undisturbed
    <3>6. f.power = "shutoff" => f.id = -1 BY <3>1 DEF AllFacts
    <3>7. i = Len(report'[r]) BY <2>1, <2>4
    <3>8. c.call = "info" => StateName(StateCode(power[d])) = power[d]
      BY <2>1, StateNamed DEF WorldInv
    <3> HIDE DEF c, d, last, n, m
    <3>9. CASE c.call = "state"
      <4>1. /\ x.state = power[d] /\ x.id = last.id /\ x.code = last.code
        BY <2>1, <2>4, <3>9 DEF Entries
      <4> QED BY <1>2, <3>3, <3>4, <3>7, <3>9, <4>1 DEF AgreesSoFar, m
    <3>10. CASE c.call = "active"
      <4>1. /\ x.state = last.state /\ x.active = Active(d) /\ x.id = last.id
            /\ x.code = last.code
        BY <2>1, <2>4, <3>10 DEF Entries
      <4>2. CASE Active(d)
        BY <1>2, <3>3, <3>4, <3>7, <3>10, <4>1, <4>2 DEF AgreesSoFar, m
      <4>3. CASE ~Active(d)
        <5>1. m \notin {"state", "active", "id"} /\ x.id = f.id /\ x.active = FALSE
          BY <1>2, <3>3, <3>4, <3>6, <3>10, <4>1, <4>3
        <5> QED BY <3>3, <3>4, <3>7, <3>10, <4>1, <4>3, <5>1 DEF AgreesSoFar, m
      <4> QED BY <4>2, <4>3
    <3>11. CASE c.call = "id"
      <4>1. /\ x.state = last.state /\ x.active = last.active /\ x.code = last.code
            /\ x.id = NormalizeDomainID(handle[r][d])
        BY <2>1, <2>4, <3>11 DEF Entries
      <4>2. m \notin {"state", "active", "id"} BY <1>2, <3>11
      <4> QED BY <3>3, <3>5, <3>7, <3>11, <4>1, <4>2 DEF AgreesSoFar, m
    <3>12. CASE c.call = "info"
      <4>1. /\ x.state = last.state /\ x.active = last.active /\ x.id = last.id
            /\ x.code = StateCode(power[d])
        BY <2>1, <2>4, <3>12 DEF Entries
      <4> QED BY <1>2, <3>3, <3>4, <3>7, <3>8, <3>12, <4>1 DEF AgreesSoFar, m
    <3> QED BY <1>6, <3>9, <3>10, <3>11, <3>12 DEF LastCalls
  <2> QED BY <2>3, <2>4
<1> QED BY <1>2, <1>3, <1>5, <1>6

(* What a step of a request can be.                                        *)
LEMMA OwnCases ==
    ASSUME WorldInv, RequestTypes, NEW r \in Requests, ReadsRight(r), OwnStep(r)
    PROVE  \/ /\ stage[r] = "new" /\ stage'[r] \in {"byName", "identity"}
              /\ op'[r] \in Queries /\ report'[r] = <<>> /\ ~Opened(r)'
              /\ UNCHANGED <<err, status, was>>
           \/ LookupQuery(r)
           \/ /\ stage[r] = "identity" /\ stage'[r] = "answered" /\ status'[r] = "ok"
              /\ call[r] = Return /\ err'[r] = err[r] /\ UNCHANGED <<op, ident, readVars>>
           \/ /\ stage[r] = "identity" /\ stage'[r] = "answered" /\ call[r] # Return
              /\ UNCHANGED <<op, ident, readVars>>
              /\ \E e \in Answers(call[r]) :
                   e # "none" /\ status'[r] = QueryError(call[r], e) /\ err'[r] = e
           \/ /\ stage[r] = "identity" /\ stage'[r] = "answered" /\ call[r] # Return
              /\ UNCHANGED <<op, ident, readVars>>
              /\ Inactive(call[r]) /\ "none" \in Answers(call[r])
              /\ status'[r] = "409" /\ err'[r] = err[r]
           \/ Succeeds(r)
<1>1. ASSUME NEW o \in Operations \ HostQueries, NEW i \in Keys, ArriveQuery(r, o, i)
      PROVE  /\ stage[r] = "new" /\ stage'[r] \in {"byName", "identity"}
             /\ op'[r] \in Queries /\ report'[r] = <<>> /\ ~Opened(r)'
             /\ UNCHANGED <<err, status, was>>
  <2>1. /\ stage[r] = "new" /\ stage'[r] = "byName" /\ op'[r] = o
        /\ UNCHANGED <<err, status, was, report>>
    BY <1>1 DEF ArriveQuery, Arrive, Goes, RequestTypes
  <2> QED BY <2>1, QueriesAssumption DEF ReadsRight, CourseInv, Opened
<1>2. ASSUME NEW o \in Operations \cap HostQueries, ArriveHostQuery(r, o)
      PROVE  /\ stage[r] = "new" /\ stage'[r] \in {"byName", "identity"}
             /\ op'[r] \in Queries /\ report'[r] = <<>> /\ ~Opened(r)'
             /\ UNCHANGED <<err, status, was>>
  <2>1. /\ stage[r] = "new" /\ stage'[r] = "identity" /\ op'[r] = o
        /\ call'[r] = Call(Calls(o).start, Nothing)
        /\ UNCHANGED <<err, status, was, report>>
    BY <1>2 DEF ArriveHostQuery, Goes, RequestTypes
  <2>2. o \in Queries /\ o \in HostQueries BY DEF Queries
  <2>3. call'[r].call = Calls(o).start BY <2>1 DEF Call
  <2>4. ~Opened(r)' BY <2>1, <2>2, <2>3, StartCall DEF Opened
  <2> QED BY <2>1, <2>2, <2>4 DEF ReadsRight, CourseInv
<1>3. CASE AnswerQuery(r)
  BY <1>3 DEF AnswerQuery, Goes, Answer, RequestTypes
<1>4. CASE MakeCall(r)
  <2>1. CASE /\ Goes(r, "identity", "answered")
             /\ UNCHANGED <<op, ident, libvirtdVars, readVars>> /\ call[r] # Return
             /\ \E e \in Answers(call[r]) :
                  e # "none" /\ Answer(r, QueryError(call[r], e)) /\ Fails(r, e)
    <3>1. stage[r] = "identity" /\ stage'[r] = "answered" BY <2>1 DEF Goes, RequestTypes
    <3>2. PICK e \in Answers(call[r]) :
            e # "none" /\ Answer(r, QueryError(call[r], e)) /\ Fails(r, e)
      BY <2>1
    <3>3. status'[r] = QueryError(call[r], e) /\ err'[r] = e
      BY <3>2 DEF Answer, Fails, RequestTypes
    <3> QED BY <2>1, <3>1, <3>2, <3>3
  <2>2. CASE /\ Goes(r, "identity", "answered")
             /\ UNCHANGED <<op, ident, libvirtdVars, readVars>> /\ call[r] # Return
             /\ Inactive(call[r]) /\ "none" \in Answers(call[r])
             /\ Answer(r, "409") /\ UNCHANGED err
    BY <2>2 DEF Goes, Answer, RequestTypes
  <2> QED BY <1>4, <2>1, <2>2, CallOutcome
<1> QED BY <1>1, <1>2, <1>3, <1>4 DEF OwnStep

(* Every step of a request keeps its answer exact.                         *)
LEMMA ExactOwn ==
    ASSUME WorldInv, RequestTypes, NEW r \in Requests, ReadsRight(r), ExactInv(r), OwnStep(r)
    PROVE  ExactInv(r)'
<1>1. CASE report'[r] = <<>> BY <1>1 DEF ExactInv
<1>2. CASE LookupQuery(r)
  <2>1. report'[r] = <<>> BY <1>2, LookupEffect DEF ReadsRight, CourseInv, Looking
  <2> QED BY <1>1, <2>1
<1>3. CASE stage'[r] = "answered" /\ status'[r] # "ok"
  BY <1>3 DEF ExactInv, Answered200
<1>4. CASE /\ stage[r] = "identity" /\ stage'[r] = "answered"
           /\ UNCHANGED <<op, ident, readVars>>
  <2>1. UNCHANGED <<op, call, report, was>> BY <1>4 DEF readVars
  <2> QED BY <1>4, <2>1 DEF ExactInv, Undisturbed, AgreesSoFar
<1>5. CASE Succeeds(r) BY <1>5, ExactSuccess
<1> QED BY <1>1, <1>2, <1>4, <1>5, OwnCases

(* If no domain changed while a list or the description of a domain was    *)
(* read, then its state, state code, activity and ID belong together.      *)
THEOREM UndisturbedAnswersAgree == QueriesSpec => []UndisturbedIsExact
<1> DEFINE Exact == \A r \in Requests : ExactInv(r)
<1>1. QueriesInit => Exact
  <2>1. SUFFICES ASSUME QueriesInit, NEW r \in Requests PROVE ExactInv(r) OBVIOUS
  <2>2. report[r] = <<>> BY <2>1 DEF QueriesInit
  <2> QED BY <2>2 DEF ExactInv
<1>2. ReaderInv /\ Exact /\ [QueriesNext]_queryVars => Exact'
  <2>1. SUFFICES ASSUME ReaderInv, Exact, [QueriesNext]_queryVars, NEW q \in Requests
                 PROVE  ExactInv(q)'
    OBVIOUS
  <2>2. /\ WorldInv /\ RequestTypes /\ \A r \in Requests : ReadsRight(r)
        /\ ExactInv(q) /\ KnownInv(q)
    BY <2>1 DEF ReaderInv, ReadsRight
  <2>3. ASSUME NEW r \in Requests, OwnStep(r) PROVE ExactInv(q)'
    <3>1. CASE q = r BY <2>2, <2>3, <3>1, ExactOwn
    <3>2. CASE q # r
      <4>1. Same(q) /\ was'[q] = was[q] BY <2>2, <2>3, <3>2, OwnStepKeeps DEF Alone
      <4> QED BY <2>2, <4>1, ExactUnchanged
    <3> QED BY <3>1, <3>2
  <2>4. ASSUME NEW d \in Domains, DomainChanges(d) PROVE ExactInv(q)'
    <3>1. Same(q) /\ was[q] \subseteq was'[q] BY <2>2, <2>4, ChangesSeen
    <3> QED BY <2>2, <3>1, ExactSeen
  <2>5. ASSUME NEW d \in Domains, Unplug(d) PROVE ExactInv(q)'
    BY <2>2, <2>5, UnplugSeen, ExactUnchanged
  <2>6. CASE UNCHANGED queryVars BY <2>2, <2>6, StutterSeen, ExactUnchanged
  <2> QED BY <2>1, <2>3, <2>4, <2>5, <2>6, StepCases
<1>3. ReaderInv /\ Exact => UndisturbedIsExact
  <2>1. SUFFICES ASSUME ReaderInv, Exact, NEW r \in Requests, Answered200(r),
                        op[r] \in Lists \cup {"domain"}, Undisturbed(r),
                        NEW i \in DOMAIN report[r], NEW f \in was[r],
                        f.dom = report[r][i].dom
                 PROVE  LET x == report[r][i]
                        IN  /\ x.state = f.power /\ x.id = f.id
                            /\ x.active = (f.power # "shutoff")
                            /\ x.code = Nothing \/ StateName(x.code) = x.state
    BY DEF UndisturbedIsExact, Reports
  <2>2. AgreesSoFar(r, i, f) BY <2>1 DEF ExactInv
  <2>3. call[r] = Return BY <2>1 DEF ReaderInv, CourseInv
  <2>4. call[r].call \notin {"state", "active", "id"} BY <2>3 DEF Return, Call
  <2> QED BY <2>2, <2>4 DEF AgreesSoFar
<1> QED BY <1>1, <1>2, <1>3, ReadersFollowTheirCourse, PTL DEF QueriesSpec
-----------------------------------------------------------------------------
(***************************************************************************)
(* A list is complete.                                                     *)
(***************************************************************************)

(* A change brings no domain a request that has looked does not know: a    *)
(* domain that was gone stays gone.                                        *)
LEMMA NoNewDomains ==
    ASSUME WorldInv, NEW r \in Requests, KnownInv(r), Opened(r),
           \A x \in Domains : life[x] = "gone" => life'[x] = "gone",
           NEW d \in Domains, Known(was[r] \cup Facts', d)
    PROVE  Known(was[r], d)
<1>1. CASE \E f \in was[r] : f.dom = d BY <1>1 DEF Known
<1>2. CASE \E f \in Facts' : f.dom = d
  <2>1. life'[d] # "gone" BY <1>2 DEF Facts, Fact
  <2>2. Fact(d) \in Facts /\ Fact(d).dom = d BY <2>1, FactsAreFacts
  <2> QED BY <2>2 DEF KnownInv, Known
<1> QED BY <1>1, <1>2 DEF Known

(* A step that leaves a request alone keeps its list complete.             *)
LEMMA ListUnchanged ==
    ASSUME NEW r \in Requests, ListInv(r), ListRefusedInv(r), Same(r), was'[r] = was[r],
           \A x \in Domains : life[x] = "gone" => life'[x] = "gone"
    PROVE  ListInv(r)' /\ ListRefusedInv(r)'
<1>1. Shown(r)' = Shown(r) /\ Ahead(r)' = Ahead(r) BY DEF Shown, Ahead, Same
<1>2. ListInv(r)' BY <1>1 DEF ListInv, Same, Opened, Answered200
<1>3. ListRefusedInv(r)' BY DEF ListRefusedInv, Same
<1> QED BY <1>2, <1>3

(* A change of a domain keeps the lists complete.                          *)
LEMMA ListSeen ==
    ASSUME WorldInv, NEW r \in Requests, KnownInv(r), ListInv(r), ListRefusedInv(r), Same(r),
           was'[r] = IF stage[r] = "identity" THEN was[r] \cup Facts' ELSE was[r],
           \A x \in Domains : life[x] = "gone" => life'[x] = "gone"
    PROVE  ListInv(r)' /\ ListRefusedInv(r)'
<1>1. Shown(r)' = Shown(r) /\ Ahead(r)' = Ahead(r) BY DEF Shown, Ahead, Same
<1>2. CASE stage[r] # "identity" BY <1>2, ListUnchanged
<1>3. CASE stage[r] = "identity"
  <2>1. ListRefusedInv(r)' BY <1>3 DEF ListRefusedInv, Same
  <2>2. ASSUME op'[r] \in Lists, Opened(r)' \/ Answered200(r)'
        PROVE  /\ \A i, j \in DOMAIN report'[r] : report'[r][i].dom = report'[r][j].dom => i = j
               /\ Shown(r)' \cap Ahead(r)' = {}
               /\ call'[r] \notin todo'[r]
               /\ \A d \in Shown(r)' \cup Ahead(r)' :
                    \E f \in was'[r] : f.dom = d /\ Matches(op'[r], f)
               /\ \A d \in Domains :
                    (Known(was'[r], d) /\ \A f \in was'[r] : f.dom = d => Matches(op'[r], f))
                       => d \in Shown(r)' \cup Ahead(r)'
    <3>1. op[r] \in Lists /\ Opened(r) BY <1>3, <2>2 DEF Same, Opened, Answered200
    <3>2. /\ \A i, j \in DOMAIN report[r] : report[r][i].dom = report[r][j].dom => i = j
          /\ Shown(r) \cap Ahead(r) = {}
          /\ call[r] \notin todo[r]
          /\ \A d \in Shown(r) \cup Ahead(r) : \E f \in was[r] : f.dom = d /\ Matches(op[r], f)
          /\ \A d \in Domains :
               (Known(was[r], d) /\ \A f \in was[r] : f.dom = d => Matches(op[r], f))
                  => d \in Shown(r) \cup Ahead(r)
      BY <3>1 DEF ListInv
    <3>3. \A d \in Domains : Known(was'[r], d) => Known(was[r], d)
      BY <1>3, <3>1, NoNewDomains
    <3>4. was[r] \subseteq was'[r] BY <1>3
    <3> QED BY <1>1, <3>2, <3>3, <3>4 DEF Same
  <2> QED BY <2>1, <2>2 DEF ListInv
<1> QED BY <1>2, <1>3

(* A domain the filter selects is one whose present state matches.         *)
LEMMA FilteredMatches ==
    ASSUME WorldInv, NEW o, NEW d \in Domains
    PROVE  d \in Filtered(o) <=> life[d] # "gone" /\ Matches(o, Fact(d))
  BY FactsAreFacts DEF Filtered, Matches

(* ListAllDomains: what is to be shown is what the filter selects.         *)
LEMMA ListBegins ==
    ASSUME WorldInv, RequestTypes, NEW r \in Requests, ReadsRight(r), Succeeds(r),
           call[r].call = "listDomains"
    PROVE  ListInv(r)'
<1> DEFINE turns == Turns(r, call[r])
<1>1. /\ CourseInv(r) /\ stage[r] = "identity" /\ call[r] # Return
      /\ op[r] \in Queries /\ call[r].call \in CallsOf(op[r])
  BY DEF ReadsRight, Succeeds, CourseInv, CallInv
<1>2. /\ op[r] \in Lists /\ Following(op[r], call[r]) = "next"
      /\ turns = {Call("identity", d) : d \in Filtered(op[r])}
  BY <1>1, FollowTable, TurnsTyped
<1>3. /\ was'[r] = Facts /\ op'[r] = op[r]
      /\ \/ turns = {} /\ call'[r] = Return /\ todo'[r] = {}
         \/ call'[r] \in turns /\ todo'[r] = turns \ {call'[r]}
  BY <1>2, SuccessEffect DEF RequestTypes
<1>4. report'[r] = <<>>
  <2>1. report'[r] = report[r] BY EntryStep DEF LastCalls
  <2> QED BY <1>1, <2>1 DEF CourseInv
<1>5. Shown(r)' = {} BY <1>4 DEF Shown
<1>6. \A d : Call("identity", d).on = d /\ Call("identity", d).call = "identity" BY DEF Call
<1>7. Ahead(r)' = Filtered(op[r])
  <2> HIDE DEF turns
  <2>1. {x.on : x \in turns} = Filtered(op[r]) BY <1>2, <1>6
  <2>2. CASE turns = {} /\ call'[r] = Return /\ todo'[r] = {}
    BY <2>1, <2>2 DEF Ahead, Return, Call
  <2>3. CASE call'[r] \in turns /\ todo'[r] = turns \ {call'[r]}
    <3>1. call'[r].call = "identity" BY <1>2, <1>6, <2>3
    <3>2. Ahead(r)' = {x.on : x \in turns \ {call'[r]}} \cup {call'[r].on}
      BY <2>3, <3>1 DEF Ahead
    <3>3. @ = {x.on : x \in turns} BY <2>3
    <3> QED BY <2>1, <3>2, <3>3
  <2> QED BY <1>3, <2>2, <2>3
<1>8. call'[r] \notin todo'[r] BY <1>3
<1>9. \A d \in Filtered(op[r]) : \E f \in Facts : f.dom = d /\ Matches(op[r], f)
  BY FilteredMatches, FactsAreFacts DEF Filtered
<1>10. ASSUME NEW d \in Domains, Known(Facts, d),
              \A f \in Facts : f.dom = d => Matches(op[r], f)
       PROVE  d \in Filtered(op[r])
  <2>1. life[d] # "gone" BY <1>10, FactsAreFacts DEF Known
  <2>2. Fact(d) \in Facts /\ Fact(d).dom = d BY <2>1, FactsAreFacts
  <2> QED BY <1>10, <2>1, <2>2, FilteredMatches
<1> QED BY <1>3, <1>4, <1>5, <1>7, <1>8, <1>9, <1>10 DEF ListInv

(* A call of a domainSummary moves a domain from ahead to shown, or        *)
(* neither set changes.                                                    *)
LEMMA ListGoesOn ==
    ASSUME WorldInv, RequestTypes, NEW r \in Requests, ReadsRight(r), Succeeds(r),
           ListInv(r), call[r].call # "listDomains"
    PROVE  ListInv(r)'
<1> DEFINE c == call[r]
           n == Len(report[r])
<1>1. SUFFICES ASSUME op[r] \in Lists PROVE ListInv(r)'
  <2>1. op'[r] = op[r] BY SuccessEffect
  <2> QED BY <2>1 DEF ListInv
<1>2. /\ CourseInv(r) /\ stage[r] = "identity" /\ c # Return /\ CallInv(r) /\ TurnsInv(r)
      /\ op[r] \in Queries /\ c.call \in CallsOf(op[r])
  BY DEF ReadsRight, Succeeds, CourseInv, CallInv
<1>3. Opened(r) BY <1>1, <1>2 DEF Opened
<1>4. /\ \A i, j \in DOMAIN report[r] : report[r][i].dom = report[r][j].dom => i = j
      /\ Shown(r) \cap Ahead(r) = {}
      /\ c \notin todo[r]
      /\ \A d \in Shown(r) \cup Ahead(r) : \E f \in was[r] : f.dom = d /\ Matches(op[r], f)
      /\ \A d \in Domains :
           (Known(was[r], d) /\ \A f \in was[r] : f.dom = d => Matches(op[r], f))
              => d \in Shown(r) \cup Ahead(r)
  BY <1>1, <1>3 DEF ListInv
<1>5. /\ was'[r] = was[r] /\ op'[r] = op[r]
      /\ Turns(r, c) = todo[r]
  <2>1. was'[r] = was[r] /\ op'[r] = op[r] BY SuccessEffect
  <2>2. c.call # "targets" BY <1>1, <1>2, FollowTable DEF Lists
  <2>3. Turns(r, c) = todo[r] BY <1>2, <2>2, TurnsTyped
  <2> QED BY <2>1, <2>3
<1>6. \/ /\ call'[r].call # "identity" /\ call'[r].call # "listDomains" /\ todo'[r] = todo[r]
      \/ c.call # "identity" /\ todo[r] = {} /\ call'[r] = Return /\ todo'[r] = {}
      \/ c.call # "identity" /\ call'[r] \in todo[r] /\ todo'[r] = todo[r] \ {call'[r]}
  <2>1. c.call = "identity" => Following(op[r], c) = "state"
    BY <1>1, SummaryTable DEF Following, AsksID
  <2>2. Following(op[r], c) \notin {"identity", "listDomains"} BY <1>2, FollowTable
  <2>3. Call(Following(op[r], c), c.on).call = Following(op[r], c) BY DEF Call
  <2> QED BY <1>5, <2>1, <2>2, <2>3, SuccessEffect
<1>7. \A x \in todo[r] : \E d \in Domains : x = Call("identity", d)
  BY <1>1, <1>2 DEF TurnsInv
<1>8. \A d : Call("identity", d).on = d /\ Call("identity", d).call = "identity" BY DEF Call
<1>9. {x.on : x \in todo[r]} = Ahead(r)'
  <2>1. CASE call'[r].call # "identity" /\ todo'[r] = todo[r] BY <2>1 DEF Ahead
  <2>2. CASE todo[r] = {} /\ call'[r] = Return /\ todo'[r] = {}
    BY <2>2 DEF Ahead, Return, Call
  <2>3. CASE call'[r] \in todo[r] /\ todo'[r] = todo[r] \ {call'[r]}
    <3>1. call'[r].call = "identity" BY <1>7, <1>8, <2>3
    <3>2. Ahead(r)' = {x.on : x \in todo[r] \ {call'[r]}} \cup {call'[r].on}
      BY <2>3, <3>1 DEF Ahead
    <3> QED BY <2>3, <3>2
  <2> QED BY <1>6, <2>1, <2>2, <2>3
<1>10. call'[r] \notin todo'[r]
  <2>1. \A x \in todo[r] : x.call = "identity" BY <1>7, <1>8
  <2> QED BY <1>6, <2>1
<1>11. CASE c.call = "identity"
  <2>1. /\ DOMAIN report'[r] = 1 .. n + 1 /\ n \in Nat /\ DOMAIN report[r] = 1 .. n
        /\ \A i \in 1 .. n : report'[r][i] = report[r][i]
        /\ report'[r][n + 1].dom = c.on
    BY <1>11, EntryStep
  <2>2. Ahead(r) = {x.on : x \in todo[r]} \cup {c.on} BY <1>11 DEF Ahead
  <2>3. c.on \notin {x.on : x \in todo[r]}
    <3>1. c = Call("identity", c.on) BY <1>2, <1>11 DEF CallInv
    <3> HIDE DEF c
    <3> QED BY <1>4, <1>7, <1>8, <3>1
  <2>4. Shown(r)' = Shown(r) \cup {c.on}
    <3>1. ASSUME NEW i \in 1 .. n + 1 PROVE report'[r][i].dom \in Shown(r) \cup {c.on}
      BY <2>1 DEF Shown
    <3>2. ASSUME NEW i \in 1 .. n PROVE report[r][i].dom \in {report'[r][j].dom : j \in 1 .. n + 1}
      BY <2>1
    <3>3. c.on \in {report'[r][j].dom : j \in 1 .. n + 1} BY <2>1
    <3> QED BY <2>1, <3>1, <3>2, <3>3 DEF Shown
  <2>5. \A i \in 1 .. n : report[r][i].dom \in Shown(r) BY <2>1 DEF Shown
  <2>6. \A i, j \in DOMAIN report'[r] : report'[r][i].dom = report'[r][j].dom => i = j
    <3>1. c.on \notin Shown(r) BY <1>4, <2>2
    <3> HIDE DEF c, n
    <3> QED BY <1>4, <2>1, <2>5, <3>1
  <2>7. Shown(r)' \cap Ahead(r)' = {} BY <1>4, <1>9, <2>2, <2>3, <2>4
  <2>8. Shown(r)' \cup Ahead(r)' = Shown(r) \cup Ahead(r) BY <1>9, <2>2, <2>4
  <2> QED BY <1>4, <1>5, <1>10, <2>6, <2>7, <2>8 DEF ListInv
<1>12. CASE c.call # "identity"
  <2>1. Ahead(r)' = Ahead(r) BY <1>9, <1>12 DEF Ahead
  <2>2. /\ DOMAIN report'[r] = DOMAIN report[r]
        /\ \A i \in DOMAIN report[r] : report'[r][i].dom = report[r][i].dom
    <3>1. c.call \in LastCalls
      BY <1>1, <1>2, <1>12, SummaryTable DEF LastCalls, Lists
    <3>2. /\ DOMAIN report'[r] = 1 .. n /\ DOMAIN report[r] = 1 .. n
          /\ \A i \in 1 .. n : i # n => report'[r][i] = report[r][i]
          /\ report'[r][n].dom = c.on /\ report[r][n].dom = c.on
      BY <3>1, EntryStep
    <3> QED BY <3>2
  <2>3. Shown(r)' = Shown(r) BY <2>2 DEF Shown
  <2>4. \A i, j \in DOMAIN report'[r] : report'[r][i].dom = report'[r][j].dom => i = j
    BY <1>4, <2>2
  <2> QED BY <1>4, <1>5, <1>10, <2>1, <2>3, <2>4 DEF ListInv
<1> QED BY <1>11, <1>12

(* Without faults of libvirt, a call fails only because its domain is gone *)
(* or not running, its device is gone, or nobody can give the addresses.   *)
LEMMA FailureMet ==
    ASSUME WorldInv, NEW r \in Requests, ReadsRight(r), stage[r] = "identity",
           call[r] # Return, "faults" \notin Environment,
           NEW e \in Answers(call[r]), e # "none"
    PROVE  LET d == call[r].on
           IN  /\ d \in Domains /\ Opened(r) /\ Known(was[r], d)
               /\ op[r] \in Lists => life[d] = "gone"
               /\ life[d] = "gone" \/ call[r].call \notin {"identity", "running"}
               /\ e \in Unavailable => call[r].call = "addresses" /\ op[r] = "interfaces"
               /\ e \notin Unavailable =>
                    \/ life[d] = "gone"
                    \/ /\ life[d] # "gone" /\ ~Active(d)
                       /\ op[r] \in {"stats", "interfaces"}
                    \/ op[r] = "stats" /\ present[d] # Devices
<1> DEFINE c == call[r]
           d == c.on
           n == c.call
<1>1. /\ CourseInv(r) /\ CallInv(r) /\ op[r] \in Queries /\ n \in CallsOf(op[r])
  BY DEF ReadsRight, CourseInv, CallInv
<1>2. /\ n = "listDomains" => op[r] \in Lists
      /\ n \in {"device", "cpu", "memory"} => op[r] = "stats"
      /\ n = "addresses" => op[r] = "interfaces"
  BY <1>1, FollowTable
<1>3. \/ e \in Unavailable /\ n = "addresses"
      \/ d # Nothing /\ life[d] = "gone"
      \/ /\ d # Nothing /\ n \in {"cpu", "memory", "device", "addresses"}
         /\ life[d] # "gone" /\ ~Active(d)
      \/ d # Nothing /\ n = "device" /\ (c.of \notin present[d] \/ c.of.kind = "cdrom")
  BY DEF Answers
<1>4. d # Nothing \/ op[r] = "interfaces" BY <1>2, <1>3
<1>5. op[r] \notin HostQueries \/ (op[r] \in Lists /\ n # "listDomains")
  BY <1>1, <1>4 DEF CallInv, HostQueries, Lists
<1>6. d \in Domains BY <1>1, <1>5, CallOnDomain
<1>7. Opened(r) BY <1>2, <1>5 DEF Opened, HostQueries
<1>8. Known(was[r], d) BY <1>7 DEF ReadsRight, KnownInv
<1>9. op[r] \in Lists => op[r] \notin {"stats", "interfaces"} BY DEF Lists
<1>10. n = "device" => c.of \in Devices /\ c.of.kind # "cdrom"
  <2>1. SUFFICES ASSUME n = "device" PROVE c.of \in Devices /\ c.of.kind # "cdrom" OBVIOUS
  <2>2. PICK x \in TargetsFromXML(Devices) : c = DeviceCall(DomOf(r), x)
    <3>1. n # "return" => c # Return BY DEF Return, Call
    <3> QED BY <1>1, <2>1, <3>1 DEF CallInv, DeviceCalls
  <2>3. c.of = x BY <2>2 DEF DeviceCall
  <2> QED BY <2>2, <2>3 DEF TargetsFromXML
<1>11. e \in Unavailable => n = "addresses"
  BY DEF Answers, Unavailable
<1>12. \/ e \in Unavailable /\ n = "addresses"
       \/ life[d] = "gone"
       \/ /\ n \in {"cpu", "memory", "device", "addresses"}
          /\ life[d] # "gone" /\ ~Active(d)
       \/ n = "device" /\ present[d] # Devices
  BY <1>3, <1>10
<1> HIDE DEF c, d, n
<1>13. /\ op[r] \in Lists => life[d] = "gone"
       /\ life[d] = "gone" \/ n \notin {"identity", "running"}
       /\ e \in Unavailable => n = "addresses" /\ op[r] = "interfaces"
       /\ e \notin Unavailable =>
            \/ life[d] = "gone"
            \/ life[d] # "gone" /\ ~Active(d) /\ op[r] \in {"stats", "interfaces"}
            \/ op[r] = "stats" /\ present[d] # Devices
  BY <1>2, <1>9, <1>11, <1>12
<1> QED BY <1>6, <1>7, <1>8, <1>13 DEF c, d, n

(* A step of a request keeps its list complete.                            *)
LEMMA ListOwn ==
    ASSUME WorldInv, RequestTypes, NEW r \in Requests, ReadsRight(r), ListInv(r), OwnStep(r),
           "faults" \notin Environment
    PROVE  ListInv(r)' /\ ListRefusedInv(r)'
<1>1. UNCHANGED life BY OwnStepKeeps DEF libvirtdVars, domainVars
<1>2. CASE stage'[r] \in {"byName", "identity"} /\ ~Opened(r)'
  BY <1>2 DEF ListInv, ListRefusedInv, Answered200
<1>3. CASE LookupQuery(r)
  <2>1. op'[r] \notin Lists
    BY <1>3, LookupEffect DEF ReadsRight, CourseInv, Looking, HostQueries
  <2> QED BY <2>1 DEF ListInv, ListRefusedInv
<1>4. CASE /\ stage[r] = "identity" /\ stage'[r] = "answered" /\ status'[r] = "ok"
           /\ call[r] = Return /\ UNCHANGED <<op, ident, readVars>>
  <2>1. UNCHANGED <<op, call, todo, report, was>> BY <1>4 DEF readVars
  <2>2. Opened(r) \/ op[r] \notin Lists BY <1>4 DEF Opened, Return, Call
  <2>3. Shown(r)' = Shown(r) /\ Ahead(r)' = Ahead(r) BY <2>1 DEF Shown, Ahead
  <2> QED BY <1>4, <2>1, <2>2, <2>3 DEF ListInv, ListRefusedInv
<1>5. CASE /\ stage[r] = "identity" /\ stage'[r] = "answered" /\ call[r] # Return
           /\ UNCHANGED <<op, ident, readVars>>
           /\ \E e \in Answers(call[r]) :
                e # "none" /\ status'[r] = QueryError(call[r], e) /\ err'[r] = e
  <2>1. PICK e \in Answers(call[r]) : e # "none" /\ status'[r] = QueryError(call[r], e)
    BY <1>5
  <2>2. status'[r] # "ok" BY <2>1 DEF QueryError
  <2>3. /\ call[r].on \in Domains /\ Known(was[r], call[r].on)
        /\ op[r] \in Lists => life[call[r].on] = "gone"
    BY <1>5, <2>1, FailureMet
  <2>4. UNCHANGED <<op, was>> BY <1>5 DEF readVars
  <2> QED BY <1>1, <1>5, <2>2, <2>3, <2>4
          DEF ListInv, ListRefusedInv, Answered200, Opened
<1>6. CASE /\ stage[r] = "identity" /\ stage'[r] = "answered" /\ call[r] # Return
           /\ UNCHANGED <<op, ident, readVars>> /\ Inactive(call[r])
  <2>1. op[r] = "stats"
    BY <1>6, FollowTable DEF Inactive, ReadsRight, CourseInv, CallInv
  <2>2. op'[r] \notin Lists BY <1>6, <2>1 DEF Lists
  <2> QED BY <2>2 DEF ListInv, ListRefusedInv
<1>7. CASE Succeeds(r)
  <2>1. ListInv(r)' BY <1>7, ListBegins, ListGoesOn
  <2>2. stage'[r] = "identity" BY <1>7, SuccessEffect DEF Succeeds
  <2> QED BY <2>1, <2>2 DEF ListRefusedInv
<1> QED BY <1>2, <1>3, <1>4, <1>5, <1>6, <1>7, OwnCases

(* The entries of a list that shows no domain twice are as many as the     *)
(* domains it shows.                                                       *)
LEMMA ShownOnce ==
    ASSUME RequestTypes, NEW r \in Requests,
           \A i, j \in DOMAIN report[r] : report[r][i].dom = report[r][j].dom => i = j
    PROVE  Cardinality(Shown(r)) = Len(report[r])
<1> DEFINE n == Len(report[r])
           f == [i \in 1 .. n |-> report[r][i].dom]
<1>1. n \in Nat /\ DOMAIN report[r] = 1 .. n BY DEF RequestTypes
<1>2. f \in [1 .. n -> Shown(r)] BY <1>1 DEF Shown
<1>3. \A i, j \in 1 .. n : f[i] = f[j] => i = j BY <1>1
<1>4. \A d \in Shown(r) : \E i \in 1 .. n : f[i] = d BY <1>1 DEF Shown
<1> HIDE DEF n, f
<1>5. f \in Injection(1 .. n, Shown(r)) BY <1>2, <1>3 DEF Injection, IsInjective
<1>6. f \in Surjection(1 .. n, Shown(r)) BY <1>2, <1>4 DEF Surjection
<1>7. ExistsBijection(1 .. n, Shown(r)) BY <1>5, <1>6 DEF ExistsBijection, Bijection
<1> QED BY <1>1, <1>7, FS_CountingElements DEF n

(* A list shows every domain that matched its filter all the while, none   *)
(* twice and none that never matched; when libvirt does not fail, it is    *)
(* refused only because a domain has vanished.                             *)
THEOREM ListsAreComplete ==
    ASSUME "faults" \notin Environment
    PROVE  QueriesSpec => []ListComplete
<1> DEFINE Complete == \A r \in Requests : ListInv(r) /\ ListRefusedInv(r)
<1>1. QueriesInit => Complete
  <2>1. SUFFICES ASSUME QueriesInit, NEW r \in Requests PROVE ListInv(r) /\ ListRefusedInv(r)
    OBVIOUS
  <2>2. stage[r] = "new" BY <2>1 DEF QueriesInit, ActionsInit
  <2> QED BY <2>2 DEF ListInv, ListRefusedInv, Opened, Answered200
<1>2. ReaderInv /\ Complete /\ [QueriesNext]_queryVars => Complete'
  <2>1. SUFFICES ASSUME ReaderInv, Complete, [QueriesNext]_queryVars, NEW q \in Requests
                 PROVE  ListInv(q)' /\ ListRefusedInv(q)'
    OBVIOUS
  <2>2. /\ WorldInv /\ RequestTypes /\ \A r \in Requests : ReadsRight(r)
        /\ ListInv(q) /\ ListRefusedInv(q) /\ KnownInv(q)
    BY <2>1 DEF ReaderInv, ReadsRight
  <2>3. ASSUME NEW r \in Requests, OwnStep(r) PROVE ListInv(q)' /\ ListRefusedInv(q)'
    <3>1. CASE q = r BY <2>2, <2>3, <3>1, ListOwn
    <3>2. CASE q # r
      <4>1. Same(q) /\ was'[q] = was[q] /\ UNCHANGED life
        BY <2>2, <2>3, <3>2, OwnStepKeeps DEF Alone, libvirtdVars, domainVars
      <4> QED BY <2>2, <4>1, ListUnchanged
    <3> QED BY <3>1, <3>2
  <2>4. ASSUME NEW d \in Domains, DomainChanges(d) PROVE ListInv(q)' /\ ListRefusedInv(q)'
    BY <2>2, <2>4, ChangesSeen, ChangesKeepWorld, ListSeen
  <2>5. ASSUME NEW d \in Domains, Unplug(d) PROVE ListInv(q)' /\ ListRefusedInv(q)'
    BY <2>2, <2>5, UnplugSeen, ListUnchanged
  <2>6. CASE UNCHANGED queryVars BY <2>2, <2>6, StutterSeen, ListUnchanged
  <2> QED BY <2>1, <2>3, <2>4, <2>5, <2>6, StepCases
<1>3. ReaderInv /\ Complete => ListComplete
  <2>1. SUFFICES ASSUME ReaderInv, Complete, NEW r \in Requests, stage[r] = "answered",
                        op[r] \in Lists
                 PROVE  LET shown == {x.dom : x \in Reports(r)}
                            about(d) == {f \in was[r] : f.dom = d}
                        IN  IF status[r] = "ok"
                            THEN /\ Cardinality(shown) = Len(report[r])
                                 /\ \A d \in shown : \E f \in about(d) : Matches(op[r], f)
                                 /\ \A d \in Domains :
                                      (about(d) # {} /\ \A f \in about(d) : Matches(op[r], f))
                                         => d \in shown
                            ELSE \E d \in Domains : about(d) # {} /\ life[d] = "gone"
    BY DEF ListComplete
  <2>2. {x.dom : x \in Reports(r)} = Shown(r) BY DEF Reports, Shown
  <2>3. \A d : {f \in was[r] : f.dom = d} # {} <=> Known(was[r], d) BY DEF Known
  <2>4. CASE status[r] = "ok"
    <3>1. Answered200(r) BY <2>1, <2>4 DEF Answered200
    <3>2. call[r] = Return /\ todo[r] = {} /\ RequestTypes
      BY <2>1, <3>1 DEF ReaderInv, CourseInv
    <3>3. Ahead(r) = {} BY <3>2 DEF Ahead, Return, Call
    <3>4. /\ \A i, j \in DOMAIN report[r] : report[r][i].dom = report[r][j].dom => i = j
          /\ \A d \in Shown(r) : \E f \in was[r] : f.dom = d /\ Matches(op[r], f)
          /\ \A d \in Domains :
               (Known(was[r], d) /\ \A f \in was[r] : f.dom = d => Matches(op[r], f))
                  => d \in Shown(r)
      BY <2>1, <3>1, <3>3 DEF ListInv
    <3>5. Cardinality(Shown(r)) = Len(report[r]) BY <3>2, <3>4, ShownOnce
    <3> QED BY <2>2, <2>3, <2>4, <3>4, <3>5
  <2>5. CASE status[r] # "ok"
    <3>1. \E d \in Domains : Known(was[r], d) /\ life[d] = "gone"
      BY <2>1, <2>5 DEF ListRefusedInv
    <3> QED BY <2>3, <2>5, <3>1
  <2> QED BY <2>4, <2>5
<1> QED BY <1>1, <1>2, <1>3, ReadersFollowTheirCourse, PTL DEF QueriesSpec

-----------------------------------------------------------------------------
(***************************************************************************)
(* A query is refused only for what it met.                                *)
(***************************************************************************)

(* What a refusal was given for stays so: domains that are gone and        *)
(* devices that were unplugged do not come back.                           *)
LEMMA RefusalSeen ==
    ASSUME NEW r \in Requests, CourseInv(r), RefusalInv(r), Same(r), was[r] \subseteq was'[r],
           \A x \in Domains : life[x] = "gone" => life'[x] = "gone",
           \A x \in Domains : present[x] # Devices => present'[x] # Devices
    PROVE  RefusalInv(r)'
<1>1. DomOf(r)' = DomOf(r) BY DEF Same, DomOf
<1>2. Opened(r)' = Opened(r) BY DEF Same, Opened
<1>3. WasRunning(r) => WasRunning(r)' BY <1>1 DEF WasRunning
<1>4. (stage[r] = "answered" /\ op[r] \in Queries \ HostQueries) => DomOf(r) \in Domains
  BY DomainOfKey DEF CourseInv, DomOf
<1> QED BY <1>1, <1>2, <1>3, <1>4 DEF RefusalInv, Same

(* A step of a request refuses it only for what it met.                    *)
LEMMA RefusalOwn ==
    ASSUME WorldInv, RequestTypes, NEW r \in Requests, ReadsRight(r), RefusalInv(r), OwnStep(r),
           "faults" \notin Environment
    PROVE  RefusalInv(r)'
<1> DEFINE d == DomOf(r)
           stopped == \E f \in was[r] : f.dom = d /\ f.power = "shutoff"
<1>1. UNCHANGED <<life, present>> BY OwnStepKeeps DEF libvirtdVars, domainVars
<1>2. CASE stage'[r] \in {"byName", "identity"} /\ ~Opened(r)'
  BY <1>2 DEF RefusalInv
<1>3. CASE LookupQuery(r)
  <2>1. /\ UNCHANGED <<op, ident, call>> /\ stage[r] \in Looking
        /\ stage'[r] = "answered" =>
             life[d] = "gone" /\ status'[r] = "404" /\ err'[r] = "NO_DOMAIN"
    BY <1>3, LookupEffect
  <2>2. op[r] = "stats" => call[r].call = "identity"
    BY <2>1, StatsTable DEF ReadsRight, CourseInv, Looking, Call
  <2>3. d' = d BY <2>1 DEF DomOf
  <2> QED BY <1>1, <2>1, <2>2, <2>3 DEF RefusalInv
<1>4. ASSUME stage[r] = "identity", stage'[r] = "answered", UNCHANGED <<op, ident, readVars>>,
             /\ op[r] = "stats" => \/ life[d] = "gone" \/ status'[r] = "409"
                                   \/ WasRunning(r)
             /\ op[r] \in Queries \ HostQueries =>
                  /\ status'[r] = "409" => op[r] = "stats" /\ stopped
                  /\ status'[r] = "422" => op[r] = "interfaces"
                  /\ status'[r] = "503" => \/ life[d] = "gone"
                                           \/ op[r] \in {"stats", "interfaces"} /\ stopped
                                           \/ op[r] = "stats" /\ present[d] # Devices
                                           \/ op[r] = "interfaces" /\ err'[r] = "ARGUMENT"
                  /\ err'[r] = "UNSUPPORTED" => status'[r] = "422"
      PROVE  RefusalInv(r)'
  <2>1. UNCHANGED <<op, ident, call, was>> BY <1>4 DEF readVars
  <2>2. d' = d /\ WasRunning(r)' = WasRunning(r) BY <2>1 DEF DomOf, WasRunning
  <2>3. ~Opened(r)' BY <1>4 DEF Opened
  <2> QED BY <1>1, <1>4, <2>1, <2>2, <2>3 DEF RefusalInv
<1>5. ASSUME stage[r] = "identity", op[r] = "stats",
             call[r].call \notin {"identity", "running", "listDomains"}
      PROVE  WasRunning(r)
  <2>1. Opened(r) BY <1>5 DEF Opened, HostQueries, Lists
  <2> QED BY <1>5, <2>1 DEF RefusalInv
<1>6. CASE /\ stage[r] = "identity" /\ stage'[r] = "answered" /\ status'[r] = "ok"
           /\ call[r] = Return /\ err'[r] = err[r] /\ UNCHANGED <<op, ident, readVars>>
  <2>1. call[r].call = "return" BY <1>6 DEF Return, Call
  <2>2. err'[r] = "none" BY <1>6 DEF ReadsRight, CourseInv
  <2> QED BY <1>4, <1>5, <1>6, <2>1, <2>2
<1>7. CASE /\ stage[r] = "identity" /\ stage'[r] = "answered" /\ call[r] # Return
           /\ UNCHANGED <<op, ident, readVars>>
           /\ \E e \in Answers(call[r]) :
                e # "none" /\ status'[r] = QueryError(call[r], e) /\ err'[r] = e
  <2>1. PICK e \in Answers(call[r]) :
          e # "none" /\ status'[r] = QueryError(call[r], e) /\ err'[r] = e
    BY <1>7
  <2>2. CallInv(r) /\ op[r] \in Queries /\ call[r].call \in CallsOf(op[r])
    BY <1>7 DEF ReadsRight, CourseInv, CallInv
  <2>3. op[r] \notin HostQueries => call[r].on = d BY <1>7, <2>2 DEF CallInv
  <2>4. /\ call[r].on \in Domains /\ Opened(r)
        /\ life[call[r].on] = "gone" \/ call[r].call \notin {"identity", "running"}
        /\ e \in Unavailable => call[r].call = "addresses" /\ op[r] = "interfaces"
        /\ e \notin Unavailable =>
             \/ life[call[r].on] = "gone"
             \/ /\ life[call[r].on] # "gone" /\ ~Active(call[r].on)
                /\ op[r] \in {"stats", "interfaces"}
             \/ op[r] = "stats" /\ present[call[r].on] # Devices
    BY <1>7, <2>1, FailureMet
  <2>5. status'[r] = IF e = "UNSUPPORTED" THEN "422" ELSE "503"
    BY <2>1, <2>4 DEF QueryError, Unavailable
  <2>6. ASSUME op[r] \notin HostQueries, life[d] # "gone", ~Active(d) PROVE stopped
    <3>1. Fact(d) \in was[r]
      BY <2>3, <2>4, <2>6, FactsAreFacts DEF ReadsRight, KnownInv
    <3>2. Fact(d).dom = d /\ Fact(d).power = "shutoff" BY <2>3, <2>4, <2>6, FactsAreFacts
    <3> QED BY <3>1, <3>2
  <2>7. op[r] = "stats" => op[r] \notin HostQueries /\ call[r].call # "listDomains"
    BY <2>4 DEF HostQueries, Lists, Opened
  <2>8. op[r] = "stats" => life[d] = "gone" \/ WasRunning(r)
    BY <1>5, <1>7, <2>3, <2>4, <2>7
  <2> HIDE DEF d, stopped
  <2>9. op[r] \in Queries \ HostQueries =>
          /\ status'[r] # "409"
          /\ status'[r] = "422" => op[r] = "interfaces"
          /\ status'[r] = "503" => \/ life[d] = "gone"
                                   \/ op[r] \in {"stats", "interfaces"} /\ stopped
                                   \/ op[r] = "stats" /\ present[d] # Devices
                                   \/ op[r] = "interfaces" /\ err'[r] = "ARGUMENT"
          /\ err'[r] = "UNSUPPORTED" => status'[r] = "422"
    BY <2>1, <2>3, <2>4, <2>5, <2>6 DEF Unavailable
  <2> QED BY <1>4, <1>7, <2>8, <2>9
<1>8. CASE /\ stage[r] = "identity" /\ stage'[r] = "answered" /\ call[r] # Return
           /\ UNCHANGED <<op, ident, readVars>>
           /\ Inactive(call[r]) /\ "none" \in Answers(call[r])
           /\ status'[r] = "409" /\ err'[r] = err[r]
  <2>1. CallInv(r) /\ op[r] \in Queries /\ call[r].call \in CallsOf(op[r])
    BY <1>8 DEF ReadsRight, CourseInv, CallInv
  <2>2. call[r].call = "running" /\ ~Active(call[r].on) BY <1>8 DEF Inactive
  <2>3. op[r] = "stats" /\ op[r] \notin HostQueries
    BY <2>1, <2>2, FollowTable DEF HostQueries, Lists
  <2>4. call[r].on = d /\ d \in Domains
    BY <1>8, <2>1, <2>3, CallOnDomain DEF CallInv, ReadsRight
  <2>5. life[d] # "gone" BY <1>8, <2>2, <2>4, QueriesAssumption DEF Answers
  <2>6. Opened(r) BY <1>8, <2>2, <2>3 DEF Opened
  <2>7. Fact(d) \in was[r] /\ Fact(d).dom = d /\ Fact(d).power = "shutoff"
    BY <2>2, <2>4, <2>5, <2>6, FactsAreFacts DEF ReadsRight, KnownInv
  <2>8. err'[r] = "none" BY <1>8 DEF ReadsRight, CourseInv
  <2> QED BY <1>4, <1>8, <2>3, <2>7, <2>8
<1>9. CASE Succeeds(r)
  <2>1. stage[r] = "identity" /\ stage'[r] = "identity" /\ op'[r] = op[r] /\ d' = d
    BY <1>9, SuccessEffect DEF Succeeds, DomOf
  <2>2. ASSUME op[r] = "stats", call'[r].call \notin {"identity", "running"}
        PROVE  WasRunning(r)'
    <3>1. /\ CallInv(r) /\ call[r] # Return /\ call[r].call \in CallsOf(op[r])
          /\ op[r] \notin HostQueries /\ CourseInv(r)
      BY <1>9, <2>1, <2>2 DEF ReadsRight, CourseInv, CallInv, Succeeds, HostQueries, Lists
    <3>2. call[r].call # "listDomains" /\ call[r].on = d /\ d \in Domains
      BY <2>1, <2>2, <3>1, StatsTable, CallOnDomain DEF CallInv
    <3>3. UNCHANGED was BY <1>9, <3>2, SuccessEffect
    <3>4. WasRunning(r)' = WasRunning(r) BY <2>1, <3>3 DEF WasRunning
    <3>5. call[r].call # "identity"
      <4>1. SUFFICES ASSUME call[r].call = "identity" PROVE FALSE OBVIOUS
      <4>2. Following(op[r], call[r]) = "running"
        BY <2>2, <4>1, StatsTable DEF Following, AsksID
      <4>3. call'[r] = Call("running", call[r].on) BY <1>9, <4>2, SuccessEffect
      <4> QED BY <2>2, <4>3 DEF Call
    <3>6. CASE call[r].call = "running"
      <4>1. Active(d) BY <1>9, <3>2, <3>6 DEF Succeeds, Inactive
      <4>2. Fact(d) \in was[r] /\ Fact(d).dom = d BY <1>9, <3>2, <3>6, MetInTime
      <4>3. Fact(d).power # "shutoff" BY <3>2, <4>1, FactsAreFacts
      <4> QED BY <3>4, <4>2, <4>3 DEF WasRunning
    <3>7. CASE call[r].call # "running" BY <1>5, <2>1, <2>2, <3>2, <3>4, <3>5, <3>7
    <3> QED BY <3>6, <3>7
  <2> QED BY <2>1, <2>2 DEF RefusalInv
<1> QED BY <1>2, <1>3, <1>6, <1>7, <1>8, <1>9, OwnCases

(* When libvirt does not fail, a query of a domain is refused only for     *)
(* what it met: a domain that was not running, that stopped or vanished, a *)
(* device that was unplugged, addresses nobody can give; and statistics    *)
(* of a domain that never ran are always refused with 409.                 *)
THEOREM RefusalsHaveACause ==
    ASSUME "faults" \notin Environment
    PROVE  QueriesSpec => []RefusedForACause
<1> DEFINE Caused == \A r \in Requests : RefusalInv(r)
<1>1. QueriesInit => Caused
  <2>1. SUFFICES ASSUME QueriesInit, NEW r \in Requests PROVE RefusalInv(r) OBVIOUS
  <2>2. stage[r] = "new" BY <2>1 DEF QueriesInit, ActionsInit
  <2> QED BY <2>2 DEF RefusalInv, Opened
<1>2. ReaderInv /\ Caused /\ [QueriesNext]_queryVars => Caused'
  <2>1. SUFFICES ASSUME ReaderInv, Caused, [QueriesNext]_queryVars, NEW q \in Requests
                 PROVE  RefusalInv(q)'
    OBVIOUS
  <2>2. /\ WorldInv /\ RequestTypes /\ \A r \in Requests : ReadsRight(r)
        /\ RefusalInv(q) /\ CourseInv(q)
    BY <2>1 DEF ReaderInv, ReadsRight
  <2>3. ASSUME NEW r \in Requests, OwnStep(r) PROVE RefusalInv(q)'
    <3>1. CASE q = r BY <2>2, <2>3, <3>1, RefusalOwn
    <3>2. CASE q # r
      <4>1. Same(q) /\ was'[q] = was[q] /\ UNCHANGED <<life, present>>
        BY <2>2, <2>3, <3>2, OwnStepKeeps DEF Alone, libvirtdVars, domainVars
      <4> QED BY <2>2, <4>1, RefusalSeen
    <3> QED BY <3>1, <3>2
  <2>4. ASSUME NEW d \in Domains, DomainChanges(d) PROVE RefusalInv(q)'
    <3>1. Same(q) /\ was[q] \subseteq was'[q] /\ UNCHANGED present
      BY <2>2, <2>4, ChangesSeen
    <3> QED BY <2>2, <2>4, <3>1, ChangesKeepWorld, RefusalSeen
  <2>5. ASSUME NEW d \in Domains, Unplug(d) PROVE RefusalInv(q)'
    <3>1. PICK x \in present[d] : present' = [present EXCEPT ![d] = @ \ {x}]
      BY <2>5, UnplugSeen
    <3>2. \A y \in Domains : present[y] # Devices => present'[y] # Devices
      BY <2>2, <3>1 DEF WorldInv
    <3> QED BY <2>2, <2>5, <3>2, UnplugSeen, RefusalSeen
  <2>6. CASE UNCHANGED queryVars BY <2>2, <2>6, StutterSeen, RefusalSeen
  <2> QED BY <2>1, <2>3, <2>4, <2>5, <2>6, StepCases
<1>3. Caused => RefusedForACause
  BY DEF RefusalInv, RefusedForACause, WasRunning
<1> QED BY <1>1, <1>2, <1>3, ReadersFollowTheirCourse, PTL DEF QueriesSpec
=============================================================================
