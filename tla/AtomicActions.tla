--------------------------- MODULE AtomicActions ---------------------------
(***************************************************************************)
(* What the action routes promise when nobody else touches the domains:    *)
(* each request looks at its domain, changes it and is answered in ONE     *)
(* step.  A request that does not fit the domain's state is answered with  *)
(* a conflict and changes nothing, and neither does one that fails because *)
(* libvirt does.                                                           *)
(***************************************************************************)
CONSTANTS Clients, Domains, Nothing

VARIABLES
    power,      \* power[d]: "shutoff", "running" or "paused"
    autostart,  \* autostart[d]: "enable" or "disable", as last set
    wanted,     \* wanted[r]: Nothing or [op, dom]
    answer      \* answer[r]: Nothing or [status, state]

atomicVars == <<power, autostart, wanted, answer>>

Active(p) == p # "shutoff"

(* The states in which an operation is no conflict, the state it leaves    *)
(* and the state it reports.  The report is the state left, or the setting *)
(* made, with one exception that belongs to what the service promises:     *)
(* reset reports "running" whatever the state, and leaves a paused domain  *)
(* paused.                                                                 *)
Fits(op, p) ==
    CASE op = "start"                 -> ~Active(p)
      [] op = "pause"                 -> p = "running"
      [] op = "resume"                -> p = "paused"
      [] op \in {"enable", "disable"} -> TRUE
      [] OTHER                        -> Active(p)

Leaves(op, p) ==
    CASE op \in {"start", "resume"} -> "running"
      [] op = "pause"               -> "paused"
      [] op = "stop"                -> "shutoff"
      [] OTHER                      -> p

Reports(op, p) ==
    CASE op = "reset"                 -> "running"
      [] op \in {"enable", "disable"} -> op
      [] OTHER                        -> Leaves(op, p)

Init ==
    /\ power \in [Domains -> {"shutoff", "running", "paused"}]
    /\ autostart = [d \in Domains |-> "disable"]
    /\ wanted = [r \in Clients |-> Nothing]
    /\ answer = [r \in Clients |-> Nothing]

Ask(r, op, d) ==
    /\ wanted[r] = Nothing
    /\ wanted' = [wanted EXCEPT ![r] = [op |-> op, dom |-> d]]
    /\ UNCHANGED <<power, autostart, answer>>

Serve(r) ==
    /\ wanted[r] # Nothing /\ answer[r] = Nothing
    /\ LET op == wanted[r].op
           d  == wanted[r].dom
       IN IF Fits(op, power[d])
          THEN /\ power' = [power EXCEPT ![d] = Leaves(op, @)]
               /\ autostart' = [autostart EXCEPT ![d] =
                                   IF op \in {"enable", "disable"} THEN op ELSE @]
               /\ answer' = [answer EXCEPT ![r] = [status |-> "ok",
                                                   state |-> Reports(op, power[d])]]
          ELSE /\ answer' = [answer EXCEPT ![r] = [status |-> "conflict",
                                                   state |-> "none"]]
               /\ UNCHANGED <<power, autostart>>
    /\ UNCHANGED wanted

(* libvirt fails or does not support what is asked.                        *)
Fail(r) ==
    /\ wanted[r] # Nothing /\ answer[r] = Nothing
    /\ answer' = [answer EXCEPT ![r] = [status |-> "failed", state |-> "none"]]
    /\ UNCHANGED <<power, autostart, wanted>>

Actions == {"start", "shutdown", "reboot", "pause", "resume", "reset", "stop",
            "enable", "disable"}

Next == \E r \in Clients :
            \/ \E op \in Actions, d \in Domains : Ask(r, op, d)
            \/ Serve(r) \/ Fail(r)

Spec == Init /\ [][Next]_atomicVars
=============================================================================
