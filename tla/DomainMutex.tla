---------------------------- MODULE DomainMutex ----------------------------
(***************************************************************************)
(* What the per-domain action lock promises, without lock objects, use     *)
(* counts or semaphores: of the requests that want to act on a domain at   *)
(* most one is inside at a time; a request that waits may give up.         *)
(***************************************************************************)
CONSTANTS Clients, Domains

VARIABLES
    phase,      \* phase[r]: "out", "waiting" or "inside"
    target      \* target[r]: the domain r last asked for

mutexVars == <<phase, target>>

Init ==
    /\ phase = [r \in Clients |-> "out"]
    /\ target \in [Clients -> Domains]

Moves(r, from, to) ==
    /\ phase[r] = from
    /\ phase' = [phase EXCEPT ![r] = to]

Want(r, u) == Moves(r, "out", "waiting") /\ target' = [target EXCEPT ![r] = u]

Enter(r) ==
    /\ Moves(r, "waiting", "inside")
    /\ \A q \in Clients : phase[q] = "inside" => target[q] # target[r]
    /\ UNCHANGED target

GiveUp(r) == Moves(r, "waiting", "out") /\ UNCHANGED target

Leave(r) == Moves(r, "inside", "out") /\ UNCHANGED target

Next == \E r \in Clients : \/ \E u \in Domains : Want(r, u)
                           \/ Enter(r) \/ GiveUp(r) \/ Leave(r)

Spec == Init /\ [][Next]_mutexVars
=============================================================================
