--------------------------- MODULE LifecycleFeed ---------------------------
(***************************************************************************)
(* What the events route promises its clients, without channels, buffers,  *)
(* history or locks.  Events are numbered from 1.  A stream is opened at   *)
(* a point of that sequence and delivers, one by one, exactly the events   *)
(* after it; or it is opened at the newest event with a reset, delivers    *)
(* the reset first and then exactly the events after that point.  A stream *)
(* may end at any time, and once ended delivers nothing more.              *)
(***************************************************************************)
EXTENDS Naturals

CONSTANT Streams

VARIABLES
    newest,     \* number of events so far
    state,      \* state[s]: "unopened", "live" or "ended"
    at,         \* at[s]: the point of the sequence the stream is at
    resync      \* resync[s]: a reset to at[s] is still to be delivered

feedVars == <<newest, state, at, resync>>

Init ==
    /\ newest = 0
    /\ state = [s \in Streams |-> "unopened"]
    /\ at = [s \in Streams |-> 0]
    /\ resync = [s \in Streams |-> FALSE]

Happen ==
    /\ newest' = newest + 1
    /\ UNCHANGED <<state, at, resync>>

Resume(s) ==
    /\ state[s] = "unopened"
    /\ state' = [state EXCEPT ![s] = "live"]
    /\ \E p \in 0 .. newest : at' = [at EXCEPT ![s] = p]
    /\ UNCHANGED <<newest, resync>>

Restart(s) ==
    /\ state[s] = "unopened"
    /\ state' = [state EXCEPT ![s] = "live"]
    /\ at' = [at EXCEPT ![s] = newest]
    /\ resync' = [resync EXCEPT ![s] = TRUE]
    /\ UNCHANGED newest

DeliverReset(s) ==
    /\ state[s] = "live"
    /\ resync[s]
    /\ resync' = [resync EXCEPT ![s] = FALSE]
    /\ UNCHANGED <<newest, state, at>>

Deliver(s) ==
    /\ state[s] = "live"
    /\ ~resync[s]
    /\ at[s] < newest
    /\ at' = [at EXCEPT ![s] = @ + 1]
    /\ UNCHANGED <<newest, state, resync>>

End(s) ==
    /\ state[s] = "live"
    /\ state' = [state EXCEPT ![s] = "ended"]
    /\ UNCHANGED <<newest, at, resync>>

Next ==
    \/ Happen
    \/ \E s \in Streams : \/ Resume(s) \/ Restart(s)
                          \/ DeliverReset(s) \/ Deliver(s) \/ End(s)

Spec == Init /\ [][Next]_feedVars
=============================================================================
