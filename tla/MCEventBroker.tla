--------------------------- MODULE MCEventBroker ---------------------------
(***************************************************************************)
(* EventBroker for TLC.  The subscriptions are interchangeable, and so are *)
(* the generation strings.                                                 *)
(***************************************************************************)
EXTENDS EventBroker, TLC

Symmetry == {p @@ q : p \in Permutations(Subs), q \in Permutations(Generations)}
=============================================================================
