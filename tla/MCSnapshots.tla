---------------------------- MODULE MCSnapshots ----------------------------
(***************************************************************************)
(* Snapshots for TLC: all names are names of one domain.                   *)
(***************************************************************************)
EXTENDS Snapshots

(* One dating for each way in which the three comparisons of three         *)
(* snapshots can come out: none against the order of names, one, two       *)
(* (1-2 and 2-3 alone cannot be, for then 1 is newer than 3) or three.     *)
(* <<2, 0, 1>> is the one in which they form a circle.                     *)
MCDatings == {<<0, 0, 0>>, <<2, 1, 0>>, <<0, 2, 1>>, <<2, 0, 1>>, <<2, 1, 1>>, <<2, 2, 1>>,
              <<3, 2, 1>>}
MCAllDatings == [Present -> Times]

MCDomainNamed == [n \in Names |-> CHOOSE d \in Domains : TRUE]
=============================================================================
