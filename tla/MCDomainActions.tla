-------------------------- MODULE MCDomainActions --------------------------
(***************************************************************************)
(* DomainActions for TLC: one domain, with one name, so that every request *)
(* can name it in two ways.                                                *)
(***************************************************************************)
EXTENDS DomainActions, TLC

MCDomainNamed == [n \in Names |-> CHOOSE d \in Domains : TRUE]
ActionsSymmetry == {p @@ k : p \in Permutations(Requests), k \in Permutations(Locks)}
=============================================================================
