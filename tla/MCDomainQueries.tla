-------------------------- MODULE MCDomainQueries --------------------------
(***************************************************************************)
(* DomainQueries for TLC.                                                  *)
(***************************************************************************)
EXTENDS DomainQueries

MCDomainNamed == [n \in Names |-> CHOOSE d \in Domains : TRUE]

(* A disk, an empty cdrom drive, and two interfaces, one of which has no   *)
(* device on the host.                                                     *)
MCDevices == {[kind |-> "disk", target |-> "vda"], [kind |-> "cdrom", target |-> "hdc"],
              [kind |-> "interface", target |-> "vnet0"],
              [kind |-> "interface", target |-> NoTarget]}
=============================================================================
