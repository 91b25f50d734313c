-------------------------- MODULE MC_SystemUpdate --------------------------
(* Model-checking instance of SystemUpdate.  Two interfaces with a DHCP  *)
(* lease slot per family give four slots, so leases of one interface     *)
(* (ipv4 and ipv6) and of two interfaces compete for a service.  The     *)
(* targets of ni_system_update_from_lease are handled independently of   *)
(* one another, so each run checks one handled service next to           *)
(* DEFAULT_ROUTE: the resolver (its handler restores a backup; NIS runs  *)
(* the same code) or the hostname (its handler keeps the last value).   *)
EXTENDS SystemUpdate

CONSTANT Service    \* "resolver" or "hostname"

MC_FamilySeq == <<"ipv4", "ipv6">>
MC_ModeSeq   == <<"dhcp">>
MC_Targets   == {"default-route", Service}
MC_HandlerKind ==
    [t \in MC_Targets |-> CASE t = "hostname" -> "keep"
                            [] t = "resolver" -> "restore"
                            [] OTHER          -> "none"]
MC_ConfigMask  == [m \in {"dhcp"} |-> MC_Targets]
MC_RequestMask == [k \in (1..2) \X {"ipv4", "ipv6"} \X {"dhcp"} |-> NoRequest]
MC_LeaseInfo   == {Service}
=============================================================================
