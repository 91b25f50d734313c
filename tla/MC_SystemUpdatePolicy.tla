----------------------- MODULE MC_SystemUpdatePolicy -----------------------
(* SystemUpdate with two lease types on one family: DHCP leases may      *)
(* update the resolver, static leases may not                            *)
(* (ni_config_addrconf_update_mask).  Two interfaces give four slots.    *)
EXTENDS SystemUpdate

MC_FamilySeq == <<"ipv4">>
MC_ModeSeq   == <<"dhcp", "static">>
MC_Targets   == {"default-route", "resolver"}
MC_HandlerKind == [t \in MC_Targets |-> IF t = "resolver" THEN "restore" ELSE "none"]
MC_ConfigMask  == [m \in {"dhcp", "static"} |->
                      IF m = "dhcp" THEN MC_Targets ELSE {"default-route"}]
MC_RequestMask == [k \in (1..2) \X {"ipv4"} \X {"dhcp", "static"} |-> NoRequest]
MC_LeaseInfo   == {"resolver"}
=============================================================================
