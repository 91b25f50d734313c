------------------------- MODULE MC_AddrconfSignal -------------------------
(* Model-checking instance of AddrconfSignal: two interfaces, a DHCP lease *)
(* slot per family, the resolver as the service leases carry (its handler *)
(* restores a backup), handlers that succeed; the cfg chooses whether    *)
(* handler steps may fault and which peer messages are sent.             *)
EXTENDS AddrconfSignal, SequencesExt

MC_FamilySeq == <<"ipv4", "ipv6">>
MC_ModeSeq   == <<"dhcp">>
MC_Targets   == {"default-route", "resolver"}
MC_HandlerKind == [t \in MC_Targets |-> IF t = "resolver" THEN "restore" ELSE "none"]
MC_ConfigMask  == [m \in {"dhcp"} |-> MC_Targets]
MC_RequestMask == [k \in (1..2) \X {"ipv4", "ipv6"} \X {"dhcp"} |-> NoRequest]
MC_LeaseInfo   == {"resolver"}

\* Signals of other peers: a LeaseAcquired without a lease, an unknown
\* signal, a path without <something>, and a DHCPv6 lease.
MC_PeerSignals ==
    { [member |-> "LeaseAcquired", path |-> SupplicantPath(1), iface |-> "dhcp4", args |-> NoArgs],
      [member |-> "LeaseRenewed",  path |-> SupplicantPath(1), iface |-> "dhcp4", args |-> NoArgs],
      [member |-> "LeaseReleased", path |-> <<"root", "/", "Interface", "/", "1">>,
       iface |-> "dhcp4", args |-> NoArgs],
      [member |-> "LeaseAcquired", path |-> SupplicantPath(2), iface |-> "dhcp6",
       args |-> [state |-> "granted", info |-> {}]] }

\* The longest path of the documented form with one <something> segment.
MC_MaxPathLen == 7

\* The parser's result for path p is the documented one.
ParsedAsDocumented(p) == PathToIfindex(p) = DocumentedIndex(p)

\* Every path of up to MC_MaxPathLen tokens.  A constant: TLC evaluates it
\* once, before the search.
AllPathsParsedAsDocumented ==
    \A p \in BoundedSeq(Tokens, MC_MaxPathLen) : ParsedAsDocumented(p)

\* ni_objectmodel_addrconf_path_to_device accepts exactly the paths of the
\* documented form WICKED_DBUS_OBJECT_PATH "/" <something> "/Interface/"
\* <index> and returns the index they name: the prefix compare, the scan
\* over <something> and the "Interface/" compare leave no other path
\* through and reject none of the form.  This holds for every path a
\* queued signal carries, and for every path of up to MC_MaxPathLen tokens.
ParsesDocumentedPaths ==
    /\ AllPathsParsedAsDocumented
    /\ \A s \in Senders : \A j \in DOMAIN queue[s] : ParsedAsDocumented(queue[s][j].path)

=============================================================================
