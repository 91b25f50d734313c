---------------------------- MODULE AddrconfStatic ----------------------------
(***************************************************************************)
(* The static addrconf D-Bus services of dbus-objects/addrconf.c: the     *)
(* configure methods of Addrconf.ipv4.static and Addrconf.ipv6.static and *)
(* the service table that binds them to interface names.                  *)
(*                                                                         *)
(* A call names an object and a D-Bus interface; the object's services    *)
(* are searched in registration order for the first one of that name     *)
(* (the D-Bus object layer, not in this file).  configure unwraps the     *)
(* interface, checks for one dict argument, allocates a request of the    *)
(* service's family, fills in addresses and routes from the dict, hands  *)
(* the request to ni_system_interface_addrconf and frees it.              *)
(***************************************************************************)
EXTENDS Integers, Sequences

CONSTANTS
    Objects,     \* D-Bus objects a call may name
    InitNetifs,  \* the objects that wrap a network interface at start
    AddrSets     \* the address/route configurations a dict may carry

Families == {"ipv4", "ipv6"}

\* WICKED_DBUS_ADDRCONF_IPV4STATIC_INTERFACE and ..._IPV6STATIC_INTERFACE.
IPV4STATIC == "Addrconf.ipv4.static"
IPV6STATIC == "Addrconf.ipv6.static"
Names      == {IPV4STATIC, IPV6STATIC}

\* The family a caller addresses through each interface name.
FamilyOfName == [n \in Names |-> IF n = IPV4STATIC THEN "ipv4" ELSE "ipv6"]

\* ni_objectmodel_addrconf_ipv4_static_service and _ipv6_static_service,
\* in registration order; the IPv6 entry's .name is the IPv4 name.
StaticServices ==
    << [name |-> IPV4STATIC, family |-> "ipv4"],
       [name |-> IPV4STATIC, family |-> "ipv6"] >>

NoService == 0

\* The service a call to interface name is dispatched to.
ServiceFor(name) ==
    LET S == {i \in DOMAIN StaticServices : StaticServices[i].name = name}
    IN  IF S = {} THEN NoService ELSE CHOOSE i \in S : \A j \in S : i <= j

VARIABLES
    netifs,   \* the objects that currently wrap a network interface
    static,   \* static[o][f]: the static configuration applied to o for family f
    live,     \* requests ni_addrconf_request_new allocated and not yet freed
    reply     \* the outcome of the last call

vars == <<netifs, static, live, reply>>

NoConfig == "none"
NoRequest == "none"
Errors   == {"none", "unknown-method", "failed", "invalid-args", "dict"}

Reply(ok, err, name, req) == [ok |-> ok, error |-> err, iface |-> name, req |-> req]

\* Mutation: the request is never freed.
OutstandingAlways(reachedSystem) == 1

\* Mutation: the request is freed a second time after the system call.
OutstandingDoubleFree(reachedSystem) == IF reachedSystem THEN -1 ELSE 1

\* The requests a configure call leaves allocated: the request is freed
\* after ni_system_interface_addrconf, and only there.
Outstanding(reachedSystem) == IF reachedSystem THEN 0 ELSE 1

\* get_interface: ni_objectmodel_unwrap_interface finds a network interface.
GetInterface(o) == o \in netifs

(* One configure call of the handler for family fam on object o, named    *)
(* through name; argc and isDict describe the arguments, a the dict's    *)
(* configuration, addrOk/routeOk whether the dict setters accept it,     *)
(* sysOk whether ni_system_interface_addrconf returns >= 0.              *)
StaticConfigure(fam, o, name, argc, isDict, a, addrOk, routeOk, sysOk) ==
    CASE ~GetInterface(o) ->
            /\ reply' = Reply(FALSE, "failed", name, NoRequest)
            /\ UNCHANGED <<static, live>>
      [] argc # 1 \/ ~isDict ->
            /\ reply' = Reply(FALSE, "invalid-args", name, NoRequest)
            /\ UNCHANGED <<static, live>>
      [] ~addrOk \/ ~routeOk ->
            /\ live' = live + Outstanding(FALSE)
            /\ reply' = Reply(FALSE, "dict", name, fam)
            /\ UNCHANGED static
      [] OTHER ->
            /\ live' = live + Outstanding(TRUE)
            /\ static' = IF sysOk THEN [static EXCEPT ![o][fam] = a] ELSE static
            /\ reply' = Reply(sysOk, IF sysOk THEN "none" ELSE "failed", name, fam)

\* ni_objectmodel_addrconf_ipv4_static_configure: an AF_INET request.
Ipv4StaticConfigure(o, name, argc, isDict, a, addrOk, routeOk, sysOk) ==
    StaticConfigure("ipv4", o, name, argc, isDict, a, addrOk, routeOk, sysOk)

\* ni_objectmodel_addrconf_ipv6_static_configure: an AF_INET6 request.
Ipv6StaticConfigure(o, name, argc, isDict, a, addrOk, routeOk, sysOk) ==
    StaticConfigure("ipv6", o, name, argc, isDict, a, addrOk, routeOk, sysOk)

-----------------------------------------------------------------------------
Init ==
    /\ netifs = InitNetifs
    /\ static = [o \in Objects |-> [f \in Families |-> NoConfig]]
    /\ live   = 0
    /\ reply  = Reply(TRUE, "none", IPV4STATIC, NoRequest)

\* A caller invokes configure on object o through interface name.
Call(o, name) ==
    /\ UNCHANGED netifs
    /\ LET svc == ServiceFor(name) IN
       IF svc = NoService
       THEN /\ reply' = Reply(FALSE, "unknown-method", name, NoRequest)
            /\ UNCHANGED <<static, live>>
       ELSE \E argc \in 0..2, isDict \in BOOLEAN, a \in AddrSets,
               addrOk, routeOk, sysOk \in BOOLEAN :
               IF StaticServices[svc].family = "ipv4"
               THEN Ipv4StaticConfigure(o, name, argc, isDict, a, addrOk, routeOk, sysOk)
               ELSE Ipv6StaticConfigure(o, name, argc, isDict, a, addrOk, routeOk, sysOk)

Next == \E o \in Objects, name \in Names : Call(o, name)

Spec == Init /\ [][Next]_vars

-----------------------------------------------------------------------------
TypeOK ==
    /\ netifs \subseteq Objects
    /\ static \in [Objects -> [Families -> AddrSets \cup {NoConfig}]]
    /\ live   \in Nat
    /\ reply  \in [ok : BOOLEAN, error : Errors, iface : Names,
                   req : Families \cup {NoRequest}]

\* Every request configure allocates is freed before the call returns.
RequestsFreed == live = 0

\* A call through Addrconf.ipv6.static, the interface name defined for the
\* IPv6 static service (line 30), is answered by that service's configure
\* method and never as an unknown method: the service table must carry an
\* entry of that name, whichever entry the dispatcher picks among several.
Ipv6StaticAnswered == reply.iface = IPV6STATIC => reply.error # "unknown-method"

=============================================================================
