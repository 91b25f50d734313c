----------------------------- MODULE NetifDaemon -----------------------------
(***************************************************************************)
(* The D-Bus objects of network interfaces, shared by two services of the *)
(* daemon: the macvlan factory creates and deletes interfaces (Macvlan),  *)
(* and the static addrconf services configure them (AddrconfStatic).     *)
(* Both see the same set of netif objects.  Each method call runs to     *)
(* completion on the D-Bus main loop, so calls of the two services       *)
(* interleave one at a time.                                              *)
(***************************************************************************)
EXTENDS Naturals

CONSTANTS Objects, AddrSets, IfNames, InitLinks, NoDev

VARIABLES netifs, static, live, reply, link, cfgLive, mvReply

InitNetifs == {n \in IfNames : InitLinks[n] # "none"}

ST == INSTANCE AddrconfStatic
MV == INSTANCE Macvlan

vars == <<netifs, static, live, reply, link, cfgLive, mvReply>>

Init ==
    /\ ST!Init
    /\ MV!MvInit

Next ==
    \/ ST!Next /\ UNCHANGED <<link, cfgLive, mvReply>>
    \/ \E n, c \in IfNames : MV!NewDevice(n, c) /\ UNCHANGED <<static, live, reply>>
    \/ \E o \in IfNames :
          MV!DeleteDevice(o) /\ UNCHANGED <<static, live, reply>>
    \/ \E n \in IfNames, t \in {"macvlan", "other"} :
          MV!LinkAppears(n, t) /\ UNCHANGED <<static, live, reply>>

Spec == Init /\ [][Next]_vars

-----------------------------------------------------------------------------
TypeOK == ST!TypeOK /\ MV!MvTypeOK

\* A configure call leaves a request allocated only when the address or
\* route dict was rejected (the return at addrconf.c 266): every call
\* that reaches ni_system_interface_addrconf frees its request, whatever
\* the system returns.
RequestFreedUnlessDictRejected ==
    [][live' > live => reply'.error = "dict"]_vars

\* newDevice puts the configuration netdev the dict produced on every way
\* out of __ni_objectmodel_macvlan_newlink, failed validation and create,
\* and a wrong link type included.
CfgDevicesPut == cfgLive = 0

\* A newDevice that succeeds hands back the link of the requested name,
\* whatever name the dict carried, and that link is a macvlan with a netif
\* object: an existing link of another type is refused, an existing
\* macvlan is reused.
NewDeviceYieldsRequestedMacvlan ==
    [][mvReply'.op = "new" /\ mvReply'.ok =>
         /\ mvReply'.dev = mvReply'.name
         /\ link'[mvReply'.dev] = "macvlan"
         /\ mvReply'.dev \in netifs']_vars

=============================================================================
