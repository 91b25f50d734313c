------------------------------- MODULE Macvlan -------------------------------
(***************************************************************************)
(* The macvlan D-Bus factory and device methods of dbus-objects/macvlan.c:*)
(* newDevice (ni_objectmodel_macvlan_newlink and its helper) and          *)
(* deleteDevice (ni_objectmodel_macvlan_delete).                          *)
(*                                                                         *)
(* A link is known by its interface name.  newDevice takes the name and a *)
(* dict; the dict yields a configuration netdev (cfg_ifp, one reference)  *)
(* that is renamed to the name, validated and handed to                   *)
(* ni_system_macvlan_create, and put on every way out.  A device the      *)
(* create call hands back becomes a D-Bus netif object through           *)
(* ni_objectmodel_netif_factory_result.  The system calls are not in this *)
(* file: their outcomes are free choices, constrained by the link table.  *)
(***************************************************************************)
EXTENDS Naturals

CONSTANTS
    IfNames,     \* interface names a caller may ask for
    InitLinks,   \* [IfNames -> LinkTypes]: the kernel links at start
    NoDev        \* new_ifp == NULL

LinkTypes == {"none", "macvlan", "other"}

VARIABLES
    netifs,      \* the D-Bus objects that wrap a network interface (by name)
    link,        \* link[n]: the type of the kernel link named n, or "none"
    cfgLive,     \* configuration netdevs the dict produced and not yet put
    mvReply      \* the outcome of the last macvlan call

mvVars == <<netifs, link, cfgLive, mvReply>>

MvReply(op, ok, name, dev) == [op |-> op, ok |-> ok, name |-> name, dev |-> dev]

\* if (!ni_string_eq(cfg_ifp->name, ifname)) ni_string_dup(&cfg_ifp->name, ifname)
Rename(cfgName, ifname) == IF cfgName # ifname THEN ifname ELSE cfgName

\* Mutation: the way out forgets to put cfg_ifp.
OutSkipPut(r) == r

\* out: if (cfg_ifp) ni_netdev_put(cfg_ifp); return new_ifp;
Out(r) == [r EXCEPT !.puts = 1]

\* Mutation: any device create hands back is accepted, whatever its type.
NewLinkNoTypeCheck(lt, name, validOk, createOk, handed) ==
    LET exists == lt[name] # "none"
        lt2    == IF ~exists /\ createOk THEN [lt EXCEPT ![name] = "macvlan"] ELSE lt
        got    == IF exists THEN handed ELSE createOk
    IN  IF ~validOk THEN Out([dev |-> NoDev, links |-> lt, puts |-> 0])
        ELSE Out([dev |-> IF got THEN name ELSE NoDev, links |-> lt2, puts |-> 0])

(* __ni_objectmodel_macvlan_newlink after the rename, on the link table   *)
(* lt: ni_macvlan_validate (validOk), ni_system_macvlan_create (createOk  *)
(* for a new link; -NI_ERROR_DEVICE_EXISTS with new_ifp set or not       *)
(* (handed) for an existing one), the type check and the way out.  The   *)
(* result: the device returned, the link table, cfg_ifp puts.           *)
NewLink(lt, name, validOk, createOk, handed) ==
    LET exists == lt[name] # "none"
        lt2    == IF ~exists /\ createOk THEN [lt EXCEPT ![name] = "macvlan"] ELSE lt
        got    == IF exists THEN handed ELSE createOk
    IN  CASE ~validOk -> Out([dev |-> NoDev, links |-> lt, puts |-> 0])
          [] ~got     -> Out([dev |-> NoDev, links |-> lt2, puts |-> 0])
          [] lt2[name] # "macvlan" ->
                         Out([dev |-> NoDev, links |-> lt2, puts |-> 0])
          [] OTHER    -> Out([dev |-> name, links |-> lt2, puts |-> 0])

(* newDevice(ifname, dict): the dict carries cfgName as the device name. *)
(* argsOk: ni_dbus_variant_get_string and the device argument succeed.  *)
NewDevice(ifname, cfgName) ==
    \E argsOk, validOk, createOk, handed \in BOOLEAN :
        IF ~argsOk
        THEN /\ mvReply' = MvReply("new", FALSE, ifname, NoDev)
             /\ UNCHANGED <<netifs, link, cfgLive>>
        ELSE LET r == NewLink(link, Rename(cfgName, ifname), validOk, createOk, handed)
             IN  /\ link'    = r.links
                 /\ cfgLive' = cfgLive + 1 - r.puts
                 /\ netifs'  = IF r.dev = NoDev THEN netifs ELSE netifs \cup {r.dev}
                 /\ mvReply' = MvReply("new", r.dev # NoDev, ifname, r.dev)

(* deleteDevice on the netif object o of a macvlan: ni_system_macvlan_   *)
(* delete may fail; on success the object is freed.                      *)
DeleteDevice(o) ==
    /\ o \in netifs
    /\ link[o] = "macvlan"
    /\ \E ok \in BOOLEAN :
          /\ link'    = IF ok THEN [link EXCEPT ![o] = "none"] ELSE link
          /\ netifs'  = IF ok THEN netifs \ {o} ELSE netifs
          /\ mvReply' = MvReply("delete", ok, o, o)
          /\ UNCHANGED cfgLive

\* Another program creates a link; the daemon's refresh gives it an object.
LinkAppears(n, t) ==
    /\ link[n] = "none"
    /\ link'   = [link EXCEPT ![n] = t]
    /\ netifs' = netifs \cup {n}
    /\ UNCHANGED <<cfgLive, mvReply>>

MvInit ==
    /\ link    = InitLinks
    /\ cfgLive = 0
    /\ mvReply = MvReply("none", TRUE, CHOOSE n \in IfNames : TRUE, NoDev)

MvTypeOK ==
    /\ link    \in [IfNames -> LinkTypes]
    /\ cfgLive \in Nat
    /\ mvReply \in [op : {"none", "new", "delete"}, ok : BOOLEAN,
                    name : IfNames, dev : IfNames \cup {NoDev}]

=============================================================================
