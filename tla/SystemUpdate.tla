---------------------------- MODULE SystemUpdate ----------------------------
(***************************************************************************)
(* Updating system services (hostname, resolver, NIS) from addrconf       *)
(* leases: ni_system_update_from_lease and its helpers, the code that      *)
(* follows the refcount macros in include/wicked/refcount.h.               *)
(*                                                                         *)
(* __ni_update_info[target].origin records which (interface, lease type,  *)
(* family) configured a service last; a lease of another origin must not  *)
(* overwrite it.  When a lease stops providing a service it owned, the    *)
(* code looks for the oldest other valid lease providing it (the          *)
(* "fallback") or restores the system default.                            *)
(*                                                                         *)
(* Leases are kept per slot <<ifindex, family, mode>> (afi->lease[mode]). *)
(* A lease event stores a GRANTED lease in its slot, empties the slot for *)
(* a RELEASED or FAILED one, and then calls ni_system_update_from_lease   *)
(* with the event's lease.                                                 *)
(***************************************************************************)
EXTENDS Naturals, FiniteSets, Sequences

CONSTANTS
    NIfaces,         \* interfaces have ifindex 1..NIfaces (0 means "no origin")
    FamilySeq,       \* address families in the order afinfo is walked: ipv4, ipv6
    ModeSeq,         \* addrconf modes in enum order (afi->lease[mode])
    Targets,         \* update targets, __NI_ADDRCONF_UPDATE_MAX of them
    DefaultRoute,    \* NI_ADDRCONF_UPDATE_DEFAULT_ROUTE
    HandlerKind,     \* [Targets -> {"none", "keep", "restore"}]: __ni_update_handlers
    ConfigMask,      \* [modes -> SUBSET Targets]: ni_config_addrconf_update_mask
    RequestMask,     \* [slots -> SUBSET Targets \cup {NoRequest}]: afi->request[type]->update
    NoRequest,       \* afi->request[type] == NULL
    LeaseInfo,       \* the targets a lease may carry data for
    HandlersMayFail, \* a put handler (or its backup) may return < 0
    MaxTime,         \* bound on time_acquired
    NullSlotChecked  \* premise: the search skips NULL afi->lease[mode] (212 fixed)

Ifaces   == 1..NIfaces
Families == {FamilySeq[i] : i \in DOMAIN FamilySeq}
Modes    == {ModeSeq[i] : i \in DOMAIN ModeSeq}
Slots    == Ifaces \X Families \X Modes
Handled  == {t \in Targets : HandlerKind[t] # "none"}

NoLease  == [none |-> TRUE]
NoOrigin == <<0, "none", "none">>
System   == [slot |-> NoOrigin, stamp |-> 0]      \* the system's own configuration

\* A lease as ni_system_update_from_lease sees it; valid means GRANTED.
Lease    == [valid : BOOLEAN, info : SUBSET LeaseInfo, stamp : 0..MaxTime]

ASSUME /\ NIfaces \in Nat \ {0}
       /\ DefaultRoute \in Targets
       /\ HandlerKind \in [Targets -> {"none", "keep", "restore"}]
       /\ ConfigMask \in [Modes -> SUBSET Targets]
       /\ RequestMask \in [Slots -> SUBSET Targets \cup {NoRequest}]
       /\ LeaseInfo \subseteq Handled
       /\ HandlersMayFail \in BOOLEAN
       /\ NullSlotChecked \in BOOLEAN

VARIABLES
    leases,      \* leases[k]: the GRANTED lease in slot k, or NoLease
    origin,      \* origin[t]: __ni_update_info[t].origin as a slot, or NoOrigin
    installed,   \* installed[t]: whose data the system service t holds
    now,         \* the clock that stamps time_acquired
    crashed,     \* the process died on a NULL dereference
    last,        \* the last lease event: its slot and state
    failed       \* history: some handler call has returned < 0

vars == <<leases, origin, installed, now, crashed, last, failed>>

-----------------------------------------------------------------------------
(* ni_system_update_capabilities: DEFAULT_ROUTE plus every target with a  *)
(* handler.  The static cache never changes once computed.               *)
UpdateCapabilities == {DefaultRoute} \cup Handled

\* ni_addrconf_lease_is_valid: only GRANTED leases are valid.
LeaseIsValid(L) == L # NoLease /\ L.valid

\* ni_system_lease_capabilities(ifp, lease): what the lease provides,
\* narrowed by the interface's request for that lease type.
LeaseCapabilities(k, L) ==
    IF ~LeaseIsValid(L) THEN {}
    ELSE IF RequestMask[k] = NoRequest THEN L.info
    ELSE L.info \cap RequestMask[k]

\* The data a lease installs, identified by its slot and time_acquired.
DataOf(k, L) == [slot |-> k, stamp |-> L.stamp]

\* The order ni_system_update_find_lease visits slots: interfaces in list
\* order, ipv4 before ipv6, modes in enum order.
IndexIn(seq, x) == CHOOSE i \in DOMAIN seq : seq[i] = x
Rank(k) == ((k[1] - 1) * Len(FamilySeq) + IndexIn(FamilySeq, k[2]) - 1) * Len(ModeSeq)
           + IndexIn(ModeSeq, k[3])

\* ni_system_update_find_lease: the oldest valid lease providing t; the
\* first one visited wins among equal time_acquired.
Providers(lt, t) == {k \in Slots : t \in LeaseCapabilities(k, lt[k])}

FindLease(lt, t) ==
    LET P == Providers(lt, t)
        older(a, b) == \/ lt[a].stamp < lt[b].stamp
                       \/ lt[a].stamp = lt[b].stamp /\ Rank(a) <= Rank(b)
    IN  IF P = {} THEN NoOrigin ELSE CHOOSE k \in P : \A j \in P : older(k, j)

\* ni_system_lease_capabilities dereferences lease->family before it checks
\* anything, and ni_system_update_find_lease_afinfo passes it every
\* afi->lease[mode], including the NULL ones.  The code visits every mode
\* below __NI_ADDRCONF_MAX of both afinfos, more slots than a run models,
\* so NullSlotChecked = FALSE is the code as written and TRUE the premise
\* under which the logic behind the crash is checked: the NULL slots,
\* those the run leaves out among them, are skipped.
FindLeaseDereferencesNull(lt) ==
    ~NullSlotChecked /\ \E k \in Slots : lt[k] = NoLease

-----------------------------------------------------------------------------
(* One target of the first loop of ni_system_update_from_lease, for the  *)
(* lease L of slot k: the target's new origin and installed data, and    *)
(* whether it lands in clear_mask.  permitted is the update_permitted    *)
(* mask, mask the lease's capabilities, fails the targets whose handler  *)
(* fails in this call.                                                   *)
Outcome(o, d, c) == [origin |-> o, data |-> d, cleared |-> c]

\* ni_system_update_service: no handler is a no-op; a failing handler
\* leaves the service and its origin as they were.
UpdateService(t, k, L, fails) ==
    CASE HandlerKind[t] = "none" -> Outcome(origin[t], installed[t], FALSE)
      [] t \in fails             -> Outcome(origin[t], installed[t], TRUE)
      [] OTHER                   -> Outcome(k, DataOf(k, L), FALSE)

\* Mutation: clearing only origin.ifindex instead of the whole origin.
FirstLoopClearIfindexOnly(t, k, L, permitted, mask, fails) ==
    LET o == origin[t]
        unchanged == Outcome(o, installed[t], FALSE)
    IN  CASE t \notin permitted                 -> unchanged
          [] o # NoOrigin /\ o # k              -> unchanged
          [] o # NoOrigin /\ t \notin mask      -> Outcome(<<0, o[2], o[3]>>, installed[t], TRUE)
          [] o = NoOrigin /\ t \notin mask      -> unchanged
          [] OTHER -> UpdateService(t, k, L, fails)

\* Mutation: the origin is not cleared when its lease stops providing t.
FirstLoopKeepOrigin(t, k, L, permitted, mask, fails) ==
    LET o == origin[t]
        unchanged == Outcome(o, installed[t], FALSE)
    IN  CASE t \notin permitted                 -> unchanged
          [] o # NoOrigin /\ o # k              -> unchanged
          [] o # NoOrigin /\ t \notin mask      -> Outcome(o, installed[t], TRUE)
          [] o = NoOrigin /\ t \notin mask      -> unchanged
          [] OTHER -> UpdateService(t, k, L, fails)

\* Mutation: the origin check compares the ifindex only.
FirstLoopIfindexOnly(t, k, L, permitted, mask, fails) ==
    LET o == origin[t]
        unchanged == Outcome(o, installed[t], FALSE)
    IN  CASE t \notin permitted                 -> unchanged
          [] o # NoOrigin /\ o[1] # k[1]        -> unchanged
          [] o # NoOrigin /\ t \notin mask      -> Outcome(NoOrigin, installed[t], TRUE)
          [] o = NoOrigin /\ t \notin mask      -> unchanged
          [] OTHER -> UpdateService(t, k, L, fails)

FirstLoop(t, k, L, permitted, mask, fails) ==
    LET o == origin[t]
        unchanged == Outcome(o, installed[t], FALSE)
    IN  CASE t \notin permitted                 -> unchanged
          [] o # NoOrigin /\ o # k              -> unchanged
          [] o # NoOrigin /\ t \notin mask      -> Outcome(NoOrigin, installed[t], TRUE)
          [] o = NoOrigin /\ t \notin mask      -> unchanged
          [] OTHER -> UpdateService(t, k, L, fails)

\* ni_system_restore_service: handler(nih, NULL).  The hostname handler
\* returns 0 and leaves the hostname; resolver and NIS restore the backup.
RestoreService(t, d) == IF HandlerKind[t] = "restore" THEN System ELSE d

\* Mutation: the second loop restores without looking for another lease.
FallbackRestoreOnly(t, lt, first, fails) ==
    Outcome(first.origin, RestoreService(t, first.data), TRUE)

\* Mutation: the second loop records the best lease as origin but does
\* not install its data.
FallbackOriginOnly(t, lt, first, fails) ==
    LET best == FindLease(lt, t)
    IN  IF best = NoOrigin \/ t \in fails
        THEN Outcome(first.origin, RestoreService(t, first.data), TRUE)
        ELSE Outcome(best, first.data, TRUE)

\* The second loop for a target in clear_mask: configure it from the best
\* other lease, else restore it.  The origin is only written on success.
Fallback(t, lt, first, fails) ==
    LET best == FindLease(lt, t)
    IN  IF best = NoOrigin \/ t \in fails
        THEN Outcome(first.origin, RestoreService(t, first.data), TRUE)
        ELSE Outcome(best, DataOf(best, lt[best]), TRUE)

\* ni_system_update_from_lease(ifp, lease), with lt the lease table after
\* the event.
UpdateFromLease(k, L, lt, fails1, fails2) ==
    LET permitted == ConfigMask[k[3]] \cap UpdateCapabilities
        mask      == LeaseCapabilities(k, L)
        first     == [t \in Targets |-> FirstLoop(t, k, L, permitted, mask, fails1)]
        clear     == {t \in Targets : first[t].cleared}
        dies      == clear # {} /\ FindLeaseDereferencesNull(lt)
        final     == [t \in Targets |->
                        IF t \in clear /\ ~dies THEN Fallback(t, lt, first[t], fails2)
                        ELSE first[t]]
    IN  IF permitted = {} THEN /\ UNCHANGED <<origin, installed, crashed>>
        ELSE /\ origin'    = [t \in Targets |-> final[t].origin]
             /\ installed' = [t \in Targets |-> final[t].data]
             /\ crashed'   = dies

FailSets == IF HandlersMayFail THEN SUBSET Handled ELSE {{}}

-----------------------------------------------------------------------------
Init ==
    /\ leases    = [k \in Slots |-> NoLease]
    /\ origin    = [t \in Targets |-> NoOrigin]
    /\ installed = [t \in Targets |-> System]
    /\ now       = 0
    /\ crashed   = FALSE
    /\ last      = [slot |-> NoOrigin, state |-> "none"]
    /\ failed    = FALSE

\* A GRANTED lease for slot k arrives: it replaces the slot's lease and the
\* services are updated from it.
LeaseGranted(k, info) ==
    LET L  == [valid |-> TRUE, info |-> info, stamp |-> now]
        lt == [leases EXCEPT ![k] = L]
    IN  /\ ~crashed
        /\ leases' = lt
        /\ \E f1, f2 \in FailSets : /\ UpdateFromLease(k, L, lt, f1, f2)
                                   /\ failed' = (failed \/ f1 \cup f2 # {})
        /\ last' = [slot |-> k, state |-> "granted"]
        /\ UNCHANGED now

\* A RELEASED or FAILED lease for slot k: the slot is emptied and the
\* services are updated from the (invalid) lease.
LeaseDropped(k, state) ==
    LET L  == [valid |-> FALSE, info |-> {}, stamp |-> now]
        lt == [leases EXCEPT ![k] = NoLease]
    IN  /\ ~crashed
        /\ leases' = lt
        /\ \E f1, f2 \in FailSets : /\ UpdateFromLease(k, L, lt, f1, f2)
                                   /\ failed' = (failed \/ f1 \cup f2 # {})
        /\ last' = [slot |-> k, state |-> state]
        /\ UNCHANGED now

\* Time passes between lease events (time_acquired has 1s resolution, so
\* two leases may carry the same stamp).
Tick ==
    /\ ~crashed
    /\ now < MaxTime
    /\ now' = now + 1
    /\ UNCHANGED <<leases, origin, installed, crashed, last, failed>>

Next ==
    \/ \E k \in Slots, info \in SUBSET LeaseInfo : LeaseGranted(k, info)
    \/ \E k \in Slots, st \in {"released", "failed"} : LeaseDropped(k, st)
    \/ Tick

Spec == Init /\ [][Next]_vars

-----------------------------------------------------------------------------
TypeOK ==
    /\ leases    \in [Slots -> Lease \cup {NoLease}]
    /\ origin    \in [Targets -> Slots \cup {NoOrigin}]
    /\ installed \in [Targets -> {System} \cup [slot : Slots, stamp : 0..MaxTime]]
    /\ now       \in 0..MaxTime
    /\ crashed   \in BOOLEAN
    /\ last      \in [slot : Slots \cup {NoOrigin}, state : {"none", "granted", "released", "failed"}]
    /\ failed    \in BOOLEAN

\* The fallback never hands a NULL afi->lease[mode] to
\* ni_system_lease_capabilities.
NoNullLeaseDereference == ~crashed

\* A service's origin always names a slot whose current lease still
\* provides that service: a lease that is replaced by one without the
\* data, released or lost gives the service up, so the origin never
\* blocks other interfaces on behalf of a lease that is gone.
OriginNamesProvidingLease ==
    \A t \in Targets :
        origin[t] # NoOrigin => t \in LeaseCapabilities(origin[t], leases[origin[t]])

\* As long as no handler has failed, while a service has an origin the
\* system holds exactly the data of the origin's current lease.
InstalledFromOrigin ==
    ~failed =>
        \A t \in Handled :
            origin[t] # NoOrigin => installed[t] = DataOf(origin[t], leases[origin[t]])

\* A lease event never changes a service, or its origin, that a lease of
\* another (interface, type, family) configured.
OwnedServiceUntouched ==
    [][\A t \in Targets :
         origin[t] \notin {NoOrigin, last'.slot} =>
             /\ installed'[t] = installed[t]
             /\ origin'[t] = origin[t]]_vars

\* As long as no handler has failed, a service that some valid lease
\* provides is always owned by one: whoever releases or stops providing
\* it hands it over to another lease through the fallback (checked while
\* the process is alive).
ServiceOwnedWhileProvided ==
    ~crashed /\ ~failed =>
        \A t \in Handled :
            origin[t] = NoOrigin => Providers(leases, t) = {}

\* The fallback, like the first loop, only installs data from a lease
\* whose type ni_config_addrconf_update_mask permits to update the
\* service.
ServiceFromPermittedLease ==
    \A t \in Handled :
        installed[t] # System => t \in ConfigMask[installed[t].slot[3]]

\* "Deconfigure it completely, and restore the previously saved backup
\* copy" (ni_system_update_from_lease): data a lease put into a service
\* does not outlive the service's ownership by that lease.
NoOrphanedData ==
    \A t \in Handled :
        ~crashed /\ installed[t] # System => origin[t] # NoOrigin

\* A service the second loop deconfigured is no longer recorded as
\* configured by a lease.
RestoredServiceHasNoOrigin ==
    \A t \in Handled :
        ~crashed /\ installed[t] = System => origin[t] = NoOrigin

=============================================================================
