---------------------------- MODULE AddrconfSignal ----------------------------
(***************************************************************************)
(* ni_objectmodel_addrconf_signal_handler (dbus-objects/addrconf.c):      *)
(* LeaseAcquired, LeaseReleased and LeaseLost signals of the addrconf     *)
(* supplicants, each handled to completion by the D-Bus main loop, feed   *)
(* __ni_system_interface_update_lease and through it                      *)
(* ni_system_update_from_lease, which SystemUpdate models.                *)
(*                                                                         *)
(* Each sender (a supplicant for one interface and service, or any other  *)
(* peer) has a FIFO of signals: D-Bus keeps the order of one connection. *)
(* The supplicants follow the lease events of spec.md: LeaseAcquired on  *)
(* a granted lease (also on renewal), LeaseReleased, LeaseLost.           *)
(***************************************************************************)
EXTENDS Integers, Sequences, FiniteSets, AddrconfPath

CONSTANTS
    NIfaces, FamilySeq, ModeSeq, Targets, DefaultRoute, HandlerKind,
    ConfigMask, RequestMask, NoRequest, LeaseInfo, HandlersMayFail, MaxTime,
    NullSlotChecked,
    Running,        \* the supplicant services that run: "dhcp4", "dhcp6"
    PeerSignals,    \* the signals some other peer may send
    ArgsMayFail,    \* argument demarshalling, lease parsing, refresh may fail
    MaxQueue,       \* bound on the signals queued per sender
    MaxSent         \* bound on the signals sent in a behaviour

VARIABLES
    leases, origin, installed, now, crashed, last, failed,  \* SystemUpdate
    sup,       \* sup[<<i, v>>]: the lease supplicant v holds for ifindex i
    queue,     \* queue[s]: the signals of sender s not yet handled
    link,      \* link[i]: "up" or "down" (__ni_interface_is_up/_is_down)
    event,     \* the last interface event the handler emitted
    live,      \* lease objects allocated and not yet freed
    argvOob,   \* the cleanup loop destroyed an argv entry outside argv[16]
    lost,      \* the supplicants one of whose signals a failing call dropped
    sent,      \* signals sent so far
    wanted,    \* wanted[<<i, v>>]: supplicant v of i has a request to serve
    dropped    \* the supplicants whose last client call was a release returning 0

suVars  == <<leases, origin, installed, now, crashed, last, failed>>
vars    == <<leases, origin, installed, now, crashed, last, failed,
             sup, queue, link, event, live, argvOob, lost, sent, wanted, dropped>>

SU == INSTANCE SystemUpdate

Ifaces   == 1..NIfaces
Services == {"dhcp4", "dhcp6"}
Peer     == <<0, "peer">>
Senders  == (Ifaces \X Running) \cup {Peer}
NoSup    == [none |-> TRUE]
NoEvent  == [ifindex |-> 0, kind |-> "none"]
NoArgs   == [none |-> TRUE]

\* The object path a supplicant signals under for ifindex i.
SupplicantPath(i) == <<"root", "/", "word", "/", "Interface", "/", ToString(i)>>

\* The lease slot a DHCPv4 lease of interface i occupies.
DhcpSlot(i) == <<i, "ipv4", "dhcp">>

\* The slot where the system keeps the lease of supplicant v of interface i.
SupSlot(i, v) == <<i, IF v = "dhcp4" THEN "ipv4" ELSE "ipv6", "dhcp">>

\* The DHCPv4 slots whose lease the interface owns.
Stored == {i \in Ifaces : leases[DhcpSlot(i)] # SU!NoLease}

-----------------------------------------------------------------------------
(* The handler.                                                           *)

\* ni_objectmodel_interface_to_lease: only the DHCPv4 interface yields a
\* lease, ni_addrconf_lease_new(NI_ADDRCONF_DHCP, AF_INET).
InterfaceToLease(iface) == iface = "dhcp4"

\* The lease the handler works on: the signal's argument, or a fresh lease
\* (state NONE, no data) when the signal carries none.
ArgLease(msg) ==
    IF msg.args = NoArgs THEN [state |-> "none", info |-> {}] ELSE msg.args

\* done: while (argc--) ni_dbus_variant_destroy(&argv[argc]).  The first
\* index destroyed is argc - 1; for argc < 0 it lies before argv[0].
CleanupOutOfBounds(argc) == argc # 0 /\ argc - 1 < 0

\* Mutation: the lease is never freed at done.
FreeAtDoneNever(taken) == 0

\* Mutation: the lease is freed at done even after the applier took it.
FreeAtDoneAlways(taken) == 1

\* done: if (lease) ni_addrconf_lease_free(lease): the lease objects freed
\* there, none when the applier took the lease and set the pointer NULL.
FreeAtDone(taken) == IF taken THEN 0 ELSE 1

\* Lease objects the applier frees: the interface's previous lease.
Replaced(i) == IF i \in Stored THEN 1 ELSE 0

\* __ni_system_interface_update_lease(ifp, &lease) for the handler's
\* lease L: a GRANTED lease replaces the interface's one, any other
\* state removes it.
UpdateLease(i, L) ==
    IF L.state = "granted" THEN SU!LeaseGranted(DhcpSlot(i), L.info)
    ELSE SU!LeaseDropped(DhcpSlot(i), L.state)

\* Mutation: LeaseReleased hands the lease on in the state it arrived in.
ReleasedKeepState(L) == L

\* lease->state = NI_ADDRCONF_STATE_RELEASED
Released(L) == [L EXCEPT !.state = "released"]

\* The signal name dispatch for a signal of interface i whose lease L was
\* parsed: the lease is allocated (+1), the applier may free the replaced
\* one, the handler frees L at done unless the applier took it.
Deliver(i, member, L) ==
    LET apply(M) == /\ UpdateLease(i, M)
                    /\ live' = live + 1 - Replaced(i) - FreeAtDone(M.state = "granted")
        emit(cond, kind) ==
            event' = IF cond THEN [ifindex |-> i, kind |-> kind] ELSE event
    IN  CASE member = "LeaseAcquired" /\ L.state # "granted" ->
                 /\ live' = live + 1 - FreeAtDone(FALSE)
                 /\ UNCHANGED <<suVars, event>>
          [] member = "LeaseAcquired" ->
                 apply(L) /\ emit(link[i] = "up", "network-up")
          [] member = "LeaseReleased" ->
                 apply(Released(L)) /\ emit(link[i] = "down", "network-down")
          [] member = "LeaseLost" ->
                 apply([L EXCEPT !.state = "failed"]) /\ emit(TRUE, "address-lost")
          [] OTHER ->
                 /\ live' = live + 1 - FreeAtDone(FALSE)
                 /\ UNCHANGED <<suVars, event>>

\* The faults of the calls the handler makes: ni_dbus_message_get_args_
\* variants < 0 ("args"), ni_global_state_handle(1) == NULL ("refresh"),
\* ni_objectmodel_set_addrconf_lease failing ("lease").
Faults == IF ArgsMayFail THEN {"none", "args", "refresh", "lease"} ELSE {"none"}

\* ni_objectmodel_addrconf_signal_handler for the signal msg: every early
\* "goto done" leaves the system alone; the handler frees what it
\* allocated there.
SignalHandler(msg, f) ==
    LET argc   == IF f = "args" THEN -1 ELSE IF msg.args = NoArgs THEN 0 ELSE 1
        ix     == IF f = "refresh" THEN NoIndex ELSE PathToIfindex(msg.path)
        found  == argc >= 0 /\ ix \in Ifaces       \* ni_interface_by_index
        alloc  == found /\ InterfaceToLease(msg.iface)
        done   == ~alloc \/ (argc >= 1 /\ f = "lease")
    IN  /\ argvOob' = (argvOob \/ CleanupOutOfBounds(argc))
        /\ IF done
           THEN /\ live' = live + (IF alloc THEN 1 - FreeAtDone(FALSE) ELSE 0)
                /\ UNCHANGED <<suVars, event>>
           ELSE Deliver(ix, msg.member, ArgLease(msg))

\* The main loop dispatches the oldest signal of sender s.
Handle(s) ==
    /\ ~crashed
    /\ queue[s] # <<>>
    /\ queue' = [queue EXCEPT ![s] = Tail(@)]
    /\ \E f \in Faults :
           /\ SignalHandler(Head(queue[s]), f)
           /\ lost' = IF f # "none" /\ s # Peer THEN lost \cup {s} ELSE lost
    /\ UNCHANGED <<sup, link, sent, wanted, dropped>>

-----------------------------------------------------------------------------
(* The environment: supplicants, other peers, the link.                    *)

Emit(s, msg) ==
    /\ sent < MaxSent
    /\ Len(queue[s]) < MaxQueue
    /\ queue' = [queue EXCEPT ![s] = Append(@, msg)]
    /\ sent'  = sent + 1

Signal(member, i, v, args) ==
    [member |-> member, path |-> SupplicantPath(i), iface |-> v, args |-> args]

\* The supplicant v of interface i, asked to, acquires or renews a lease.
Acquire(i, v, info) ==
    /\ wanted[<<i, v>>]
    /\ sup' = [sup EXCEPT ![<<i, v>>] = [info |-> info]]
    /\ Emit(<<i, v>>, Signal("LeaseAcquired", i, v, [state |-> "granted", info |-> info]))
    /\ UNCHANGED <<suVars, link, event, live, argvOob, lost, wanted, dropped>>

\* The supplicant releases (LeaseReleased) or loses (LeaseLost) its lease;
\* the lease it sends still carries the state it had.
GiveUp(i, v, member) ==
    /\ sup[<<i, v>>] # NoSup
    /\ sup' = [sup EXCEPT ![<<i, v>>] = NoSup]
    /\ Emit(<<i, v>>, Signal(member, i, v, [state |-> "granted", info |-> sup[<<i, v>>].info]))
    /\ UNCHANGED <<suVars, link, event, live, argvOob, lost>>

\* The supplicant serves a "drop" call (UserRelease of spec.md): it has no
\* request left; a lease it holds it releases, otherwise the call is a no-op.
Drop(i, v) ==
    /\ wanted' = [wanted EXCEPT ![<<i, v>>] = FALSE]
    /\ IF sup[<<i, v>>] # NoSup THEN GiveUp(i, v, "LeaseReleased")
       ELSE UNCHANGED <<suVars, sup, queue, link, event, live, argvOob, lost, sent>>

(* The client calls of dbus-objects/addrconf.c.  ni_dbus_object_call_      *)
(* variant either fails before the supplicant acts ("refused"), returns   *)
(* its reply ("ok"), or fails after the supplicant took the call, its     *)
(* reply lost or late ("noreply").                                        *)
CallOutcomes == {"ok", "refused", "noreply"}

\* ni_objectmodel_addrconf_acquire(object, req): req == NULL returns
\* -NI_ERROR_INVALID_ARGS, a request that does not marshal or a call that
\* fails returns the translated error; otherwise TRUE.
ClientAcquire(i, v) ==
    \E hasReq, marshalOk \in BOOLEAN, out \in CallOutcomes :
        LET called == hasReq /\ marshalOk
        IN  /\ wanted'  = [wanted EXCEPT ![<<i, v>>] = @ \/ (called /\ out # "refused")]
            /\ dropped' = dropped \ {<<i, v>>}
            /\ UNCHANGED <<suVars, sup, queue, link, event, live, argvOob, lost, sent>>

ClientRelease(i, v) ==
    \E out \in CallOutcomes :
        /\ IF out = "refused" THEN UNCHANGED <<suVars, sup, queue, link, event,
                                               live, argvOob, lost, sent, wanted>>
           ELSE Drop(i, v)
        /\ dropped' = IF out = "ok" THEN dropped \cup {<<i, v>>} ELSE dropped \ {<<i, v>>}

\* Any other peer on the bus sends a signal.
PeerSends(msg) ==
    /\ Emit(Peer, msg)
    /\ UNCHANGED <<suVars, sup, link, event, live, argvOob, lost, wanted, dropped>>

LinkChange(i) ==
    /\ link' = [link EXCEPT ![i] = IF @ = "up" THEN "down" ELSE "up"]
    /\ UNCHANGED <<suVars, sup, queue, event, live, argvOob, lost, sent, wanted, dropped>>

Init ==
    /\ SU!Init
    /\ sup     = [s \in Ifaces \X Running |-> NoSup]
    /\ queue   = [s \in Senders |-> <<>>]
    /\ link    \in [Ifaces -> {"up", "down"}]
    /\ event   = NoEvent
    /\ live    = 0
    /\ argvOob = FALSE
    /\ lost    = {}
    /\ sent    = 0
    /\ wanted  = [s \in Ifaces \X Running |-> FALSE]
    /\ dropped = {}

Next ==
    \/ \E s \in Senders : Handle(s)
    \/ \E i \in Ifaces, v \in Running :
           \/ \E info \in SUBSET LeaseInfo : Acquire(i, v, info)
           \/ GiveUp(i, v, "LeaseLost") /\ UNCHANGED <<wanted, dropped>>
           \/ ClientAcquire(i, v)
           \/ ClientRelease(i, v)
    \/ \E msg \in PeerSignals : PeerSends(msg)
    \/ \E i \in Ifaces : LinkChange(i)
    \/ SU!Tick /\ UNCHANGED <<sup, queue, link, event, live, argvOob, lost, sent,
                             wanted, dropped>>

\* A step that takes the oldest signal of s off its queue.  Handle(s) is
\* the only action that does so, and it is enabled exactly when this is.
Dispatched(s) ==
    /\ ~crashed
    /\ queue[s] # <<>>
    /\ queue' = [queue EXCEPT ![s] = Tail(@)]

\* The main loop keeps dispatching each connection's queued signals while
\* the process lives.
Fairness == \A s \in Senders : WF_queue(Dispatched(s))

Spec == Init /\ [][Next]_vars /\ Fairness

-----------------------------------------------------------------------------
TypeOK ==
    /\ SU!TypeOK
    /\ sup     \in [Ifaces \X Running -> {NoSup} \cup [info : SUBSET LeaseInfo]]
    /\ queue   \in [Senders -> Seq([member : STRING, path : Seq(Tokens),
                                    iface : Services,
                                    args : {NoArgs} \cup [state : STRING, info : SUBSET LeaseInfo]])]
    /\ link    \in [Ifaces -> {"up", "down"}]
    /\ event   \in {NoEvent} \cup [ifindex : Ifaces,
                                  kind : {"network-up", "network-down", "address-lost"}]
    /\ live    \in 0..NIfaces
    /\ argvOob \in BOOLEAN
    /\ lost    \subseteq Senders
    /\ sent    \in 0..MaxSent
    /\ wanted  \in [Ifaces \X Running -> BOOLEAN]
    /\ dropped \subseteq Ifaces \X Running

\* Once the signals a supplicant sent have all been handled (and no other
\* peer's signal is pending), the system holds exactly the lease the
\* supplicant holds, with its data: LeaseAcquired, LeaseReleased and
\* LeaseLost, handled in order by ni_objectmodel_addrconf_signal_handler,
\* keep afi->lease in step with the supplicant, as long as no failing
\* call made the handler drop one of them (nothing resends it).
LeaseInSync ==
    \A i \in Ifaces, v \in Running :
        /\ ~crashed
        /\ <<i, v>> \notin lost
        /\ queue[<<i, v>>] = <<>>
        /\ queue[Peer] = <<>>
        => IF sup[<<i, v>>] = NoSup THEN leases[SupSlot(i, v)] = SU!NoLease
           ELSE /\ leases[SupSlot(i, v)] # SU!NoLease
                /\ leases[SupSlot(i, v)].info = sup[<<i, v>>].info

\* Every lease object the handler allocates is either owned by its
\* interface or freed at done: the number of live lease objects equals
\* the number of DHCPv4 leases the interfaces hold (no leak, no double
\* free across the ownership hand-over in __ni_system_interface_update_lease).
LeaseObjectsOwned == live = Cardinality(Stored)

\* The cleanup loop at done only destroys entries of argv[16].
ArgvCleanupInBounds == ~argvOob

=============================================================================
