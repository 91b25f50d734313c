--------------------------- MODULE RefcountOwnership ---------------------------
(***************************************************************************)
(* What the refcount macros promise, without a counter: every object has  *)
(* a set of owners (the ties that point at it), an object comes to life   *)
(* owned by the tie that created it, and it is freed in exactly the step  *)
(* in which its last owner lets go of it.  A tie may at any time take a   *)
(* share of an object someone owns, let go of its object, or hand its    *)
(* object over to another tie.  The one exception is a move whose new    *)
(* reference the saturated counter refuses: both ties end up empty.      *)
(***************************************************************************)
CONSTANTS Objects, Slots, NULL

VARIABLES
    owner,      \* owner[s]: the object tie s owns a share of, or NULL
    state       \* state[o]: "unalloc", "live" or "freed"

Owned(own) == {own[s] : s \in Slots} \ {NULL}

\* The owners change to own2; whatever lost its last owner is freed.
Reassign(own2) ==
    /\ owner' = own2
    /\ state' = [o \in Objects |->
                    IF state[o] = "live" /\ o \notin Owned(own2) THEN "freed"
                    ELSE state[o]]

\* Tie s, empty, becomes the only owner of a fresh object.
Create(s, o) ==
    /\ owner[s] = NULL
    /\ state[o] = "unalloc"
    /\ owner' = [owner EXCEPT ![s] = o]
    /\ state' = [state EXCEPT ![o] = "live"]

\* Tie t lets go of its object and takes a share of p (NULL: of nothing).
Take(t, p) == Reassign([owner EXCEPT ![t] = p])

\* Tie d takes over the share of tie s, which is left empty.
Transfer(d, s) == Reassign([owner EXCEPT ![d] = owner[s], ![s] = NULL])

\* At the counter's limit a move loses the share: neither tie keeps it.
Abandon(d, s) == Reassign([owner EXCEPT ![d] = NULL, ![s] = NULL])

Init ==
    /\ owner = [s \in Slots |-> NULL]
    /\ state = [o \in Objects |-> "unalloc"]

Next ==
    \/ \E s \in Slots, o \in Objects : Create(s, o)
    \/ \E t \in Slots, p \in Owned(owner) \cup {NULL} : Take(t, p)
    \/ \E d, s \in Slots : Transfer(d, s) \/ Abandon(d, s)

Spec == Init /\ [][Next]_<<owner, state>>

=============================================================================
