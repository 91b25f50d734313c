------------------------------ MODULE Refcount ------------------------------
(***************************************************************************)
(* Reference-counted objects as generated by the macros of                 *)
(* include/wicked/refcount.h: prefix_new, prefix_ref, prefix_free and the  *)
(* "tie" helpers prefix_hold, prefix_drop and prefix_move.                 *)
(*                                                                         *)
(* A tie is any pointer variable that owns one reference (a struct member  *)
(* or a local).  The macros are composed the way the C composes them:     *)
(* hold calls ref and free, move calls hold and drop.  Each composite is  *)
(* an operator from a memory record m = [heap, count, slot] to a record   *)
(* [m, ret] holding the memory after the call and the value it returns.   *)
(***************************************************************************)
EXTENDS Naturals, FiniteSets

CONSTANTS
    Objects,    \* addresses malloc may return
    Slots,      \* pointer variables that own a reference (ties)
    NULL,       \* the null object pointer
    NoTie,      \* a NULL prefix_t ** argument
    MaxRef      \* UINT_MAX of ni_refcount_t, scaled down

ASSUME /\ NULL \notin Objects
       /\ NoTie \notin Slots
       /\ MaxRef \in Nat \ {0}

VARIABLES
    heap,       \* heap[o]: "unalloc", "live" (malloc'ed, initialised) or "freed"
    count,      \* count[o]: obj->refcount
    slot,       \* slot[s]: the object pointer tie s holds
    last,       \* the last call: its name, arguments and return value
    uaf         \* some call read or wrote the refcount of a freed object

vars == <<heap, count, slot, last, uaf>>

Ptr  == Objects \cup {NULL}
Tie  == Slots \cup {NoTie}
Ops  == {"init", "new", "ref", "free", "hold", "drop", "move"}

Mem == [heap |-> heap, count |-> count, slot |-> slot, uaf |-> uaf]

\* The refcount of r is read after r was freed.
Touch(m, r) == IF m.heap[r] = "live" THEN m ELSE [m EXCEPT !.uaf = TRUE]

-----------------------------------------------------------------------------
(* ni_refcount_increment / ni_refcount_decrement.  Only their prototypes  *)
(* are in the header: an increment of a zero or saturated counter fails,  *)
(* a decrement reports whether the counter reached zero.                  *)

\* Mutation: an increment that does not check for saturation.
RefcountIncrementUnchecked(n) == n # 0

RefcountIncrementOk(n) == n # 0 /\ n < MaxRef

RefcountDecrement(n) == IF n = 0 THEN 0 ELSE n - 1

\* Mutation: the object is destroyed one reference too early.
ObjFreeEarly(m, r) ==
    IF r = NULL \/ m.count[r] = 0 THEN IF r = NULL THEN m ELSE Touch(m, r)
    ELSE [m EXCEPT !.count[r] = RefcountDecrement(@),
                   !.heap[r]  = IF m.count[r] <= 2 THEN "freed" ELSE @]

\* prefix_free: drop one reference, destroy and free the object at zero.
ObjFree(m, r) ==
    IF r = NULL \/ m.count[r] = 0 THEN IF r = NULL THEN m ELSE Touch(m, r)
    ELSE [m EXCEPT !.count[r] = RefcountDecrement(@),
                   !.heap[r]  = IF m.count[r] = 1 THEN "freed" ELSE @]

\* Mutation: prefix_ref returning the pointer without incrementing.
ObjRefNoIncrement(m, r) ==
    IF r # NULL /\ RefcountIncrementOk(m.count[r])
    THEN [m |-> m, ret |-> r]
    ELSE [m |-> IF r = NULL THEN m ELSE Touch(m, r), ret |-> NULL]

\* Mutation: prefix_drop freeing the old value without clearing *tie.
ObjDropKeepTie(m, t) ==
    IF t # NoTie
    THEN [m |-> ObjFree(m, m.slot[t]), ret |-> TRUE]
    ELSE [m |-> m, ret |-> FALSE]

\* prefix_ref: take a reference, or return NULL when the increment fails.
ObjRef(m, r) ==
    IF r # NULL /\ RefcountIncrementOk(m.count[r])
    THEN [m |-> [m EXCEPT !.count[r] = @ + 1], ret |-> r]
    ELSE [m |-> IF r = NULL THEN m ELSE Touch(m, r), ret |-> NULL]

\* Mutation: prefix_hold freeing the old value before taking the new one.
ObjHoldFreeFirst(m, t, r) ==
    IF t # NoTie /\ r # NULL
    THEN LET rr == ObjRef(ObjFree(m, m.slot[t]), r)
         IN  [m |-> [rr.m EXCEPT !.slot[t] = rr.ret], ret |-> TRUE]
    ELSE [m |-> m, ret |-> FALSE]

\* prefix_hold: *tie = ref(ref), then free the old value of *tie.
ObjHold(m, t, r) ==
    IF t # NoTie /\ r # NULL
    THEN LET old == m.slot[t]
             rr  == ObjRef(m, r)
         IN  [m |-> ObjFree([rr.m EXCEPT !.slot[t] = rr.ret], old), ret |-> TRUE]
    ELSE [m |-> m, ret |-> FALSE]

\* prefix_drop: *tie = NULL, then free the old value.
ObjDrop(m, t) ==
    IF t # NoTie
    THEN [m |-> ObjFree([m EXCEPT !.slot[t] = NULL], m.slot[t]), ret |-> TRUE]
    ELSE [m |-> m, ret |-> FALSE]

\* prefix_move: hold(dst, *src) and, if that succeeded, drop(src).
ObjMove(m, d, s) ==
    IF s = NoTie THEN [m |-> m, ret |-> FALSE]
    ELSE LET h == ObjHold(m, d, m.slot[s])
         IN  IF h.ret THEN ObjDrop(h.m, s) ELSE h

-----------------------------------------------------------------------------
Init ==
    /\ heap  = [o \in Objects |-> "unalloc"]
    /\ count = [o \in Objects |-> 0]
    /\ slot  = [s \in Slots |-> NULL]
    /\ last  = [op |-> "init", tie |-> NoTie, ref |-> NULL, ok |-> TRUE]
    /\ uaf   = FALSE

\* Apply the result of a call and record it.
Commit(res, op, t, r) ==
    /\ heap'  = res.m.heap
    /\ count' = res.m.count
    /\ slot'  = res.m.slot
    /\ uaf'   = res.m.uaf
    /\ last'  = [op |-> op, tie |-> t, ref |-> r, ok |-> res.ret]

\* s = prefix_new(...): malloc may fail, prefix_init may fail (the object
\* is freed again), ni_refcount_init of &obj->refcount always succeeds.
New(s) ==
    /\ slot[s] = NULL            \* the caller stores into an empty pointer
    /\ \/ /\ \E o \in Objects :
                /\ heap[o] = "unalloc"
                /\ Commit([m |-> [Mem EXCEPT !.heap[o] = "live", !.count[o] = 1,
                                             !.slot[s] = o], ret |-> TRUE],
                          "new", s, o)
       \/ Commit([m |-> Mem, ret |-> FALSE], "new", s, NULL)   \* malloc or init failed

\* d = prefix_ref(s)
Ref(d, s) ==
    /\ slot[d] = NULL
    /\ LET rr == ObjRef(Mem, slot[s])
       IN  Commit([m |-> [rr.m EXCEPT !.slot[d] = rr.ret], ret |-> rr.ret # NULL],
                  "ref", d, slot[s])

\* prefix_free(s); the caller's pointer s is dead afterwards.
Free(s) ==
    /\ slot[s] # NULL
    /\ Commit([m |-> ObjFree([Mem EXCEPT !.slot[s] = NULL], slot[s]), ret |-> TRUE],
              "free", s, slot[s])

\* prefix_hold(t, u): the new reference comes from the pointer u holds.
Hold(t, u) == Commit(ObjHold(Mem, t, slot[u]), "hold", t, slot[u])

Drop(t) == Commit(ObjDrop(Mem, t), "drop", t, NULL)

Move(d, s) ==
    Commit(ObjMove(Mem, d, s), "move", d, IF s = NoTie THEN NULL ELSE slot[s])

Next ==
    \/ \E s \in Slots : New(s) \/ Free(s)
    \/ \E d, s \in Slots : Ref(d, s)
    \/ \E t \in Tie, u \in Slots : Hold(t, u)
    \/ \E t \in Tie : Drop(t)
    \/ \E d \in Slots, s \in Tie : Move(d, s)

Spec == Init /\ [][Next]_vars

-----------------------------------------------------------------------------
Holders(o) == {s \in Slots : slot[s] = o}

TypeOK ==
    /\ heap  \in [Objects -> {"unalloc", "live", "freed"}]
    /\ count \in [Objects -> 0..MaxRef]
    /\ slot  \in [Slots -> Ptr]
    /\ last  \in [op : Ops, tie : Tie, ref : Ptr, ok : BOOLEAN]
    /\ uaf   \in BOOLEAN

\* Across any sequence of new/ref/free/hold/drop/move calls, aliased ties
\* and self-holds included, the refcount of a live object equals the
\* number of ties holding it and is never zero (no leaked object).
RefcountMatchesHolders ==
    \A o \in Objects :
        heap[o] = "live" => count[o] = Cardinality(Holders(o)) /\ count[o] > 0

\* No tie ever points at an object prefix_free has destroyed.
NoDanglingTie ==
    \A s \in Slots : slot[s] # NULL => heap[slot[s]] = "live"

\* No call reads or updates the refcount of an object after it was freed,
\* in particular prefix_hold(tie, *tie) on the last reference, which is
\* safe only because hold takes the new reference before freeing the old.
NoUseAfterFree == ~uaf

\* The counter implements ownership: seen through the ties alone, every
\* sequence of calls is one of RefcountOwnership, in which an object is
\* freed exactly when the last tie holding it lets go, a failed call
\* (saturated counter, NULL argument, failed malloc) changes nothing or
\* empties a tie, and hold and move move shares between ties.
Ownership == INSTANCE RefcountOwnership WITH owner <- slot, state <- heap

ImplementsOwnership == Ownership!Spec

=============================================================================
