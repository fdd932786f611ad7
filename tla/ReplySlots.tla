----------------------------- MODULE ReplySlots -----------------------------
(***************************************************************************)
(* What a reply pool promises: a set of slots, each held by at most one    *)
(* DeferredReply until it is released, refused only when every slot is     *)
(* held.                                                                   *)
(***************************************************************************)
EXTENDS Naturals

CONSTANTS None, Unasked

VARIABLES
    slots,   \* the slots of the pool
    held,    \* slots that hold, or are about to hold, a reply capability
    granted  \* what the last reservation returned, None for a refusal

vars == <<slots, held, granted>>

Init == held = {} /\ granted = Unasked

Reserve(s) ==
    /\ s \in slots \ held
    /\ held' = held \cup {s}
    /\ granted' = s
    /\ UNCHANGED slots

Refuse ==
    /\ held = slots
    /\ granted' = None
    /\ UNCHANGED <<slots, held>>

Release(s) ==
    /\ s \in held
    /\ held' = held \ {s}
    /\ UNCHANGED <<slots, granted>>

Next == Refuse \/ \E s \in slots : Reserve(s) \/ Release(s)

Spec == Init /\ [][Next]_vars

=============================================================================
