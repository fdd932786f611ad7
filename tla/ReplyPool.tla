----------------------------- MODULE ReplyPool -----------------------------
(***************************************************************************)
(* ReplyPool::reserve and release of ipc.rs, on the bits of one word, and  *)
(* the calls that pair them: defer, DeferredReply::reply and discard, or   *)
(* fail to: a discard whose delete is refused, a handle that is dropped.   *)
(* The root that makes these calls is module Outbound.  A word is the set  *)
(* of its bits that are 1: `!` is the complement, `&` the intersection,    *)
(* `|` the union.                                                          *)
(* Modules Ipc and Bootstrap use the pool as a set of slots; this one      *)
(* shows that the word implements the set (module ReplySlots), up to and   *)
(* including a pool as large as the word is wide.                          *)
(***************************************************************************)
EXTENDS Naturals, FiniteSets

CONSTANTS
    Width,    \* u64::BITS
    Start,    \* slots.start
    Capacity, \* slots.len(): the pools to check
    None, Unasked

ASSUME PoolAssumption ==
    /\ Width \in Nat \ {0} /\ Start \in Nat
    /\ Capacity \subseteq 1..Width    \* allocate_reply_pool, MAX_DEFERRED_REPLIES <= u64::BITS
    /\ None \notin Nat                \* Option::None is not a slot

VARIABLES
    len,      \* capacity of this pool
    occupied, \* the word
    live,     \* slots of the live DeferredReply values
    reserved, \* slot defer has reserved and not yet given a capability
    granted,  \* history: what the last reserve returned
    lost      \* history: slots whose handle ended without a release

poolVars == <<len, occupied, live, reserved, granted, lost>>

Bit == 0..(Width - 1)
Word == SUBSET Bit

(* 1 << n.  A shift by the width of the word overflows: a release build    *)
(* shifts by the remainder.                                                *)
Shl(n) == {n % Width}

Complement(w) == Bit \ w

trailing_zeros(w) == CHOOSE i \in w : \A j \in w : i <= j

(* w - 1: the lowest bit is borrowed from; zero has none and wraps around. *)
Decrement(w) ==
    IF w = {} THEN Bit
    ELSE LET i == trailing_zeros(w) IN (w \ {i}) \cup 0..(i - 1)

(* Mutant: the width is not special. *)
low_bits_shift(count) == Decrement(Shl(count))

low_bits(count) == IF count = Width THEN Bit ELSE Decrement(Shl(count))

PoolInit ==
    /\ len \in Capacity
    /\ occupied = {} /\ live = {} /\ reserved = None /\ granted = Unasked
    /\ lost = {}

-----------------------------------------------------------------------------
Reserve ==
    /\ reserved = None
    /\ LET available == Complement(occupied) \cap low_bits(len) IN
       IF available = {}
       THEN granted' = None /\ UNCHANGED <<occupied, reserved>>
       ELSE /\ occupied' = occupied \cup Shl(trailing_zeros(available))
            /\ reserved' = Start + trailing_zeros(available)
            /\ granted' = reserved'
    /\ UNCHANGED <<len, live, lost>>

(* release of a slot outside the pool does nothing. *)
Release(slot) ==
    occupied' = IF slot >= Start /\ slot - Start < len
                THEN occupied \cap Complement(Shl(slot - Start)) ELSE occupied

-----------------------------------------------------------------------------
(* defer, once save_caller has succeeded or failed *)
Saved ==
    /\ reserved # None
    /\ live' = live \cup {reserved}
    /\ reserved' = None
    /\ UNCHANGED <<len, occupied, granted, lost>>

(* Mutant: the reservation is kept. *)
SaveCallerFailsKeeps ==
    /\ reserved # None
    /\ reserved' = None
    /\ UNCHANGED <<len, occupied, live, granted, lost>>

SaveCallerFails ==
    /\ reserved # None
    /\ Release(reserved)
    /\ reserved' = None
    /\ UNCHANGED <<len, live, granted, lost>>

(* DeferredReply::reply, or a discard whose delete succeeds, to the end *)
Consume(slot) ==
    /\ reserved = None /\ slot \in live
    /\ live' = live \ {slot}
    /\ Release(slot)
    /\ UNCHANGED <<len, reserved, granted, lost>>

(* A handle that ends without release: discard consumes it also when its    *)
(* delete is refused, and DeferredReply has no Drop.  The bit stays set.    *)
Abandon(slot) ==
    /\ reserved = None /\ slot \in live
    /\ live' = live \ {slot}
    /\ lost' = lost \cup {slot}
    /\ UNCHANGED <<len, occupied, reserved, granted>>

PoolTypeOK ==
    /\ len \in Capacity /\ occupied \in Word
    /\ live \subseteq Start..(Start + len - 1) /\ lost \subseteq Start..(Start + len - 1)
    /\ reserved \in Start..(Start + len - 1) \cup {None}

-----------------------------------------------------------------------------
Held == { Start + i : i \in occupied }

(* The set bits are the slots of the live handles, of the defer in         *)
(* progress, and of the handles that ended without a release, each slot    *)
(* being one of these only: no other slot leaks, none is given out twice,  *)
(* and one that may still hold a capability is never given out again.      *)
BitsAreHandles ==
    /\ Held = live \cup ({reserved} \ {None}) \cup lost
    /\ live \cap lost = {} /\ reserved \notin live \cup lost

Abstract == INSTANCE ReplySlots WITH slots <- Start..(Start + len - 1), held <- Held

(* Every reserve and release is a step of the set of slots: each slot is    *)
(* granted once until released, and none is refused while one is free.      *)
ImplementsSlots == Abstract!Spec

=============================================================================
