------------------------- MODULE MCObjectAllocator -------------------------
(* A small instance of ObjectAllocator: two RAM untypeds around a device. *)
EXTENDS ObjectAllocator

MCUntypeds == <<[bits |-> 1, device |-> FALSE], [bits |-> 2, device |-> TRUE],
                [bits |-> 3, device |-> FALSE]>>

Frame(bits) == [bits |-> bits, frame |-> TRUE]
Object(bits) == [bits |-> bits, frame |-> FALSE]

(* Single objects, and constructions of mixed sizes. *)
MCPlans == {<<Object(0)>>, <<Frame(1)>>, <<Object(3)>>, <<Object(0), Frame(1)>>,
            <<Object(2), Frame(0), Object(1)>>}

=============================================================================
