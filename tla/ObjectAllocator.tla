-------------------------- MODULE ObjectAllocator --------------------------
(***************************************************************************)
(* Kernel objects from boot-time untyped memory: allocate_blueprint of     *)
(* object.rs inside FreeSlots::try_allocate, for objects allocated alone   *)
(* and for the constructions of task.rs, whose failure deletes them again. *)
(*                                                                         *)
(* The kernel keeps a watermark per untyped.  BootInfo only tells the size *)
(* an untyped had at boot, so the search asks one after the other and goes *)
(* on when the kernel says NotEnoughMemory.  A deleted object does not     *)
(* lower the watermark; only an untyped without children starts over.      *)
(* Copied and minted capabilities take no memory and are left out here.    *)
(***************************************************************************)
EXTENDS Naturals, Sequences, FiniteSets

CONSTANTS
    Untypeds,    \* bootinfo.untyped_list(): size_bits and is_device of each
    Plans,       \* the blueprints an operation allocates, in order
    First, End   \* the empty slots BootInfo reports: First .. End - 1

ASSUME AllocatorAssumption ==
    /\ Untypeds \in Seq([bits : Nat, device : BOOLEAN])
    /\ Plans \subseteq Seq([bits : Nat, frame : BOOLEAN]) \ {<<>>}
    /\ First \in Nat /\ End \in Nat /\ First < End

VARIABLES
    mark,       \* kernel: watermark of each untyped
    objects,    \* kernel: live objects, where they are and the slot naming them
    start,      \* FreeSlots.remaining.start
    phase,      \* "idle", "build" or "rollback"
    todo,       \* objects the operation still has to make
    at,         \* index of the loop over the untypeds
    checkpoint, \* start when the operation began
    cursor,     \* next slot delete_root_slots deletes is cursor - 1
    result,     \* what the last operation returned, or will return
    before      \* history: mark and objects when the operation began

vars == <<mark, objects, start, phase, todo, at, checkpoint, cursor, result, before>>

Untyped == 1..Len(Untypeds)
Size(bits) == 2^bits
Slot == First..(End - 1)

Init ==
    /\ mark = [u \in Untyped |-> 0]
    /\ objects = {}
    /\ start = First
    /\ phase = "idle"
    /\ todo = <<>>
    /\ at = 1
    /\ checkpoint = First
    /\ cursor = First
    /\ result = "ok"
    /\ before = [mark |-> mark, objects |-> objects]

-----------------------------------------------------------------------------
(***************************************************************************)
(* The kernel's Untyped_Retype of one object                               *)
(***************************************************************************)
Children(u, objs) == {o \in objs : o.untyped = u}

(* Where the next object may go: an untyped without children starts over. *)
FreeFrom(u, m, objs) == IF Children(u, objs) = {} THEN 0 ELSE m[u]

FreeBytes(u, m, objs) == Size(Untypeds[u].bits) - FreeFrom(u, m, objs)

AlignUp(n, size) == ((n + size - 1) \div size) * size

SlotTaken(s) == \E o \in objects : o.slot = s

(* The destination is checked before the memory.  Only frames may be made   *)
(* from device memory.                                                      *)
KernelAnswer(u, want) ==
    IF SlotTaken(start) \/ (Untypeds[u].device /\ ~want.frame) THEN "kernel"
    ELSE IF FreeBytes(u, mark, objects) < Size(want.bits) THEN "not_enough_memory"
    ELSE "ok"

NewObject(u, want) ==
    [untyped |-> u, bits |-> want.bits, slot |-> start,
     lo |-> AlignUp(FreeFrom(u, mark, objects), Size(want.bits))]

-----------------------------------------------------------------------------
(***************************************************************************)
(* allocate_blueprint for Head(todo)                                       *)
(***************************************************************************)

(* allocate_frame, allocate_endpoint, ... make one object, create_task many. *)
Begin(plan) ==
    /\ phase = "idle"
    /\ phase' = "build"
    /\ todo' = plan
    /\ at' = 1
    /\ checkpoint' = start
    /\ result' = "ok"
    /\ before' = [mark |-> mark, objects |-> objects]
    /\ UNCHANGED <<mark, objects, start, cursor>>

(* An error return; whatever was made before it has to be rolled back. *)
Fail(error) ==
    /\ phase' = "rollback"
    /\ cursor' = start
    /\ result' = error
    /\ UNCHANGED <<mark, objects, start, todo, at, checkpoint, before>>

Allocating == phase = "build" /\ todo # <<>>

(* try_allocate with an empty range *)
NoFreeSlots ==
    /\ Allocating
    /\ start = End
    /\ Fail("no_slots")

(* Mutant: an untyped exactly as large as the object is passed over. *)
UnsuitableExact(u) == Untypeds[u].device \/ Untypeds[u].bits <= Head(todo).bits

(* Mutant: device memory is used as well. *)
UnsuitableDevice(u) == Untypeds[u].bits < Head(todo).bits

(* The descriptor rules the untyped out: device memory, or too small at boot. *)
Unsuitable(u) == Untypeds[u].device \/ Untypeds[u].bits < Head(todo).bits

NextUntyped ==
    /\ at' = at + 1
    /\ UNCHANGED <<mark, objects, start, phase, todo, checkpoint, cursor, result, before>>

SkipUntyped ==
    /\ Allocating /\ start < End /\ at \in Untyped
    /\ Unsuitable(at)
    /\ NextUntyped

(* One retype: success commits the slot, NotEnoughMemory goes on with the   *)
(* next untyped and the same slot, and any other error ends the search.     *)
Retype ==
    /\ Allocating /\ start < End /\ at \in Untyped
    /\ ~Unsuitable(at)
    /\ CASE KernelAnswer(at, Head(todo)) = "kernel" -> Fail("kernel")
         [] KernelAnswer(at, Head(todo)) = "not_enough_memory" -> NextUntyped
         [] OTHER ->
            LET new == NewObject(at, Head(todo)) IN
            /\ objects' = objects \cup {new}
            /\ mark' = [mark EXCEPT ![at] = new.lo + Size(new.bits)]
            /\ start' = start + 1
            /\ todo' = Tail(todo)
            /\ at' = 1
            /\ UNCHANGED <<phase, checkpoint, cursor, result, before>>

NoKernelMemory ==
    /\ Allocating /\ start < End
    /\ at \notin Untyped
    /\ Fail("no_memory")

(* A step of the construction that makes no object is refused. *)
StepFails ==
    /\ phase = "build"
    /\ start > checkpoint
    /\ at = 1
    /\ Fail("refused")

Return(value) ==
    /\ phase' = "idle"
    /\ todo' = <<>>
    /\ at' = 1
    /\ checkpoint' = First
    /\ cursor' = First
    /\ result' = value
    /\ before' = [mark |-> [u \in Untyped |-> 0], objects |-> {}]

Commit ==
    /\ phase = "build"
    /\ todo = <<>>
    /\ Return("ok")
    /\ UNCHANGED <<mark, objects, start>>

-----------------------------------------------------------------------------
(***************************************************************************)
(* Bootstrap::rollback                                                     *)
(***************************************************************************)
RollbackDelete ==
    /\ phase = "rollback"
    /\ cursor > checkpoint
    /\ objects' = {o \in objects : o.slot # cursor - 1}
    /\ cursor' = cursor - 1
    /\ UNCHANGED <<mark, start, phase, todo, at, checkpoint, result, before>>

RollbackDeleteFails ==
    /\ phase = "rollback"
    /\ cursor > checkpoint
    /\ Return("rollback_failed")
    /\ UNCHANGED <<mark, objects, start>>

(* Mutant: the slots are made reusable, their objects are not deleted. *)
RollbackRewindOnly ==
    /\ phase = "rollback"
    /\ Return(result)
    /\ start' = checkpoint
    /\ UNCHANGED <<mark, objects>>

RollbackRewind ==
    /\ phase = "rollback"
    /\ cursor = checkpoint
    /\ Return(result)
    /\ start' = checkpoint
    /\ UNCHANGED <<mark, objects>>

-----------------------------------------------------------------------------
Step ==
    \/ NoFreeSlots \/ SkipUntyped \/ Retype \/ NoKernelMemory \/ StepFails \/ Commit
    \/ RollbackDelete \/ RollbackDeleteFails \/ RollbackRewind

Next == (\E plan \in Plans : Begin(plan)) \/ Step

Spec == Init /\ [][Next]_vars

-----------------------------------------------------------------------------
(***************************************************************************)
(* Properties                                                              *)
(***************************************************************************)
End1(o) == o.lo + Size(o.bits)

(* Each variable ranges over the values its Rust or kernel type allows. *)
TypeOK ==
    /\ \A u \in Untyped : mark[u] \in 0..Size(Untypeds[u].bits)
    /\ \A o \in objects : o.untyped \in Untyped /\ o.slot \in Slot
    /\ start \in First..End
    /\ phase \in {"idle", "build", "rollback"}
    /\ at \in 1..(Len(Untypeds) + 1)
    /\ checkpoint \in First..End /\ cursor \in First..End
    /\ result \in {"ok", "no_slots", "no_memory", "kernel", "refused", "rollback_failed"}

(* Live objects never share memory: each lies in normal RAM inside its      *)
(* untyped, aligned to its size and below the watermark, through any        *)
(* sequence of allocations, failures, rollbacks and restarts of an untyped. *)
ObjectsExclusive ==
    /\ \A o \in objects :
          /\ ~Untypeds[o.untyped].device
          /\ o.lo % Size(o.bits) = 0
          /\ End1(o) <= mark[o.untyped]
          /\ End1(o) <= Size(Untypeds[o.untyped].bits)
    /\ \A o, p \in objects :
          o # p /\ o.untyped = p.untyped => End1(o) <= p.lo \/ End1(p) <= o.lo

(* Every live object is named by a slot of its own below `start`: no error  *)
(* path leaves memory in use that no allocated slot names.                  *)
EveryObjectNamed ==
    /\ \A o \in objects : o.slot < start
    /\ \A o, p \in objects : o.slot = p.slot => o = p

(* The kernel never refuses a retype for anything but memory: the same slot *)
(* really is safe to retry, and KernelAllocationFailed is not returned.     *)
OnlyMemoryRefuses == result # "kernel"

(* Memory and slots agree through every failure and rollback: no memory is  *)
(* shared, none is in use without a slot that names it, and no retype meets *)
(* an occupied slot.                                                        *)
AllocatorInv == TypeOK /\ ObjectsExclusive /\ EveryObjectNamed /\ OnlyMemoryRefuses

(* NoKernelMemory is the truth: when the search gives up, no untyped in RAM *)
(* has room for the object, although BootInfo's sizes are out of date.      *)
NoMemoryIsTrue ==
    [][result # "no_memory" /\ result' = "no_memory" =>
         \A u \in Untyped : ~Untypeds[u].device =>
             FreeBytes(u, mark, objects) < Size(Head(todo).bits)]_vars

(* A failure that is rolled back leaves the objects of others alone and     *)
(* costs memory only in an untyped that also holds something else: one the  *)
(* failed construction had to itself is as good as before.                  *)
FailureReturnsMemory ==
    [][phase = "rollback" /\ phase' = "idle" /\ result' # "rollback_failed" =>
         /\ objects' = before.objects
         /\ \A u \in Untyped :
               \/ Children(u, objects') # {}
               \/ FreeBytes(u, mark', objects') >= FreeBytes(u, before.mark, before.objects)]_vars

=============================================================================
