----------------------------- MODULE Bootstrap -----------------------------
(***************************************************************************)
(* Ownership of the root CSpace: the slot allocator of free_slots.rs, the  *)
(* Bootstrap operations of boot.rs, and the multi-step constructions of    *)
(* task.rs (cspace.rs, vspace.rs, thread.rs) with their rollback.          *)
(*                                                                         *)
(* Every kernel object the root owns sits in a slot of its CNode.  Free    *)
(* slots are the suffix from `start`; a construction that fails half way   *)
(* deletes what it made, last slot first, and only then rewinds `start`.   *)
(***************************************************************************)
EXTENDS Integers, Sequences, FiniteSets

CONSTANTS
    First, End,     \* the empty range BootInfo reports: First .. End - 1
    Mints,          \* how many capabilities a TaskConfig may install
    Tables,         \* how many translation tables its pages may need
    PoolSizes,      \* capacities asked of allocate_reply_pool
    Kinds,          \* objects allocated one at a time
    MaxHandles      \* bound: handles the caller keeps

ASSUME BootstrapAssumption ==
    /\ First \in Nat /\ End \in Nat /\ First < End   \* Bootstrap::new refuses an empty range
    /\ Mints \subseteq Nat /\ Tables \subseteq Nat
    /\ PoolSizes \subseteq Nat
    /\ Kinds \subseteq {"frame", "endpoint", "notification"}
    /\ MaxHandles \in Nat

MaxDeferredReplies == 64

VARIABLES
    start,      \* FreeSlots.remaining.start
    root,       \* kernel: what each root slot holds
    handles,    \* values returned to the caller with the slots they own, and leaks
    phase,      \* "idle", or inside a construction: "build", "rollback"
    op,         \* the construction under way
    todo,       \* its remaining steps
    checkpoint, \* its checkpoint
    cursor,     \* next slot delete_root_slots has to delete is cursor - 1
    result,     \* what the last operation returned
    before      \* history: start and root when the construction began, and its plan

vars == <<start, root, handles, phase, op, todo, checkpoint, cursor, result, before>>
local == <<op, todo, checkpoint, before>>

Slot == First..(End - 1)

(* Objects that take a root slot; "mapping" is a copied frame capability. *)
Object == {"cnode", "vspace", "table", "frame", "tcb", "mapping", "endpoint", "notification"}
Content == Object \cup {"reply", "empty"}

(***************************************************************************)
(* Constructions as sequences of kernel operations and fallible checks, in *)
(* program order.  A member of Object takes the next slot; any other step  *)
(* works on what is already there.                                         *)
(***************************************************************************)
Repeat(step, n) == [i \in 1..(n * Len(step)) |-> step[((i - 1) % Len(step)) + 1]]

CSpaceScript(m) == <<"validate", "cnode", "tracker">> \o Repeat(<<"mint", "mark_occupied">>, m)

VSpaceScript(t) == <<"vspace", "asid">> \o Repeat(<<"table", "table_map">>, t)

MapFrameScript == <<"aligned", "mapping", "frame_map">>

ThreadScript == <<"addresses", "tcb", "configure", "registers">>

TaskScript(m, t) ==
    CSpaceScript(m) \o VSpaceScript(t) \o MapFrameScript
      \o Repeat(<<"frame">> \o MapFrameScript, 3)
      \o ThreadScript

(* Mutant: recovery also allocates the frame it maps. *)
RecoveryScriptAllocates == <<"frame">> \o MapFrameScript

RecoveryScript == MapFrameScript

(* How many slots the first n steps of a script take. *)
Taken(script, n) == Cardinality({i \in 1..n : script[i] \in Object})

(* A handle owns lo .. hi - 1, filled by the steps of `script`. *)
Handle(kind, lo, hi, script) == [kind |-> kind, lo |-> lo, hi |-> hi, script |-> script]

(* The bound on what the caller keeps. *)
Room == Cardinality(handles) < MaxHandles

(* Values of a construction's locals while there is none. *)
NoConstruction == [start |-> First, root |-> [s \in Slot |-> "empty"], script |-> <<>>]

Init ==
    /\ start = First
    /\ root = [s \in Slot |-> "empty"]
    /\ handles = {}
    /\ phase = "idle"
    /\ op = "none"
    /\ todo = <<>>
    /\ checkpoint = First
    /\ cursor = First
    /\ result = "ok"
    /\ before = NoConstruction

-----------------------------------------------------------------------------
(***************************************************************************)
(* FreeSlots::try_allocate around one kernel call: the slot is committed   *)
(* only if the kernel filled it, which it does only if it was empty.       *)
(***************************************************************************)
Fill(kind) ==
    /\ start < End
    /\ root[start] = "empty"
    /\ root' = [root EXCEPT ![start] = kind]
    /\ start' = start + 1

(* allocate_frame, allocate_endpoint, allocate_notification *)
Allocate(kind) ==
    /\ phase = "idle" /\ Room
    /\ Fill(kind)
    /\ handles' = handles \cup {Handle("object", start, start + 1, <<kind>>)}
    /\ result' = "ok"
    /\ UNCHANGED <<phase, cursor, local>>

(* NoFreeSlots, NoKernelMemory or KernelAllocationFailed *)
AllocateFails ==
    /\ phase = "idle"
    /\ result' = "error"
    /\ UNCHANGED <<start, root, handles, phase, cursor, local>>

(* allocate_reply_pool: FreeSlots::reserve takes n empty slots at once. *)
AllocateReplyPool(n) ==
    /\ phase = "idle" /\ Room
    /\ n # 0 /\ n <= MaxDeferredReplies
    /\ start + n <= End
    /\ start' = start + n
    /\ handles' = handles \cup {Handle("pool", start, start + n, <<>>)}
    /\ result' = "ok"
    /\ UNCHANGED <<root, phase, cursor, local>>

Owns(kind, s) == \E h \in handles : h.kind = kind /\ s \in h.lo..(h.hi - 1)

(* save_caller into a pool slot, refused by the kernel unless it is empty *)
SaveCaller(s) ==
    /\ phase = "idle"
    /\ Owns("pool", s)
    /\ root[s] = "empty"
    /\ root' = [root EXCEPT ![s] = "reply"]
    /\ UNCHANGED <<start, handles, phase, cursor, result, local>>

(* A saved reply is used, discarded with delete_root_slot, or cancelled. *)
DeleteReply(s) ==
    /\ phase = "idle"
    /\ Owns("pool", s)
    /\ root[s] = "reply"
    /\ root' = [root EXCEPT ![s] = "empty"]
    /\ UNCHANGED <<start, handles, phase, cursor, result, local>>

-----------------------------------------------------------------------------
(***************************************************************************)
(* create_task and map_recovery_frame                                      *)
(***************************************************************************)
Begin(name, script) ==
    /\ phase = "idle" /\ Room
    /\ phase' = "build"
    /\ op' = name
    /\ todo' = script
    /\ checkpoint' = start
    /\ before' = [start |-> start, root |-> root, script |-> script]
    /\ result' = "none"
    /\ UNCHANGED <<start, root, handles, cursor>>

(* After TaskLayout::validate has accepted the layout; a refused layout is  *)
(* AllocateFails: nothing has been touched.                                 *)
CreateTask(m, t) == Begin("task", TaskScript(m, t))

MapRecoveryFrame ==
    /\ \E h \in handles : h.kind = "task"
    /\ Begin("mapping", RecoveryScript)

StepObject ==
    /\ phase = "build"
    /\ todo # <<>>
    /\ Head(todo) \in Object
    /\ Fill(Head(todo))
    /\ todo' = Tail(todo)
    /\ UNCHANGED <<handles, phase, op, checkpoint, cursor, result, before>>

StepInvoke ==
    /\ phase = "build"
    /\ todo # <<>>
    /\ Head(todo) \notin Object
    /\ todo' = Tail(todo)
    /\ UNCHANGED <<start, root, handles, phase, op, checkpoint, cursor, result, before>>

(* Any step may fail: the `?` hands over to rollback.  committed_slots is   *)
(* the range checkpoint .. start.                                           *)
StepFails ==
    /\ phase = "build"
    /\ todo # <<>>
    /\ phase' = "rollback"
    /\ cursor' = start
    /\ UNCHANGED <<start, root, handles, result, local>>

Return(value) ==
    /\ phase' = "idle"
    /\ op' = "none"
    /\ todo' = <<>>
    /\ result' = value
    /\ checkpoint' = First
    /\ cursor' = First
    /\ before' = NoConstruction

(* All steps done.  A recovery mapping must have taken exactly one slot. *)
Commit ==
    /\ phase = "build"
    /\ todo = <<>>
    /\ IF op = "mapping" /\ start - checkpoint # 1
       THEN Return("rollback_failed") /\ UNCHANGED handles
       ELSE /\ Return("ok")
            /\ handles' = handles \cup {Handle(op, checkpoint, start, before.script)}
    /\ UNCHANGED <<start, root>>

-----------------------------------------------------------------------------
(***************************************************************************)
(* Bootstrap::rollback: delete_root_slots in reverse, then rewind          *)
(***************************************************************************)

(* Mutant: the reversed range starts one slot too early. *)
RollbackDeletePast ==
    /\ phase = "rollback"
    /\ cursor >= checkpoint /\ cursor > First
    /\ root' = [root EXCEPT ![cursor - 1] = "empty"]
    /\ cursor' = cursor - 1
    /\ UNCHANGED <<start, handles, phase, result, local>>

RollbackDelete ==
    /\ phase = "rollback"
    /\ cursor > checkpoint
    /\ root' = [root EXCEPT ![cursor - 1] = "empty"]
    /\ cursor' = cursor - 1
    /\ UNCHANGED <<start, handles, phase, result, local>>

(* Mutant: a refused delete starts the rollback over. *)
RollbackDeleteRetries ==
    /\ phase = "rollback"
    /\ cursor > checkpoint
    /\ cursor' = start
    /\ UNCHANGED <<start, root, handles, phase, result, local>>

(* A delete fails: the rest is abandoned and `start` is not rewound.  The   *)
(* slots are out of use for good; history records them as leaked.           *)
RollbackDeleteFails ==
    /\ phase = "rollback"
    /\ cursor > checkpoint
    /\ Return("rollback_failed")
    /\ handles' = handles \cup {Handle("leaked", checkpoint, start, <<>>)}
    /\ UNCHANGED <<start, root>>

(* Mutant: rewinds before the slots are empty. *)
RollbackRewindEarly ==
    /\ phase = "rollback"
    /\ Return("error")
    /\ start' = checkpoint
    /\ UNCHANGED <<root, handles>>

(* Mutant: forgets to rewind. *)
RollbackNoRewind ==
    /\ phase = "rollback"
    /\ cursor = checkpoint
    /\ Return("error")
    /\ UNCHANGED <<start, root, handles>>

RollbackRewind ==
    /\ phase = "rollback"
    /\ cursor = checkpoint
    /\ Return("error")
    /\ start' = checkpoint
    /\ UNCHANGED <<root, handles>>

-----------------------------------------------------------------------------
Construct ==
    \/ StepObject \/ StepInvoke \/ StepFails \/ Commit
    \/ RollbackDelete \/ RollbackDeleteFails \/ RollbackRewind

Next ==
    \/ \E kind \in Kinds : Allocate(kind)
    \/ AllocateFails
    \/ \E n \in PoolSizes : AllocateReplyPool(n)
    \/ \E s \in Slot : SaveCaller(s) \/ DeleteReply(s)
    \/ \E m \in Mints, t \in Tables : CreateTask(m, t)
    \/ MapRecoveryFrame
    \/ Construct

(* The root thread runs a construction to its end: it waits for nobody. *)
Spec == Init /\ [][Next]_vars /\ WF_vars(Construct)

-----------------------------------------------------------------------------
(***************************************************************************)
(* Properties                                                              *)
(***************************************************************************)

(* Each variable ranges over the values its Rust or kernel type allows. *)
TypeOK ==
    /\ start \in First..End
    /\ root \in [Slot -> Content]
    /\ \A h \in handles :
          /\ h.kind \in {"object", "pool", "task", "mapping", "leaked"}
          /\ h.lo \in First..End /\ h.hi \in First..End
    /\ phase \in {"idle", "build", "rollback"}
    /\ op \in {"none", "task", "mapping"}
    /\ checkpoint \in First..End
    /\ cursor \in First..End
    /\ result \in {"none", "ok", "error", "rollback_failed"}

(* Every slot the allocator would hand out next is empty, also in the       *)
(* middle of a construction and after a rollback that failed half way: no   *)
(* later retype or copy is refused for an occupied destination.             *)
FreeSuffixEmpty == \A s \in start..(End - 1) : root[s] = "empty"

(* Where the slots nobody has been given yet begin. *)
Unowned == IF phase = "idle" THEN start ELSE checkpoint

(* No slot belongs to two handles, and a construction under way works on    *)
(* slots that belong to none.                                               *)
HandlesDisjoint ==
    /\ \A h \in handles : h.lo <= h.hi /\ h.hi <= Unowned
    /\ \A g, h \in handles : g # h => g.hi <= h.lo \/ h.hi <= g.lo

(* Between operations every slot below `start` is accounted for by a handle *)
(* or by a failed rollback: no error path loses slots silently.             *)
SlotsAccounted ==
    phase = "idle" =>
        \A s \in First..(start - 1) : \E h \in handles : s \in h.lo..(h.hi - 1)

(* Through every failure point of create_task and of its rollback: what the *)
(* allocator would hand out is empty, no slot has two owners, and every     *)
(* slot taken has one.                                                      *)
OwnershipInv == TypeOK /\ FreeSuffixEmpty /\ HandlesDisjoint /\ SlotsAccounted

(* The slots of a returned handle hold exactly what its constructor put     *)
(* there, in the order of its steps, for ever: no other construction,       *)
(* failure or rollback touches them.  Pool slots hold reply capabilities or *)
(* nothing.                                                                 *)
HandlesIntact ==
    \A h \in {g \in handles : g.kind # "leaked"} :
        IF h.kind = "pool"
        THEN \A s \in h.lo..(h.hi - 1) : root[s] \in {"empty", "reply"}
        ELSE /\ h.hi = h.lo + Taken(h.script, Len(h.script))
             /\ \A i \in 1..Len(h.script) : h.script[i] \in Object =>
                   root[h.lo + Taken(h.script, i) - 1] = h.script[i]

(* A construction that fails with an ordinary error leaves the allocator    *)
(* and the whole root CNode as it found them.                               *)
FailureRestores ==
    [][phase = "rollback" /\ phase' = "idle" /\ result' = "error" =>
         start' = before.start /\ root' = before.root]_vars

(* Only a refused delete makes RollbackFailed: a construction whose steps   *)
(* all succeeded is returned to the caller (map_recovery_frame's check of   *)
(* its slot count never fires, which would lose the mapping's slot).        *)
SuccessIsReturned ==
    [][phase = "build" /\ phase' = "idle" => result' = "ok"]_vars

(* Every construction returns, by commit or by rollback. *)
ConstructionEnds == phase # "idle" ~> phase = "idle"

=============================================================================
