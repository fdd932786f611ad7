------------------------------ MODULE Recovery ------------------------------
(***************************************************************************)
(* Recovery of a faulting task: the fault adapter of fault.rs, register    *)
(* access and thread control of thread.rs and task.rs, recovery mappings   *)
(* and frame capabilities of task.rs and vspace.rs.                        *)
(*                                                                         *)
(* A task executes its program; an instruction that touches a page nobody  *)
(* mapped, makes a system call the kernel does not know, or raises an      *)
(* exception, faults.  The root receives the fault, maps a frame or moves  *)
(* the program counter, and answers with an empty reply, on which the      *)
(* kernel restarts the task at its program counter.  Nothing in the types  *)
(* ties a Task, a TaskMapping or a Registers value to the fault: the root  *)
(* may suspend, resume, read, map or write at any time, also registers it  *)
(* read long ago.  Two rules are left to the root program:                 *)
(* map_recovery_frame's safety contract, and that a Registers value goes   *)
(* back to the task it was read of.                                        *)
(***************************************************************************)
EXTENDS Naturals, Sequences, FiniteSets

CONSTANTS
    Task,
    Page,       \* reserved_pages: tables are there, frames are not
    Frame,      \* Frame values of the root
    Program,    \* each task's instructions: a page touched, or one of Special
    Slots,      \* root slots left for copied frame capabilities
    Plain, Syscall, Exception,
    None,
    ScratchPage \* a page of the root's own address space

Special == {Plain, Syscall, Exception}

ASSUME RecoveryAssumption ==
    /\ Program \in [Task -> Seq(Special \cup Page)]
    /\ Slots \in Nat
    /\ Special \cap Page = {}
    /\ None \notin Task

VARIABLES
    pc,        \* kernel: program counter of each task
    thread,    \* kernel: "suspended", "running", "faulted" (queued), "blocked" (received)
    raised,    \* kernel: the instruction of each task's last fault
    authority, \* kernel: the task a reply of the root restarts
    at,        \* kernel: <<address space, page>> of each mapped frame capability
    used,      \* root slots taken by copies, each named by a TaskMapping
    fault,     \* the root's live ReceivedFault
    regs,      \* the root's live Registers
    stale      \* history: their task was running when they were read, or the
               \* root has let it run since

vars == <<pc, thread, raised, authority, at, used, fault, regs, stale>>

(* Frame capabilities: the owners' and the copies made for recovery. *)
Cap == Frame \cup 1..Slots

Nowhere == <<None, None>>
Scratch == <<None, ScratchPage>>
Place == (Task \X Page) \cup {Scratch, Nowhere}

Mapped(t, p) == \E c \in Cap : at[c] = <<t, p>>

Nothing == [task |-> None, pc |-> 0]

(* Tasks are created suspended at their entry. *)
Init ==
    /\ pc = [t \in Task |-> 1]
    /\ thread = [t \in Task |-> "suspended"]
    /\ raised = [t \in Task |-> 0]
    /\ authority = None
    /\ at = [c \in Cap |-> Nowhere]
    /\ used = 0
    /\ fault = Nothing
    /\ regs = Nothing
    /\ stale = FALSE

-----------------------------------------------------------------------------
(***************************************************************************)
(* Tasks and the kernel                                                    *)
(***************************************************************************)
Done(t) == pc[t] > Len(Program[t])

Faults(t) ==
    /\ ~Done(t)
    /\ Program[t][pc[t]] # Plain
    /\ Program[t][pc[t]] \in Page => ~Mapped(t, Program[t][pc[t]])

Execute(t) ==
    /\ thread[t] = "running" /\ ~Done(t) /\ ~Faults(t)
    /\ pc' = [pc EXCEPT ![t] = @ + 1]
    /\ UNCHANGED <<raised, thread, authority, at, used, fault, regs, stale>>

RaiseFault(t) ==
    /\ thread[t] = "running" /\ Faults(t)
    /\ thread' = [thread EXCEPT ![t] = "faulted"]
    /\ raised' = [raised EXCEPT ![t] = pc[t]]
    /\ UNCHANGED <<pc, authority, at, used, fault, regs, stale>>

(* t runs again; the Registers the root may have of it stay as they are. *)
Restart(t) ==
    /\ thread' = [thread EXCEPT ![t] = "running"]
    /\ stale' = (stale \/ regs.task = t)
    /\ UNCHANGED regs

(* Suspending or resuming a task deletes the reply authority for it. *)
Forget(t) == authority' = IF authority = t THEN None ELSE authority

-----------------------------------------------------------------------------
(***************************************************************************)
(* FaultEndpoint::receive and reply                                        *)
(***************************************************************************)

(* An exception is not decoded: receive finishes the message, an empty     *)
(* reply, and the task restarts at the same instruction.                   *)
ReceiveFault(t) ==
    /\ fault = Nothing
    /\ thread[t] = "faulted"
    /\ IF Program[t][raised[t]] = Exception
       THEN /\ Restart(t)
            /\ UNCHANGED <<authority, fault>>
       ELSE /\ thread' = [thread EXCEPT ![t] = "blocked"]
            /\ authority' = t
            /\ fault' = [task |-> t, pc |-> raised[t]]
            /\ UNCHANGED <<regs, stale>>
    /\ UNCHANGED <<raised, pc, at, used>>

(* Mutant: the faulting task is resumed instead of answered. *)
ReplyResumes ==
    /\ fault # Nothing
    /\ fault' = Nothing
    /\ authority' = None
    /\ Restart(fault.task)
    /\ UNCHANGED <<raised, pc, at, used>>

(* Mutant: the fault is dropped, the kernel keeps the caller waiting. *)
ReplyForgotten ==
    /\ fault # Nothing
    /\ fault' = Nothing
    /\ UNCHANGED <<raised, pc, thread, authority, at, used, regs, stale>>

(* An empty reply through the retained authority, if it still exists. *)
Reply ==
    /\ fault # Nothing
    /\ fault' = Nothing
    /\ authority' = None
    /\ IF authority # None THEN Restart(authority) ELSE UNCHANGED <<thread, regs, stale>>
    /\ UNCHANGED <<raised, pc, at, used>>

-----------------------------------------------------------------------------
(***************************************************************************)
(* Task and Thread                                                         *)
(***************************************************************************)

(* Task::start and Task::resume; a running task is left as it is. *)
Resume(t) ==
    /\ thread[t] # "running"
    /\ Restart(t)
    /\ Forget(t)
    /\ UNCHANGED <<raised, pc, at, used, fault>>

Suspend(t) ==
    /\ thread' = [thread EXCEPT ![t] = "suspended"]
    /\ Forget(t)
    /\ UNCHANGED <<raised, pc, at, used, fault, regs, stale>>

(* A copy of all registers, also of a task that is running. *)
ReadRegisters(t) ==
    /\ regs' = [task |-> t, pc |-> pc[t]]
    /\ stale' = (thread[t] = "running")
    /\ UNCHANGED <<raised, pc, thread, authority, at, used, fault>>

(* Registers::set_instruction_pointer, past the instruction *)
SkipInstruction ==
    /\ regs # Nothing
    /\ regs.pc <= Len(Program[regs.task])
    /\ regs' = [regs EXCEPT !.pc = @ + 1]
    /\ UNCHANGED <<raised, pc, thread, authority, at, used, fault, stale>>

(* Mutant: resumes the task. *)
WriteRegistersResumes ==
    /\ regs # Nothing
    /\ pc' = [pc EXCEPT ![regs.task] = regs.pc]
    /\ thread' = [thread EXCEPT ![regs.task] = "running"]
    /\ Forget(regs.task)
    /\ UNCHANGED <<raised, at, used, fault, regs, stale>>

(* The complete register state is replaced; the task is not resumed. *)
WriteRegisters ==
    /\ regs # Nothing
    /\ pc' = [pc EXCEPT ![regs.task] = regs.pc]
    /\ UNCHANGED <<raised, thread, authority, at, used, fault, regs, stale>>

-----------------------------------------------------------------------------
(***************************************************************************)
(* Frames                                                                  *)
(***************************************************************************)

(* The kernel maps a capability that is mapped nowhere. *)
KernelMap(c, place) ==
    /\ at[c] = Nowhere
    /\ at' = [at EXCEPT ![c] = place]

(* The contract of map_recovery_frame: stopped, and nothing mapped there. *)
MayMap(t, p) == thread[t] # "running" /\ ~Mapped(t, p)

(* Mutant: the owner's capability is mapped. *)
MapRecoveryFrameOwner(t, p) ==
    /\ MayMap(t, p)
    /\ used < Slots
    /\ \E f \in Frame : KernelMap(f, <<t, p>>)
    /\ used' = used + 1
    /\ UNCHANGED <<raised, pc, thread, authority, fault, regs, stale>>

(* map_recovery_frame copies the owner's capability to the next root slot   *)
(* and maps the copy.  A refused map deletes the copy: nothing has changed. *)
MapRecoveryFrame(t, p) ==
    /\ MayMap(t, p)
    /\ used < Slots
    /\ KernelMap(used + 1, <<t, p>>)
    /\ used' = used + 1
    /\ UNCHANGED <<raised, pc, thread, authority, fault, regs, stale>>

(* TaskMapping::unmap, for a stopped task; the slot stays with the handle. *)
Unmap(c) ==
    /\ c <= used
    /\ at[c] # Nowhere => thread[at[c][1]] # "running"
    /\ at' = [at EXCEPT ![c] = Nowhere]
    /\ UNCHANGED <<raised, pc, thread, authority, used, fault, regs, stale>>

(* Frame::map and Frame::unmap of an owner capability at a scratch page *)
MapScratch(f) ==
    /\ \A c \in Cap : at[c] # Scratch
    /\ KernelMap(f, Scratch)
    /\ UNCHANGED <<raised, pc, thread, authority, used, fault, regs, stale>>

UnmapScratch(f) ==
    /\ at' = [at EXCEPT ![f] = Nowhere]
    /\ UNCHANGED <<raised, pc, thread, authority, used, fault, regs, stale>>

-----------------------------------------------------------------------------
TaskStep(t) == Execute(t) \/ RaiseFault(t)

Next ==
    \/ \E t \in Task :
         \/ TaskStep(t)
         \/ ReceiveFault(t) \/ Resume(t) \/ Suspend(t) \/ ReadRegisters(t)
         \/ \E p \in Page : MapRecoveryFrame(t, p)
    \/ Reply \/ SkipInstruction \/ WriteRegisters
    \/ \E c \in 1..Slots : Unmap(c)
    \/ \E f \in Frame : MapScratch(f) \/ UnmapScratch(f)

Spec == Init /\ [][Next]_vars

-----------------------------------------------------------------------------
(***************************************************************************)
(* Safety                                                                  *)
(***************************************************************************)

(* Each variable ranges over the values its Rust or kernel type allows; a  *)
(* task's program counter stays in its program or just behind it.          *)
TypeOK ==
    /\ \A t \in Task : pc[t] \in 1..(Len(Program[t]) + 1)
    /\ thread \in [Task -> {"suspended", "running", "faulted", "blocked"}]
    /\ raised \in [Task -> Nat]
    /\ authority \in Task \cup {None}
    /\ at \in [Cap -> Place]
    /\ used \in 0..Slots
    /\ fault.task \in Task \cup {None} /\ regs.task \in Task \cup {None}
    /\ stale \in BOOLEAN

(* A task the root suspended runs again only when the root starts it: not   *)
(* when its registers are written, and not when the root answers a fault    *)
(* the task was suspended in, however late.                                 *)
SuspendedStays ==
    [][\A t \in Task :
         thread[t] = "suspended" /\ thread'[t] # "suspended" => Resume(t)]_vars

(* Writing back registers undoes instructions a task has executed only if   *)
(* the root itself let the task run after it read them, by resuming it, by  *)
(* answering its fault or by receiving one that does not decode, or read    *)
(* them while it ran.  Nothing in thread.rs prevents such a write; but no   *)
(* other call lets a stopped task execute behind the root's back.           *)
FreshRegistersKeepProgress ==
    [][\A t \in Task : pc'[t] < pc[t] => stale /\ regs.task = t]_vars

(* A page of a task is mapped through a copy the root holds a TaskMapping   *)
(* for, never through an owner capability: Frame::unmap after an inspection *)
(* never takes a task's page away, and Frame::map at a free scratch page is *)
(* never refused for a capability already mapped in a task.                 *)
MappingsHaveHandles ==
    \A t \in Task, p \in Page, c \in Cap : at[c] = <<t, p>> => c \in 1..used

(* Recovery keeps every program counter in its program and every mapping of *)
(* a task under a handle, whatever the root does in between.                *)
RecoveryInv == TypeOK /\ MappingsHaveHandles

-----------------------------------------------------------------------------
(***************************************************************************)
(* Liveness, for a root that recovers.  It may do anything in between, but *)
(* it does not give up: a call that would bring the fault it holds closer  *)
(* to its recovery, and that is possible again and again, is made in the   *)
(* end (strong fairness: suspending, answering or reading another task's   *)
(* registers disables it for a while), and a fault received is answered.   *)
(***************************************************************************)

(* The held fault would be raised again if it were answered now. *)
Broken == fault # Nothing /\ pc[fault.task] = fault.pc /\ Faults(fault.task)

MapMissing ==
    /\ Broken /\ Program[fault.task][fault.pc] \in Page
    /\ MapRecoveryFrame(fault.task, Program[fault.task][fault.pc])

ReadFaulted == Broken /\ regs # fault /\ ReadRegisters(fault.task)

SkipFaulted == Broken /\ regs = fault /\ SkipInstruction

WriteFaulted == Broken /\ regs = [fault EXCEPT !.pc = @ + 1] /\ WriteRegisters

RecoverSpec ==
    /\ Spec
    /\ \A t \in Task : WF_vars(TaskStep(t)) /\ SF_vars(ReceiveFault(t))
    /\ SF_vars(MapMissing)
    /\ SF_vars(ReadFaulted) /\ SF_vars(SkipFaulted) /\ SF_vars(WriteFaulted)
    /\ WF_vars(Reply)

(* A task in a fault the substrate decodes gets past the instruction, is    *)
(* stopped by the root, or the root has no slot left for another mapping,   *)
(* though another task raises exceptions without end.                       *)
FaultsRecovered ==
    \A t \in Task : \A n \in 1..Len(Program[t]) :
        thread[t] = "faulted" /\ pc[t] = n /\ Program[t][n] # Exception ~>
            pc[t] > n \/ thread[t] = "suspended" \/ used = Slots

=============================================================================
