------------------------------- MODULE CSpace -------------------------------
(***************************************************************************)
(* Population of a child capability space: CSpace::create, validate and    *)
(* install of cspace.rs, SlotTracker::try_new and mark_occupied of         *)
(* ipc_state.rs, FaultRoute of fault.rs, and the fault_endpoint and guard  *)
(* with which create_task_inner and Thread::create configure the thread.   *)
(*                                                                         *)
(* What create leaves behind, a tracker that agrees with the CNode, is the *)
(* initial state of module Ipc; the rollback of a failed creation is in    *)
(* module Bootstrap.                                                       *)
(***************************************************************************)
EXTENDS Naturals, Sequences

CONSTANTS
    WordSize,   \* sel4::WORD_SIZE, the bits of a capability pointer
    MaxSlots,   \* SlotTracker::MAX_SLOTS
    Space,      \* the cspace part of the configurations given to create_task
    Null,       \* the null capability pointer
    RootCap     \* kernel: capability in each root slot, NoCap when empty

NoCap == [object |-> Null, rights |-> {}, badge |-> 0]

Rights == {"read", "write", "grant"}

DelegatedCapability ==
    [destination : Nat, source : DOMAIN RootCap \cup {Null}, rights : SUBSET Rights, badge : Nat]

(* A FaultRoute delegates a badged endpoint, with write and grant rights. *)
FaultRoute(c) ==
    c \in DelegatedCapability /\ c.rights = {"write", "grant"} /\ c.badge # 0

(* cspace_size_bits, delegated_capabilities, and a fault route or none.  A   *)
(* route is made from a FaultEndpoint, whose capability the root got by      *)
(* retype and therefore holds with all rights.                               *)
ASSUME CSpaceAssumption ==
    /\ WordSize \in Nat \ {0} /\ MaxSlots \in Nat
    /\ \A s \in DOMAIN RootCap : RootCap[s] = NoCap \/ RootCap[s].object # Null
    /\ Space \subseteq [size : Nat, grants : Seq(DelegatedCapability),
                        route : Seq(DelegatedCapability)]
    /\ \A s \in Space :
          /\ Len(s.route) <= 1
          /\ \A i \in 1..Len(s.route) :
                /\ FaultRoute(s.route[i])
                /\ \/ s.route[i].source = Null
                   \/ RootCap[s.route[i].source] = NoCap
                   \/ RootCap[s.route[i].source].rights = Rights

VARIABLES
    space,      \* the configuration of the CSpace under construction
    step,       \* where create is
    next,       \* how many capabilities are installed
    cnode,      \* kernel: the slots of the child CNode
    states,     \* SlotTracker.states
    result

spaceVars == <<space, step, next, cnode, states, result>>

(* All the capabilities create installs, in order *)
All == space.grants \o space.route

capacity == 2^space.size

SpaceInit(s) ==
    /\ space = s
    /\ step = "validate" /\ next = 0
    /\ cnode = <<>> /\ states = <<>>
    /\ result = "none"

Fail(error) == step' = "returned" /\ result' = error

-----------------------------------------------------------------------------
(***************************************************************************)
(* CSpace::create                                                          *)
(***************************************************************************)

(* Each capability is compared with the ones before it; the route with all. *)
Admissible(i) ==
    /\ All[i].destination # 0
    /\ All[i].destination < capacity
    /\ All[i].source # Null
    /\ \A j \in 1..(i - 1) : All[j].destination # All[i].destination

(* Mutant: the route is compared with nothing. *)
ValidateSpaceRouteAlone ==
    /\ step = "validate"
    /\ IF space.size # 0 /\ space.size < WordSize /\ \A i \in 1..Len(space.grants) : Admissible(i)
       THEN step' = "allocate" /\ UNCHANGED result
       ELSE Fail("InvalidTaskConfiguration")
    /\ UNCHANGED <<space, next, cnode, states>>

ValidateSpace ==
    /\ step = "validate"
    /\ IF space.size # 0 /\ space.size < WordSize /\ \A i \in 1..Len(All) : Admissible(i)
       THEN step' = "allocate" /\ UNCHANGED result
       ELSE Fail("InvalidTaskConfiguration")
    /\ UNCHANGED <<space, next, cnode, states>>

(* allocate_variable_object: the CNode is empty when the kernel makes it. *)
AllocateCNode ==
    /\ step = "allocate"
    /\ \/ /\ cnode' = [s \in 0..(capacity - 1) |-> NoCap]
          /\ step' = "tracker" /\ UNCHANGED result
       \/ /\ Fail("NoKernelMemory")
          /\ UNCHANGED cnode
    /\ UNCHANGED <<space, next, states>>

(* SlotTracker::try_new: only now is a CNode found to be too large. *)
NewTracker ==
    /\ step = "tracker"
    /\ IF capacity > MaxSlots
       THEN Fail("InvalidTaskConfiguration") /\ UNCHANGED states
       ELSE /\ states' = [s \in 0..(MaxSlots - 1) |-> "free"]
            /\ step' = "install" /\ UNCHANGED result
    /\ UNCHANGED <<space, next, cnode>>

(***************************************************************************)
(* The kernel's mint: the source is a capability that has no badge yet (it *)
(* badges once, and refuses a badged source for a badge of zero too), and  *)
(* the destination is an empty slot of the CNode.                          *)
(***************************************************************************)
MintRefused(c) ==
    \/ RootCap[c.source] = NoCap
    \/ RootCap[c.source].badge # 0
    \/ c.destination \notin DOMAIN cnode
    \/ cnode[c.destination] # NoCap

Derived(c) ==
    [ object |-> RootCap[c.source].object,
      rights |-> RootCap[c.source].rights \cap c.rights,
      badge  |-> c.badge ]

(* SlotTracker::state_mut, then the test of mark_occupied *)
MarkRefused(s) ==
    \/ s = 0 \/ s >= capacity \/ s \notin DOMAIN states
    \/ states[s] # "free"

(* Mutant: the tracker is not told. *)
InstallUntracked ==
    /\ step = "install" /\ next < Len(All)
    /\ LET c == All[next + 1] IN
       IF MintRefused(c)
       THEN Fail("CSpaceCreationFailed") /\ UNCHANGED <<next, cnode, states>>
       ELSE /\ cnode' = [cnode EXCEPT ![c.destination] = Derived(c)]
            /\ next' = next + 1
            /\ UNCHANGED <<states, step, result>>
    /\ UNCHANGED space

Install ==
    /\ step = "install" /\ next < Len(All)
    /\ LET c == All[next + 1] IN
       IF MintRefused(c)
       THEN Fail("CSpaceCreationFailed") /\ UNCHANGED <<next, cnode, states>>
       ELSE /\ cnode' = [cnode EXCEPT ![c.destination] = Derived(c)]
            /\ IF MarkRefused(c.destination)
               THEN Fail("InvalidTaskConfiguration") /\ UNCHANGED <<next, states>>
               ELSE /\ states' = [states EXCEPT ![c.destination] = "occupied"]
                    /\ next' = next + 1
                    /\ UNCHANGED <<step, result>>
    /\ UNCHANGED space

Created ==
    /\ step = "install" /\ next = Len(All)
    /\ step' = "returned" /\ result' = "Ok"
    /\ UNCHANGED <<space, next, cnode, states>>

SpaceStep == ValidateSpace \/ AllocateCNode \/ NewTracker \/ Install \/ Created

-----------------------------------------------------------------------------
(***************************************************************************)
(* The thread's view: root_data is a guard of zero bits, as many as the    *)
(* CNode does not index; the fault endpoint is the capability pointer      *)
(* child_slot, or 0 for none.                                              *)
(***************************************************************************)

(* Mutant: the guard of a two-level CSpace. *)
guard_size_none == 0

guard_size == WordSize - space.size

fault_endpoint == IF space.route = <<>> THEN 0 ELSE space.route[1].destination

(* The kernel resolves all bits of a pointer: the guard, then the index. *)
Lookup(cptr) ==
    IF guard_size + space.size = WordSize /\ cptr \div 2^space.size = 0
    THEN cnode[cptr % 2^space.size] ELSE NoCap

-----------------------------------------------------------------------------
(* A configuration the task can be built with: distinct usable slots, and  *)
(* capabilities to put in them.                                            *)
WellFormedSpace ==
    /\ space.size \in 1..(WordSize - 1) /\ capacity <= MaxSlots
    /\ \A i \in DOMAIN All : All[i].destination \in 1..(capacity - 1) /\ All[i].source # Null
    /\ \A i, j \in DOMAIN All : All[i].destination = All[j].destination => i = j

(* create answers InvalidTaskConfiguration exactly for the configurations   *)
(* that are not well formed, mark_occupied never refuses what validate let  *)
(* pass, and the kernel refuses a mint only for what validate cannot see,   *)
(* the source capability: never because two delegations meet in a slot.     *)
RefusesMalformed ==
    /\ result = "InvalidTaskConfiguration" => ~WellFormedSpace
    /\ result = "Ok" => WellFormedSpace
    /\ result = "CSpaceCreationFailed" =>
          LET c == All[next + 1] IN
          RootCap[c.source] = NoCap \/ RootCap[c.source].badge # 0

(* The tracker of a created CSpace is FREE exactly where the CNode is      *)
(* empty, so that no receive slot is ever lent for an occupied slot.       *)
TrackerAgrees ==
    result = "Ok" =>
        \A s \in DOMAIN states :
            states[s] = "free" <=> s \notin DOMAIN cnode \/ cnode[s] = NoCap

(* "installs only explicit delegations": at any time a slot holds nothing  *)
(* but what the root asked for it, and no more rights than it asked for.   *)
OnlyDelegated ==
    \A s \in DOMAIN cnode :
        cnode[s] # NoCap =>
            \E i \in DOMAIN All :
                /\ All[i].destination = s
                /\ cnode[s].object = RootCap[All[i].source].object
                /\ cnode[s].rights \subseteq All[i].rights

(* A fault of the created task is delivered: the pointer in its TCB finds, *)
(* through the guard of its CSpace, the badged endpoint of its own route.  *)
FaultsReachRoute ==
    result = "Ok" /\ space.route # <<>> =>
        LET c == Lookup(fault_endpoint) IN
        /\ c.object = RootCap[space.route[1].source].object
        /\ c.badge = space.route[1].badge
        /\ c.rights = space.route[1].rights

=============================================================================
