----------------------------- MODULE CreateTask -----------------------------
(***************************************************************************)
(* Bootstrap::create_task (task.rs) up to the first frame it maps: the     *)
(* layout is validated before anything is allocated, then the CSpace is    *)
(* built, then the translation tables are mapped.  A failure of any part   *)
(* ends the construction; its rollback is in module Bootstrap.             *)
(***************************************************************************)
EXTENDS TaskLayout, CSpace

CONSTANT TaskConfig   \* the configurations given to create_task

ASSUME TaskConfigAssumption ==
    TaskConfig \subseteq [layout : Config, space : Space]

vars == <<layoutVars, spaceVars>>

Init == \E c \in TaskConfig : LayoutInit(c.layout) /\ SpaceInit(c.space)

Validate == ValidateLayout /\ UNCHANGED spaceVars

CreateSpace == outcome = "tables" /\ SpaceStep /\ UNCHANGED layoutVars

MapTables == result = "Ok" /\ TableStep /\ UNCHANGED spaceVars

Next == Validate \/ CreateSpace \/ MapTables

Spec == Init /\ [][Next]_vars

-----------------------------------------------------------------------------
Outcome ==
    {"none", "InvalidPageSize", "UnalignedAddress", "AddressOverflow", "OverlappingPages",
     "InvalidEntry", "tables", "ready", "vspace_failed"}

Result ==
    {"none", "Ok", "InvalidTaskConfiguration", "NoKernelMemory", "CSpaceCreationFailed"}

(* Each variable ranges over the values its Rust or kernel type allows: the *)
(* tracker's array in particular is MAX_SLOTS long for every CNode.         *)
TypeOK ==
    /\ [layout |-> config, space |-> space] \in TaskConfig
    /\ outcome \in Outcome /\ result \in Result
    /\ level \in 1..(Len(SpanBits) + 1) /\ index \in 1..Len(AllPages(config))
    /\ tables \subseteq (1..Len(SpanBits)) \X (0..(2^Width - 1))
    /\ step \in {"validate", "allocate", "tracker", "install", "returned"}
    /\ next \in 0..Len(All)
    /\ DOMAIN cnode \in {1..0, 0..(capacity - 1)}
    /\ DOMAIN states \in {1..0, 0..(MaxSlots - 1)}

(* No kernel object is made for a layout that is not well formed, and no   *)
(* table for a task whose CSpace is not what its configuration asks for    *)
(* ("Performs construction after layout validation establishes safety").   *)
BuiltOnlyWhenValid ==
    /\ cnode # <<>> => WellFormedLayout(config)
    /\ tables # {} => WellFormedSpace /\ next = Len(All)

(* What has been built at any moment was validated first, is what the       *)
(* configuration delegates and no more, and ends in a tracker that agrees   *)
(* with the CNode.                                                          *)
ConstructionInv == TypeOK /\ BuiltOnlyWhenValid /\ OnlyDelegated /\ TrackerAgrees

=============================================================================
