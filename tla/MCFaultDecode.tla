--------------------------- MODULE MCFaultDecode ---------------------------
(* A small instance of FaultDecode. *)
EXTENDS FaultDecode

SmallWord == 0..20

(* Faults whose registers are all different, so that no two can be confused. *)
MCRaised ==
    {[class |-> "CapabilityFault", instruction_pointer |-> 10, capability_address |-> 11,
      in_receive_phase |-> b, lookup_failure |-> l] :
        b \in BOOLEAN,
        l \in {InvalidRoot, MissingCapability(12), DepthMismatch(12, 13),
               GuardMismatch(12, 13, 14)}}
      \cup {[class |-> "UnknownSyscall", argument_registers |-> [i \in 1..8 |-> i],
             instruction_pointer |-> 9, stack_pointer |-> 10, link_register |-> 11,
             status_register |-> 12, syscall_number |-> 13]}
      \cup {[class |-> "VmFault", instruction_pointer |-> 10, address |-> 11,
             instruction_fault |-> b, syndrome |-> 12] : b \in BOOLEAN}

(* Every label around the supported ones with every short message, and      *)
(* messages around the length of an unknown system call.                    *)
MCForeign ==
    [label : 0..6,
     registers : UNION {[1..n -> 0..5] : n \in 0..5}
                   \cup {<<0, 1, b, t>> \o d : b \in 0..2, t \in 0..5,
                                               d \in UNION {[1..n -> 0..1] : n \in 2..4}}
                   \cup {[i \in 1..n |-> i] : n \in 12..14}]

=============================================================================
