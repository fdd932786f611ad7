---------------------------- MODULE FaultDecode ----------------------------
(***************************************************************************)
(* Fault::decode (fault.rs): from a message label and its registers to a   *)
(* typed fault.  The kernel describes a fault in a number of registers     *)
(* that depends on the fault, and for a failed capability lookup on a      *)
(* register of the message itself.                                         *)
(***************************************************************************)
EXTENDS Naturals, Sequences

CONSTANTS
    Word,      \* register values
    Raised,    \* faults of the kernel to decode
    Foreign    \* messages that some holder of a fault capability sends itself

VARIABLES
    source,    \* history: the fault the kernel raised, or NoFault
    message,   \* label and registers received
    result     \* what decode returned, or Pending

decodeVars == <<source, message, result>>

(***************************************************************************)
(* Faults                                                                  *)
(***************************************************************************)
InvalidRoot == [failure |-> "InvalidRoot"]
MissingCapability(left) == [failure |-> "MissingCapability", bits_left |-> left]
DepthMismatch(left, found) ==
    [failure |-> "DepthMismatch", bits_left |-> left, bits_found |-> found]
GuardMismatch(left, guard, found) ==
    [failure |-> "GuardMismatch", bits_left |-> left, guard_found |-> guard,
     bits_found |-> found]

LookupFailure ==
    {InvalidRoot}
      \cup {MissingCapability(l) : l \in Word}
      \cup {DepthMismatch(l, f) : l, f \in Word}
      \cup {GuardMismatch(l, g, f) : l, g, f \in Word}

CapabilityFault ==
    [class : {"CapabilityFault"}, instruction_pointer : Word, capability_address : Word,
     in_receive_phase : BOOLEAN, lookup_failure : LookupFailure]

UnknownSyscall ==
    [class : {"UnknownSyscall"}, argument_registers : [1..8 -> Word],
     instruction_pointer : Word, stack_pointer : Word, link_register : Word,
     status_register : Word, syscall_number : Word]

VmFault ==
    [class : {"VmFault"}, instruction_pointer : Word, address : Word,
     instruction_fault : BOOLEAN, syndrome : Word]

Fault == CapabilityFault \cup UnknownSyscall \cup VmFault
NoFault == [class |-> "none"]

ASSUME FaultAssumption ==
    /\ {0, 1} \subseteq Word
    /\ Word \subseteq Nat
    /\ Raised \subseteq Fault
    /\ Foreign \subseteq [label : Nat, registers : Seq(Word)]

-----------------------------------------------------------------------------
(***************************************************************************)
(* The kernel's side of the ABI: the message a fault is sent as.           *)
(***************************************************************************)
Bit(b) == IF b THEN 1 ELSE 0

LookupRegisters(l) ==
    CASE l.failure = "InvalidRoot" -> <<1>>
      [] l.failure = "MissingCapability" -> <<2, l.bits_left>>
      [] l.failure = "DepthMismatch" -> <<3, l.bits_left, l.bits_found>>
      [] l.failure = "GuardMismatch" -> <<4, l.bits_left, l.guard_found, l.bits_found>>

Encode(f) ==
    CASE f.class = "CapabilityFault" ->
           [label |-> 1,
            registers |-> <<f.instruction_pointer, f.capability_address,
                            Bit(f.in_receive_phase)>> \o LookupRegisters(f.lookup_failure)]
      [] f.class = "UnknownSyscall" ->
           [label |-> 2,
            registers |-> f.argument_registers \o
                          <<f.instruction_pointer, f.stack_pointer, f.link_register,
                            f.status_register, f.syscall_number>>]
      [] f.class = "VmFault" ->
           [label |-> 5,
            registers |-> <<f.instruction_pointer, f.address, Bit(f.instruction_fault),
                            f.syndrome>>]

-----------------------------------------------------------------------------
(***************************************************************************)
(* The decoder                                                             *)
(***************************************************************************)
Ok(fault) == [ok |-> TRUE, fault |-> fault]
Err(error) == [ok |-> FALSE, error |-> error]

(* Mutant: registers beyond those needed are ignored. *)
LengthAtLeast(registers, expected) == Len(registers) >= expected

(* expect_length *)
HasLength(registers, expected) == Len(registers) = expected

(* decode_boolean *)
IsBoolean(value) == value \in {0, 1}

decode_vm_fault(r) ==
    IF ~HasLength(r, 4) THEN Err("UnexpectedLength")
    ELSE IF ~IsBoolean(r[3]) THEN Err("InvalidBoolean")
    ELSE Ok([class |-> "VmFault", instruction_pointer |-> r[1], address |-> r[2],
             instruction_fault |-> r[3] = 1, syndrome |-> r[4]])

decode_unknown_syscall(r) ==
    IF ~HasLength(r, 13) THEN Err("UnexpectedLength")
    ELSE Ok([class |-> "UnknownSyscall", argument_registers |-> SubSeq(r, 1, 8),
             instruction_pointer |-> r[9], stack_pointer |-> r[10],
             link_register |-> r[11], status_register |-> r[12],
             syscall_number |-> r[13]])

(* Mutant: the two last fields of a guard mismatch change places. *)
DecodeLookupSwapped(r) ==
    CASE r[4] = 1 -> InvalidRoot
      [] r[4] = 2 -> MissingCapability(r[5])
      [] r[4] = 3 -> DepthMismatch(r[5], r[6])
      [] r[4] = 4 -> GuardMismatch(r[5], r[7], r[6])

(* The arms of the match on registers[3] in decode_capability_fault, once   *)
(* the length of the arm has been checked.                                  *)
DecodeLookup(r) ==
    CASE r[4] = 1 -> InvalidRoot
      [] r[4] = 2 -> MissingCapability(r[5])
      [] r[4] = 3 -> DepthMismatch(r[5], r[6])
      [] r[4] = 4 -> GuardMismatch(r[5], r[6], r[7])

decode_capability_fault(r) ==
    IF Len(r) < 4 THEN Err("UnexpectedLength")
    ELSE IF r[4] \notin 1..4 THEN Err("InvalidLookupFailureType")
    ELSE IF ~HasLength(r, 3 + r[4]) THEN Err("UnexpectedLength")
    ELSE IF ~IsBoolean(r[3]) THEN Err("InvalidBoolean")
    ELSE Ok([class |-> "CapabilityFault", instruction_pointer |-> r[1],
             capability_address |-> r[2], in_receive_phase |-> r[3] = 1,
             lookup_failure |-> DecodeLookup(r)])

decode(m) ==
    CASE m.label = 1 -> decode_capability_fault(m.registers)
      [] m.label = 2 -> decode_unknown_syscall(m.registers)
      [] m.label = 5 -> decode_vm_fault(m.registers)
      [] OTHER -> Err("UnsupportedLabel")

-----------------------------------------------------------------------------
Pending == [ok |-> FALSE, error |-> "none"]

DecodeInit ==
    /\ \/ source \in Raised /\ message = Encode(source)
       \/ source = NoFault /\ message \in Foreign
    /\ result = Pending

Decode ==
    /\ result = Pending
    /\ result' = decode(message)
    /\ UNCHANGED <<source, message>>

DecodeSpec == DecodeInit /\ [][Decode]_decodeVars

-----------------------------------------------------------------------------
(* Every fault the kernel raises is decoded, and to exactly that fault:     *)
(* each register ends up in the field it belongs to, whatever the length.   *)
KernelFaultsDecoded == source # NoFault /\ result # Pending => result = Ok(source)

(* decode accepts nothing but the kernel's own description of a fault: a    *)
(* message with a register too many or too few, or a field out of range, is *)
(* never taken for one.                                                     *)
OnlyFaultsAccepted == result.ok => result.fault \in Fault /\ Encode(result.fault) = message

=============================================================================
