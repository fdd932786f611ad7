---------------------------- MODULE FaultProofs ----------------------------
(***************************************************************************)
(* Proofs about fault handling: Fault::decode is the inverse of the        *)
(* kernel's encoding (decoding what the kernel sends gives the fault it    *)
(* raised, and whatever is accepted encodes to the message it was decoded  *)
(* from), and recovery is safe for any tasks, programs, pages and frames.  *)
(***************************************************************************)
EXTENDS Recovery, FaultDecode, SequenceTheorems, TLAPS

(***************************************************************************)
(* FaultDecode                                                             *)
(***************************************************************************)
Message == [label : Nat, registers : Seq(Word)]

-----------------------------------------------------------------------------
(* Registers of the kernel's messages                                       *)

(* What concatenation does to the registers of a sequence.                  *)
LEMMA Joined ==
  ASSUME NEW s \in Seq(Nat), NEW t \in Seq(Nat)
  PROVE  /\ s \o t \in Seq(Nat)
         /\ Len(s \o t) = Len(s) + Len(t)
         /\ \A i \in 1..Len(s) : (s \o t)[i] = s[i]
         /\ \A i \in 1..Len(t) : (s \o t)[Len(s) + i] = t[i]
<1>1. /\ s \o t \in Seq(Nat)
      /\ Len(s \o t) = Len(s) + Len(t)
      /\ \A i \in 1..(Len(s) + Len(t)) :
            (s \o t)[i] = IF i <= Len(s) THEN s[i] ELSE t[i - Len(s)]
  BY ConcatProperties
<1>2. Len(s) \in Nat /\ Len(t) \in Nat
  BY LenProperties
<1>3. ASSUME NEW i \in 1..Len(s)
      PROVE  (s \o t)[i] = s[i]
  BY <1>1, <1>2
<1>4. ASSUME NEW i \in 1..Len(t)
      PROVE  (s \o t)[Len(s) + i] = t[i]
  <2>1. Len(s) + i \in 1..(Len(s) + Len(t)) /\ ~(Len(s) + i <= Len(s))
    BY <1>2
  <2>2. (Len(s) + i) - Len(s) = i
    BY <1>2
  <2> QED
    BY <1>1, <2>1, <2>2
<1> QED
  BY <1>1, <1>3, <1>4

(* A function on 1..n is a sequence of n elements. *)
LEMMA SequenceOf ==
  ASSUME NEW n \in Nat, NEW x \in [1..n -> Nat]
  PROVE  x \in Seq(Nat) /\ Len(x) = n
<1>1. x \in Seq(Nat)
  BY SeqDef
<1>2. Len(x) \in Nat /\ 1..n = 1..Len(x)
  BY <1>1, LenProperties
<1> QED
  BY <1>1, <1>2

(* A sequence cut in two is the concatenation of its parts. *)
LEMMA Rejoined ==
  ASSUME NEW s \in Seq(Nat), NEW a \in Seq(Nat), NEW t \in Seq(Nat),
         Len(s) = Len(a) + Len(t),
         \A i \in 1..Len(a) : s[i] = a[i],
         \A i \in 1..Len(t) : s[Len(a) + i] = t[i]
  PROVE  a \o t = s
<1>1. Len(s) \in Nat /\ Len(a) \in Nat /\ Len(t) \in Nat
  BY LenProperties
<1>2. a \o t \in Seq(Nat) /\ Len(a \o t) = Len(s)
  BY Joined, Zenon
<1>3. ASSUME NEW i \in 1..Len(s)
      PROVE  (a \o t)[i] = s[i]
  <2>1. CASE i <= Len(a)
    BY <1>1, <2>1, Joined
  <2>2. CASE ~(i <= Len(a))
    <3>1. i - Len(a) \in 1..Len(t) /\ Len(a) + (i - Len(a)) = i
      BY <1>1, <2>2
    <3>2. (a \o t)[Len(a) + (i - Len(a))] = t[i - Len(a)]
      BY <3>1, Joined
    <3> QED
      BY <3>1, <3>2
  <2> QED
    BY <2>1, <2>2
<1> QED
  BY <1>2, <1>3, SeqEqual

(* Short tuples of numbers are sequences. *)
LEMMA Tuples ==
  ASSUME NEW a \in Nat, NEW b \in Nat, NEW c \in Nat, NEW d \in Nat, NEW e \in Nat
  PROVE  /\ <<a, b>> \in Seq(Nat) /\ Len(<<a, b>>) = 2
         /\ <<a, b, c>> \in Seq(Nat) /\ Len(<<a, b, c>>) = 3
         /\ <<a, b, c, d>> \in Seq(Nat) /\ Len(<<a, b, c, d>>) = 4
         /\ <<a, b, c, d, e>> \in Seq(Nat) /\ Len(<<a, b, c, d, e>>) = 5
OBVIOUS

(* The two values decode_boolean tells apart. *)
LEMMA BitDecoded ==
  ASSUME NEW b \in BOOLEAN
  PROVE  Bit(b) \in Nat /\ IsBoolean(Bit(b)) /\ (Bit(b) = 1) = b
BY DEF Bit, IsBoolean

(* A capability lookup failure of the kernel has one of four shapes. *)
LEMMA LookupCases ==
  ASSUME NEW l \in LookupFailure
  PROVE  \/ l = InvalidRoot
         \/ \E a \in Word : l = MissingCapability(a)
         \/ \E a, b \in Word : l = DepthMismatch(a, b)
         \/ \E a, b, c \in Word : l = GuardMismatch(a, b, c)
BY DEF LookupFailure

(* The registers of a lookup failure: its type, then its fields. *)
LEMMA LookupEncoded ==
  /\ LookupRegisters(InvalidRoot) = <<1>>
  /\ \A a \in Word : LookupRegisters(MissingCapability(a)) = <<2, a>>
  /\ \A a, b \in Word : LookupRegisters(DepthMismatch(a, b)) = <<3, a, b>>
  /\ \A a, b, c \in Word : LookupRegisters(GuardMismatch(a, b, c)) = <<4, a, b, c>>
BY DEF LookupRegisters, InvalidRoot, MissingCapability, DepthMismatch, GuardMismatch

-----------------------------------------------------------------------------
(* Decoding what the kernel encodes                                         *)

LEMMA VmFaultDecoded ==
  ASSUME NEW f \in VmFault
  PROVE  decode(Encode(f)) = Ok(f)
<1> DEFINE r == <<f.instruction_pointer, f.address, Bit(f.instruction_fault), f.syndrome>>
<1>1. Encode(f) = [label |-> 5, registers |-> r]
  BY DEF Encode, VmFault
<1>2. decode(Encode(f)) = decode_vm_fault(r)
  BY <1>1 DEF decode
<1>3. HasLength(r, 4) /\ IsBoolean(r[3]) /\ (r[3] = 1) = f.instruction_fault
  BY BitDecoded DEF HasLength, VmFault
<1>4. f = [class |-> "VmFault", instruction_pointer |-> f.instruction_pointer,
           address |-> f.address, instruction_fault |-> f.instruction_fault,
           syndrome |-> f.syndrome]
  BY DEF VmFault
<1>5. r[1] = f.instruction_pointer /\ r[2] = f.address /\ r[4] = f.syndrome
  OBVIOUS
<1> HIDE DEF r
<1> QED
  BY <1>2, <1>3, <1>4, <1>5 DEF decode_vm_fault

LEMMA SyscallDecoded ==
  ASSUME NEW f \in UnknownSyscall
  PROVE  decode(Encode(f)) = Ok(f)
<1> DEFINE a == f.argument_registers
           t == <<f.instruction_pointer, f.stack_pointer, f.link_register,
                  f.status_register, f.syscall_number>>
           r == a \o t
<1>1. /\ f.instruction_pointer \in Nat /\ f.stack_pointer \in Nat
      /\ f.link_register \in Nat /\ f.status_register \in Nat /\ f.syscall_number \in Nat
      /\ a \in [1..8 -> Nat]
  BY FaultAssumption DEF UnknownSyscall
<1>2. a \in Seq(Nat) /\ Len(a) = 8
  BY <1>1, SequenceOf
<1>3. t \in Seq(Nat) /\ Len(t) = 5
  BY <1>1
<1>4. /\ t[1] = f.instruction_pointer /\ t[2] = f.stack_pointer
      /\ t[3] = f.link_register /\ t[4] = f.status_register /\ t[5] = f.syscall_number
  OBVIOUS
<1>5. Encode(f) = [label |-> 2, registers |-> r]
  BY DEF Encode, UnknownSyscall
<1>6. decode(Encode(f)) = decode_unknown_syscall(r)
  <2> HIDE DEF r
  <2> QED BY <1>5 DEF decode
<1> HIDE DEF a, t
<1>7. /\ r \in Seq(Nat) /\ Len(r) = Len(a) + Len(t)
      /\ \A i \in 1..Len(a) : r[i] = a[i]
      /\ \A i \in 1..Len(t) : r[Len(a) + i] = t[i]
  BY <1>2, <1>3, Joined, Zenon
<1> HIDE DEF r
<1>8. SubSeq(r, 1, 8) = a
  <2>1. Len(r) = 13 /\ \A i \in 1..8 : r[i] = a[i] /\ r[i] \in Nat
    BY <1>1, <1>2, <1>3, <1>7
  <2>2. /\ SubSeq(r, 1, 8) \in Seq(Nat) /\ Len(SubSeq(r, 1, 8)) = 8
        /\ \A i \in 1..8 : SubSeq(r, 1, 8)[i] = r[i]
    BY <2>1, SubSeqProperties
  <2>3. \A i \in 1..Len(a) : SubSeq(r, 1, 8)[i] = a[i]
    BY <1>2, <2>1, <2>2
  <2> QED
    BY <1>2, <2>2, <2>3, SeqEqual
<1>9. /\ r[9] = f.instruction_pointer /\ r[10] = f.stack_pointer
      /\ r[11] = f.link_register /\ r[12] = f.status_register /\ r[13] = f.syscall_number
  <2>1. r[8 + 1] = t[1] /\ r[8 + 2] = t[2] /\ r[8 + 3] = t[3] /\ r[8 + 4] = t[4] /\ r[8 + 5] = t[5]
    BY <1>2, <1>3, <1>7
  <2> QED BY <1>4, <2>1
<1>10. f = [class |-> "UnknownSyscall", argument_registers |-> a,
            instruction_pointer |-> f.instruction_pointer,
            stack_pointer |-> f.stack_pointer, link_register |-> f.link_register,
            status_register |-> f.status_register, syscall_number |-> f.syscall_number]
  BY DEF UnknownSyscall, a
<1>11. HasLength(r, 13)
  BY <1>2, <1>3, <1>7 DEF HasLength
<1> QED
  BY <1>6, <1>8, <1>9, <1>10, <1>11 DEF decode_unknown_syscall

(* A lookup failure of type k takes k registers, and they are decoded by    *)
(* DecodeLookup wherever three registers precede them.                      *)
LEMMA LookupDecoded ==
  ASSUME NEW l \in LookupFailure
  PROVE  \E t \in Seq(Nat) :
           /\ LookupRegisters(l) = t
           /\ t[1] \in 1..4 /\ Len(t) = t[1]
           /\ \A r : (\A i \in 1..Len(t) : r[3 + i] = t[i]) => DecodeLookup(r) = l
<1> DEFINE Goal ==
        \E t \in Seq(Nat) :
           /\ LookupRegisters(l) = t
           /\ t[1] \in 1..4 /\ Len(t) = t[1]
           /\ \A r : (\A i \in 1..Len(t) : r[3 + i] = t[i]) => DecodeLookup(r) = l
<1>1. ASSUME l = InvalidRoot
      PROVE  Goal
  <2> DEFINE t == <<1>>
  <2>1. LookupRegisters(l) = t
    BY <1>1, LookupEncoded
  <2>2. t \in Seq(Nat) /\ Len(t) = 1 /\ t[1] = 1
    OBVIOUS
  <2> HIDE DEF t
  <2>3. ASSUME NEW r, \A i \in 1..Len(t) : r[3 + i] = t[i]
        PROVE  DecodeLookup(r) = l
    <3>1. r[3 + 1] = t[1]
      BY <2>2, <2>3
    <3> QED
      BY <1>1, <2>2, <3>1 DEF DecodeLookup
  <2>4. t \in Seq(Nat) /\ t[1] \in 1..4 /\ Len(t) = t[1]
    BY <2>2
  <2> QED
    BY <2>1, <2>3, <2>4, Zenon
<1>2. ASSUME NEW a \in Word, l = MissingCapability(a)
      PROVE  Goal
  <2> DEFINE t == <<2, a>>
  <2>1. LookupRegisters(l) = t
    BY <1>2, LookupEncoded
  <2>2. t \in Seq(Nat) /\ Len(t) = 2 /\ t[1] = 2 /\ t[2] = a
    BY FaultAssumption
  <2> HIDE DEF t
  <2>3. ASSUME NEW r, \A i \in 1..Len(t) : r[3 + i] = t[i]
        PROVE  DecodeLookup(r) = l
    <3>1. r[3 + 1] = t[1] /\ r[3 + 2] = t[2]
      BY <2>2, <2>3
    <3> QED
      BY <1>2, <2>2, <3>1 DEF DecodeLookup
  <2>4. t \in Seq(Nat) /\ t[1] \in 1..4 /\ Len(t) = t[1]
    BY <2>2
  <2> QED
    BY <2>1, <2>3, <2>4, Zenon
<1>3. ASSUME NEW a \in Word, NEW b \in Word, l = DepthMismatch(a, b)
      PROVE  Goal
  <2> DEFINE t == <<3, a, b>>
  <2>1. LookupRegisters(l) = t
    BY <1>3, LookupEncoded
  <2>2. t \in Seq(Nat) /\ Len(t) = 3 /\ t[1] = 3 /\ t[2] = a /\ t[3] = b
    BY FaultAssumption
  <2> HIDE DEF t
  <2>3. ASSUME NEW r, \A i \in 1..Len(t) : r[3 + i] = t[i]
        PROVE  DecodeLookup(r) = l
    <3>1. r[3 + 1] = t[1] /\ r[3 + 2] = t[2] /\ r[3 + 3] = t[3]
      BY <2>2, <2>3
    <3> QED
      BY <1>3, <2>2, <3>1 DEF DecodeLookup
  <2>4. t \in Seq(Nat) /\ t[1] \in 1..4 /\ Len(t) = t[1]
    BY <2>2
  <2> QED
    BY <2>1, <2>3, <2>4, Zenon
<1>4. ASSUME NEW a \in Word, NEW b \in Word, NEW c \in Word, l = GuardMismatch(a, b, c)
      PROVE  Goal
  <2> DEFINE t == <<4, a, b, c>>
  <2>1. LookupRegisters(l) = t
    BY <1>4, LookupEncoded
  <2>2. t \in Seq(Nat) /\ Len(t) = 4 /\ t[1] = 4 /\ t[2] = a /\ t[3] = b /\ t[4] = c
    BY FaultAssumption
  <2> HIDE DEF t
  <2>3. ASSUME NEW r, \A i \in 1..Len(t) : r[3 + i] = t[i]
        PROVE  DecodeLookup(r) = l
    <3>1. r[3 + 1] = t[1] /\ r[3 + 2] = t[2] /\ r[3 + 3] = t[3] /\ r[3 + 4] = t[4]
      BY <2>2, <2>3
    <3> QED
      BY <1>4, <2>2, <3>1 DEF DecodeLookup
  <2>4. t \in Seq(Nat) /\ t[1] \in 1..4 /\ Len(t) = t[1]
    BY <2>2
  <2> QED
    BY <2>1, <2>3, <2>4, Zenon
<1> HIDE DEF Goal
<1>5. Goal
  BY <1>1, <1>2, <1>3, <1>4, LookupCases
<1> QED
  BY <1>5 DEF Goal

LEMMA CapabilityFaultDecoded ==
  ASSUME NEW f \in CapabilityFault
  PROVE  decode(Encode(f)) = Ok(f)
<1> DEFINE h == <<f.instruction_pointer, f.capability_address, Bit(f.in_receive_phase)>>
<1>1. /\ f.instruction_pointer \in Nat /\ f.capability_address \in Nat
      /\ f.in_receive_phase \in BOOLEAN /\ f.lookup_failure \in LookupFailure
  BY FaultAssumption DEF CapabilityFault
<1>2. PICK t \in Seq(Nat) :
           /\ LookupRegisters(f.lookup_failure) = t
           /\ t[1] \in 1..4 /\ Len(t) = t[1]
           /\ \A r : (\A i \in 1..Len(t) : r[3 + i] = t[i])
                   => DecodeLookup(r) = f.lookup_failure
  BY <1>1, LookupDecoded
<1>3. h \in Seq(Nat) /\ Len(h) = 3
  BY <1>1, BitDecoded
<1>4. /\ h[1] = f.instruction_pointer /\ h[2] = f.capability_address
      /\ IsBoolean(h[3]) /\ (h[3] = 1) = f.in_receive_phase
  BY <1>1, BitDecoded
<1>5. Encode(f) = [label |-> 1, registers |-> h \o t]
  BY <1>2 DEF Encode, CapabilityFault
<1> HIDE DEF h
<1>6. PICK r \in Seq(Nat) :
        /\ r = h \o t
        /\ Len(r) = Len(h) + Len(t)
        /\ \A i \in 1..Len(h) : r[i] = h[i]
        /\ \A i \in 1..Len(t) : r[Len(h) + i] = t[i]
  BY <1>3, Joined, Zenon
<1>7. /\ Len(r) = 3 + t[1] /\ r[1] = h[1] /\ r[2] = h[2] /\ r[3] = h[3] /\ r[4] = t[1]
      /\ \A i \in 1..Len(t) : r[3 + i] = t[i]
  <2>1. 1 \in 1..Len(h) /\ 2 \in 1..Len(h) /\ 3 \in 1..Len(h) /\ 1 \in 1..Len(t)
    BY <1>2, <1>3
  <2>2. r[3 + 1] = t[1]
    BY <1>3, <1>6, <2>1
  <2> QED
    BY <1>2, <1>3, <1>6, <2>1, <2>2
<1>8. decode(Encode(f)) = decode_capability_fault(r)
  BY <1>5, <1>6 DEF decode
<1>9. DecodeLookup(r) = f.lookup_failure
  BY <1>2, <1>7
<1>10. ~(Len(r) < 4) /\ r[4] \in 1..4 /\ HasLength(r, 3 + r[4])
  BY <1>2, <1>7 DEF HasLength
<1>11. f = [class |-> "CapabilityFault", instruction_pointer |-> f.instruction_pointer,
            capability_address |-> f.capability_address,
            in_receive_phase |-> f.in_receive_phase, lookup_failure |-> f.lookup_failure]
  BY DEF CapabilityFault
<1> QED
  BY <1>4, <1>7, <1>8, <1>9, <1>10, <1>11 DEF decode_capability_fault

(* Every fault of the kernel is decoded to itself. *)
LEMMA RoundTrip ==
  ASSUME NEW f \in Fault
  PROVE  decode(Encode(f)) = Ok(f)
BY VmFaultDecoded, SyscallDecoded, CapabilityFaultDecoded DEF Fault

-----------------------------------------------------------------------------
(* What the decoder accepts                                                 *)

(* The registers of a message are numbers. *)
LEMMA RegistersAreNumbers ==
  ASSUME NEW r \in Seq(Word)
  PROVE  r \in Seq(Nat) /\ Len(r) \in Nat /\ \A i \in 1..Len(r) : r[i] \in Word /\ r[i] \in Nat
<1>1. r \in Seq(Nat)
  BY FaultAssumption, SeqMonotonic
<1>2. \A i \in 1..Len(r) : r[i] \in Word
  BY ElementOfSeq
<1> QED
  BY <1>1, <1>2, LenProperties, FaultAssumption

(* decode_boolean loses nothing of what it accepts. *)
LEMMA BitEncoded ==
  ASSUME NEW v, IsBoolean(v)
  PROVE  (v = 1) \in BOOLEAN /\ Bit(v = 1) = v
BY DEF IsBoolean, Bit

LEMMA VmFaultAccepted ==
  ASSUME NEW r \in Seq(Word), decode_vm_fault(r).ok
  PROVE  /\ decode_vm_fault(r).fault \in VmFault
         /\ Encode(decode_vm_fault(r).fault) = [label |-> 5, registers |-> r]
<1> DEFINE f == [class |-> "VmFault", instruction_pointer |-> r[1], address |-> r[2],
                 instruction_fault |-> r[3] = 1, syndrome |-> r[4]]
           t == <<r[1], r[2], r[3], r[4]>>
<1>1. HasLength(r, 4) /\ IsBoolean(r[3]) /\ decode_vm_fault(r) = Ok(f)
  BY DEF decode_vm_fault, Err
<1>2. decode_vm_fault(r).fault = f
  BY <1>1 DEF Ok
<1>3. /\ r \in Seq(Nat) /\ Len(r) = 4
      /\ \A i \in 1..4 : r[i] \in Word /\ r[i] \in Nat
  BY <1>1, RegistersAreNumbers DEF HasLength
<1>4. f \in VmFault
  BY <1>1, <1>3, BitEncoded DEF VmFault
<1>5. Encode(f) = [label |-> 5, registers |-> t]
  BY <1>1, BitEncoded DEF Encode
<1>6. t \in Seq(Nat) /\ Len(t) = 4 /\ t[1] = r[1] /\ t[2] = r[2] /\ t[3] = r[3] /\ t[4] = r[4]
  <2>1. r[1] \in Nat /\ r[2] \in Nat /\ r[3] \in Nat /\ r[4] \in Nat
    BY <1>3
  <2>2. t \in Seq(Nat) /\ Len(t) = 4
    BY <2>1, Tuples, Zenon
  <2> QED
    BY <2>2
<1> HIDE DEF t
<1>7. \A i \in 1..Len(t) : t[i] = r[i]
  BY <1>6
<1>8. t = r
  BY <1>3, <1>6, <1>7, SeqEqual
<1> HIDE DEF f
<1> QED
  BY <1>2, <1>4, <1>5, <1>8

LEMMA SyscallAccepted ==
  ASSUME NEW r \in Seq(Word), decode_unknown_syscall(r).ok
  PROVE  /\ decode_unknown_syscall(r).fault \in UnknownSyscall
         /\ Encode(decode_unknown_syscall(r).fault) = [label |-> 2, registers |-> r]
<1> DEFINE a == SubSeq(r, 1, 8)
           t == <<r[9], r[10], r[11], r[12], r[13]>>
           f == [class |-> "UnknownSyscall", argument_registers |-> a,
                 instruction_pointer |-> r[9], stack_pointer |-> r[10],
                 link_register |-> r[11], status_register |-> r[12],
                 syscall_number |-> r[13]]
<1>1. HasLength(r, 13) /\ decode_unknown_syscall(r) = Ok(f)
  BY DEF decode_unknown_syscall, Err
<1>2. decode_unknown_syscall(r).fault = f
  <2> HIDE DEF f
  <2> QED BY <1>1 DEF Ok
<1>3. /\ r \in Seq(Nat) /\ Len(r) = 13
      /\ \A i \in 1..13 : r[i] \in Word /\ r[i] \in Nat
  BY <1>1, RegistersAreNumbers DEF HasLength
<1>4. a \in Seq(Word) /\ Len(a) = 8 /\ \A i \in 1..8 : a[i] = r[i]
  <2>1. ASSUME NEW i \in 1..8
        PROVE  r[i] \in Word
    <3>1. i \in 1..13
      OBVIOUS
    <3> QED
      BY <1>3, <3>1, Zenon
  <2> QED
    BY <2>1, SubSeqProperties
<1>5. Encode(f) = [label |-> 2, registers |-> a \o t]
  <2> HIDE DEF a
  <2> QED BY DEF Encode
<1>6. t \in Seq(Nat) /\ Len(t) = 5 /\ t[1] = r[9] /\ t[2] = r[10] /\ t[3] = r[11]
      /\ t[4] = r[12] /\ t[5] = r[13]
  BY <1>3
<1> HIDE DEF a, t
<1>7. a \in [1..8 -> Word] /\ a \in Seq(Nat)
  BY <1>4, LenProperties, RegistersAreNumbers
<1>8. f \in UnknownSyscall
  BY <1>3, <1>7 DEF UnknownSyscall
<1>9. \A i \in 1..Len(t) : r[Len(a) + i] = t[i]
  BY <1>4, <1>6
<1>10. \A i \in 1..Len(a) : r[i] = a[i]
  BY <1>4
<1>11. Len(r) = Len(a) + Len(t)
  BY <1>3, <1>4, <1>6
<1>12. a \o t = r
  BY <1>3, <1>6, <1>7, <1>9, <1>10, <1>11, Rejoined, Zenon
<1> HIDE DEF f
<1> QED
  BY <1>2, <1>5, <1>8, <1>12

(* A lookup failure that is accepted is one of the kernel's, and its        *)
(* registers are those that follow the third.                               *)
LEMMA LookupAccepted ==
  ASSUME NEW r \in Seq(Word), Len(r) >= 4, r[4] \in 1..4, Len(r) = 3 + r[4]
  PROVE  /\ DecodeLookup(r) \in LookupFailure
         /\ \E t \in Seq(Nat) :
              /\ LookupRegisters(DecodeLookup(r)) = t
              /\ Len(t) = r[4]
              /\ \A i \in 1..Len(t) : r[3 + i] = t[i]
<1> DEFINE Goal ==
        /\ DecodeLookup(r) \in LookupFailure
        /\ \E t \in Seq(Nat) :
             /\ LookupRegisters(DecodeLookup(r)) = t
             /\ Len(t) = r[4]
             /\ \A i \in 1..Len(t) : r[3 + i] = t[i]
<1>1. Len(r) \in Nat /\ \A i \in 1..Len(r) : r[i] \in Word /\ r[i] \in Nat
  BY RegistersAreNumbers
<1>2. ASSUME r[4] = 1
      PROVE  Goal
  <2> DEFINE t == <<1>>
  <2>2. DecodeLookup(r) = InvalidRoot
    BY <1>2 DEF DecodeLookup
  <2>3. DecodeLookup(r) \in LookupFailure
    BY <2>2 DEF LookupFailure
  <2>4. LookupRegisters(DecodeLookup(r)) = t
    BY <2>2, LookupEncoded
  <2>5. t \in Seq(Nat) /\ Len(t) = 1 /\ t[1] = 1
    BY FaultAssumption
  <2> HIDE DEF t
  <2>6. Len(t) = r[4] /\ \A i \in 1..Len(t) : r[3 + i] = t[i]
    BY <1>2, <2>5
  <2> QED
    BY <2>3, <2>4, <2>5, <2>6, Zenon
<1>3. ASSUME r[4] = 2
      PROVE  Goal
  <2> DEFINE t == <<2, r[5]>>
  <2>1. r[5] \in Word /\ r[5] \in Nat
    BY <1>1, <1>3
  <2>2. DecodeLookup(r) = MissingCapability(r[5])
    BY <1>3 DEF DecodeLookup
  <2>3. DecodeLookup(r) \in LookupFailure
    BY <2>1, <2>2 DEF LookupFailure
  <2>4. LookupRegisters(DecodeLookup(r)) = t
    BY <2>1, <2>2, LookupEncoded
  <2>5. t \in Seq(Nat) /\ Len(t) = 2 /\ t[1] = 2 /\ t[2] = r[5]
    <3>1. t \in Seq(Nat) /\ Len(t) = 2
      <4>1. 2 \in Nat
        OBVIOUS
      <4> QED
        BY <2>1, <4>1, Tuples, Zenon
    <3> QED
      BY <3>1
  <2> HIDE DEF t
  <2>6. Len(t) = r[4] /\ \A i \in 1..Len(t) : r[3 + i] = t[i]
    BY <1>3, <2>5
  <2> QED
    BY <2>3, <2>4, <2>5, <2>6, Zenon
<1>4. ASSUME r[4] = 3
      PROVE  Goal
  <2> DEFINE t == <<3, r[5], r[6]>>
  <2>1. r[5] \in Word /\ r[6] \in Word /\ r[5] \in Nat /\ r[6] \in Nat
    BY <1>1, <1>4
  <2>2. DecodeLookup(r) = DepthMismatch(r[5], r[6])
    BY <1>4 DEF DecodeLookup
  <2>3. DecodeLookup(r) \in LookupFailure
    BY <2>1, <2>2 DEF LookupFailure
  <2>4. LookupRegisters(DecodeLookup(r)) = t
    BY <2>1, <2>2, LookupEncoded
  <2>5. t \in Seq(Nat) /\ Len(t) = 3 /\ t[1] = 3 /\ t[2] = r[5] /\ t[3] = r[6]
    <3>1. t \in Seq(Nat) /\ Len(t) = 3
      <4>1. 3 \in Nat
        OBVIOUS
      <4> QED
        BY <2>1, <4>1, Tuples, Zenon
    <3> QED
      BY <3>1
  <2> HIDE DEF t
  <2>6. Len(t) = r[4] /\ \A i \in 1..Len(t) : r[3 + i] = t[i]
    BY <1>4, <2>5
  <2> QED
    BY <2>3, <2>4, <2>5, <2>6, Zenon
<1>5. ASSUME r[4] = 4
      PROVE  Goal
  <2> DEFINE t == <<4, r[5], r[6], r[7]>>
  <2>1. r[5] \in Word /\ r[6] \in Word /\ r[7] \in Word /\ r[5] \in Nat /\ r[6] \in Nat /\ r[7] \in Nat
    BY <1>1, <1>5
  <2>2. DecodeLookup(r) = GuardMismatch(r[5], r[6], r[7])
    BY <1>5 DEF DecodeLookup
  <2>3. DecodeLookup(r) \in LookupFailure
    BY <2>1, <2>2 DEF LookupFailure
  <2>4. LookupRegisters(DecodeLookup(r)) = t
    BY <2>1, <2>2, LookupEncoded
  <2>5. t \in Seq(Nat) /\ Len(t) = 4 /\ t[1] = 4 /\ t[2] = r[5] /\ t[3] = r[6] /\ t[4] = r[7]
    <3>1. t \in Seq(Nat) /\ Len(t) = 4
      <4>1. 4 \in Nat
        OBVIOUS
      <4> QED
        BY <2>1, <4>1, Tuples, Zenon
    <3> QED
      BY <3>1
  <2> HIDE DEF t
  <2>6. Len(t) = r[4] /\ \A i \in 1..Len(t) : r[3 + i] = t[i]
    BY <1>5, <2>5
  <2> QED
    BY <2>3, <2>4, <2>5, <2>6, Zenon
<1> HIDE DEF Goal
<1>6. Goal
  BY <1>2, <1>3, <1>4, <1>5
<1> QED
  BY <1>6, Zenon DEF Goal

LEMMA CapabilityFaultAccepted ==
  ASSUME NEW r \in Seq(Word), decode_capability_fault(r).ok
  PROVE  /\ decode_capability_fault(r).fault \in CapabilityFault
         /\ Encode(decode_capability_fault(r).fault) = [label |-> 1, registers |-> r]
<1> DEFINE l == DecodeLookup(r)
           h == <<r[1], r[2], r[3]>>
           f == [class |-> "CapabilityFault", instruction_pointer |-> r[1],
                 capability_address |-> r[2], in_receive_phase |-> r[3] = 1,
                 lookup_failure |-> l]
<1> HIDE DEF l
<1>1. /\ ~(Len(r) < 4) /\ r[4] \in 1..4 /\ HasLength(r, 3 + r[4]) /\ IsBoolean(r[3])
      /\ decode_capability_fault(r) = Ok(f)
  BY DEF decode_capability_fault, Err, l
<1>2. decode_capability_fault(r).fault = f
  <2> HIDE DEF f
  <2> QED BY <1>1 DEF Ok
<1>3. /\ r \in Seq(Nat) /\ Len(r) \in Nat /\ Len(r) >= 4 /\ Len(r) = 3 + r[4]
      /\ r[1] \in Word /\ r[2] \in Word /\ r[3] \in Word
  BY <1>1, RegistersAreNumbers DEF HasLength
<1>4. PICK t \in Seq(Nat) :
        /\ l \in LookupFailure /\ LookupRegisters(l) = t
        /\ Len(t) = r[4] /\ \A i \in 1..Len(t) : r[3 + i] = t[i]
  BY <1>1, <1>3, LookupAccepted, Zenon DEF l
<1>5. f \in CapabilityFault
  BY <1>1, <1>3, <1>4, BitEncoded DEF CapabilityFault
<1>6. Encode(f) = [label |-> 1, registers |-> h \o t]
  BY <1>1, <1>4, BitEncoded DEF Encode
<1>7. h \in Seq(Nat) /\ Len(h) = 3 /\ h[1] = r[1] /\ h[2] = r[2] /\ h[3] = r[3]
  BY <1>3, FaultAssumption
<1> HIDE DEF h
<1>8. /\ Len(r) = Len(h) + Len(t)
      /\ \A i \in 1..Len(h) : r[i] = h[i]
      /\ \A i \in 1..Len(t) : r[Len(h) + i] = t[i]
  BY <1>3, <1>4, <1>7
<1>9. h \o t = r
  BY <1>3, <1>7, <1>8, Rejoined, Zenon
<1> HIDE DEF f
<1> QED
  BY <1>2, <1>5, <1>6, <1>9

(* Whatever decode accepts is a fault, and the kernel would send that fault *)
(* as the message it was decoded from.                                      *)
LEMMA AcceptedIsEncoded ==
  ASSUME NEW m \in Message, decode(m).ok
  PROVE  decode(m).fault \in Fault /\ Encode(decode(m).fault) = m
<1>1. m.registers \in Seq(Word) /\ m = [label |-> m.label, registers |-> m.registers]
  BY DEF Message
<1>2. CASE m.label = 1
  BY <1>1, <1>2, CapabilityFaultAccepted DEF decode, Fault
<1>3. CASE m.label = 2
  BY <1>1, <1>3, SyscallAccepted DEF decode, Fault
<1>4. CASE m.label = 5
  BY <1>1, <1>4, VmFaultAccepted DEF decode, Fault
<1>5. CASE m.label \notin {1, 2, 5}
  BY <1>5 DEF decode, Err
<1> QED
  BY <1>2, <1>3, <1>4, <1>5

-----------------------------------------------------------------------------
(* The specification                                                        *)

(* Where a message comes from, and what can have become of it. *)
MessageOrigin ==
    \/ source \in Raised /\ message = Encode(source)
    \/ source = NoFault /\ message \in Foreign

DecodeIInv == MessageOrigin /\ result \in {Pending, decode(message)}

LEMMA DecodeInitInv == DecodeInit => DecodeIInv
BY DEF DecodeInit, DecodeIInv, MessageOrigin

LEMMA DecodeInductive == DecodeIInv /\ [Decode]_decodeVars => DecodeIInv'
BY DEF DecodeIInv, MessageOrigin, Decode, decodeVars

LEMMA DecodeInvImplies == DecodeIInv => KernelFaultsDecoded /\ OnlyFaultsAccepted
<1> SUFFICES ASSUME DecodeIInv
             PROVE  KernelFaultsDecoded /\ OnlyFaultsAccepted
  OBVIOUS
<1>1. CASE result = Pending
  BY <1>1 DEF Pending, KernelFaultsDecoded, OnlyFaultsAccepted
<1>2. CASE result = decode(message) /\ source \in Raised /\ message = Encode(source)
  <2>1. source \in Fault /\ result = Ok(source)
    BY <1>2, RoundTrip, FaultAssumption
  <2> QED
    BY <1>2, <2>1 DEF Ok, KernelFaultsDecoded, OnlyFaultsAccepted
<1>3. CASE result = decode(message) /\ source = NoFault /\ message \in Foreign
  <2>1. message \in Message
    BY <1>3, FaultAssumption DEF Message
  <2> QED
    BY <1>3, <2>1, AcceptedIsEncoded DEF KernelFaultsDecoded, OnlyFaultsAccepted
<1> QED
  BY <1>1, <1>2, <1>3 DEF DecodeIInv, MessageOrigin

(* Fault::decode returns, for every message the kernel sends for a fault,   *)
(* the fault that was raised: whatever its class, its number of registers   *)
(* and their values.                                                        *)
THEOREM FaultsDecoded == DecodeSpec => []KernelFaultsDecoded
<1>1. DecodeSpec => []DecodeIInv
  BY DecodeInitInv, DecodeInductive, PTL DEF DecodeSpec
<1> QED
  BY <1>1, DecodeInvImplies, PTL

(* Fault::decode accepts a message only if it is the kernel's encoding of   *)
(* the fault it returns, whoever sent it and however many registers it has. *)
THEOREM NothingElseAccepted == DecodeSpec => []OnlyFaultsAccepted
<1>1. DecodeSpec => []DecodeIInv
  BY DecodeInitInv, DecodeInductive, PTL DEF DecodeSpec
<1> QED
  BY <1>1, DecodeInvImplies, PTL

-----------------------------------------------------------------------------
(***************************************************************************)
(* Recovery                                                                *)
(***************************************************************************)
(* A Registers or ReceivedFault value, or the absence of one. *)
View == [task : Task, pc : Nat] \cup {Nothing}

(* The registers the root may write back are in the program; unless they    *)
(* are stale, they are of a stopped task and not behind it.                 *)
RegistersInv ==
    regs.task # None =>
        /\ regs.pc \in 1..(Len(Program[regs.task]) + 1)
        /\ ~stale => thread[regs.task] # "running" /\ regs.pc >= pc[regs.task]

(* The kernel keeps a reply authority for a blocked task only. *)
AuthorityInv == authority # None => thread[authority] = "blocked"

IInv ==
    /\ RecoveryInv
    /\ pc \in [Task -> Nat]
    /\ regs \in View /\ fault \in View
    /\ RegistersInv
    /\ AuthorityInv

-----------------------------------------------------------------------------
LEMMA ProgramLength ==
    ASSUME NEW t \in Task
    PROVE  Len(Program[t]) \in Nat
BY RecoveryAssumption

LEMMA InitIInv == Init => IInv
<1>1. Init => stale \in BOOLEAN
  BY Zenon DEF Init
<1> QED
  BY <1>1, RecoveryAssumption, ProgramLength
     DEF Init, IInv, RecoveryInv, TypeOK, MappingsHaveHandles, RegistersInv, AuthorityInv,
         View, Nothing, Nowhere, Place, Cap

(* A task that runs takes no authority with it, and makes registers stale. *)
LEMMA RestartIInv ==
    ASSUME IInv, NEW t \in Task, Restart(t),
           authority' \in {authority, None}, authority' # t,
           fault' \in View,
           UNCHANGED <<raised, pc, at, used>>
    PROVE  IInv'
<1> USE RecoveryAssumption DEF IInv
<1>1. thread' \in [Task -> {"suspended", "running", "faulted", "blocked"}]
  BY DEF Restart, RecoveryInv, TypeOK
<1>2. regs' \in View /\ stale' \in BOOLEAN
  <2>1. regs' \in View
    BY DEF Restart
  <2>2. stale' = (stale \/ regs.task = t)
    BY DEF Restart
  <2>3. stale' \in BOOLEAN
    BY <2>2, Zenon
  <2> QED
    BY <2>1, <2>3
<1>3. RecoveryInv'
  <2>1. regs'.task \in Task \cup {None} /\ fault'.task \in Task \cup {None}
    BY <1>2 DEF View, Nothing
  <2> QED
    BY <1>1, <1>2, <2>1 DEF RecoveryInv, TypeOK, MappingsHaveHandles
<1>4. RegistersInv'
  BY DEF Restart, RegistersInv, View, Nothing, RecoveryInv, TypeOK
<1>5. AuthorityInv'
  BY DEF Restart, AuthorityInv, RecoveryInv, TypeOK
<1> QED
  BY <1>2, <1>3, <1>4, <1>5

(* A frame capability is mapped at a scratch page, unmapped, or is the copy *)
(* of a new handle.                                                         *)
LEMMA MapIInv ==
    ASSUME IInv, NEW c \in Cap, NEW place \in Place,
           at' = [at EXCEPT ![c] = place],
           used' \in used..Slots,
           place \in {Scratch, Nowhere} \/ c \in 1..used',
           UNCHANGED <<raised, pc, thread, authority, fault, regs, stale>>
    PROVE  IInv'
<1> USE RecoveryAssumption DEF IInv
<1>1. at' \in [Cap -> Place] /\ used' \in 0..Slots
  BY DEF RecoveryInv, TypeOK
<1>2. ASSUME NEW t \in Task, NEW p \in Page, NEW d \in Cap, at'[d] = <<t, p>>
      PROVE  d \in 1..used'
  <2>1. used \in Nat /\ used' \in Nat /\ used' >= used
    BY DEF RecoveryInv, TypeOK
  <2>2. CASE d = c
    <3>1. at'[d] = place
      BY <2>2 DEF RecoveryInv, TypeOK
    <3>2. place \notin {Scratch, Nowhere}
      BY <1>2, <3>1 DEF Scratch, Nowhere
    <3> QED
      BY <2>2, <3>2
  <2>3. CASE d # c
    <3>1. at[d] = <<t, p>>
      BY <1>2, <2>3 DEF RecoveryInv, TypeOK
    <3>2. d \in 1..used
      BY <3>1 DEF RecoveryInv, MappingsHaveHandles
    <3> QED
      BY <2>1, <3>2
  <2> QED
    BY <2>2, <2>3
<1> QED
  BY <1>1, <1>2 DEF RecoveryInv, TypeOK, MappingsHaveHandles, RegistersInv, AuthorityInv

-----------------------------------------------------------------------------
(* Each action preserves the invariant. *)
LEMMA Inductive ==
    ASSUME IInv, Next
    PROVE  IInv'
<1> USE RecoveryAssumption, ProgramLength
<1>1. ASSUME NEW t \in Task, Execute(t)
      PROVE  IInv'
  <2>1. pc' \in [Task -> Nat] /\ \A u \in Task : pc'[u] \in 1..(Len(Program[u]) + 1)
    <3>1. pc' = [pc EXCEPT ![t] = pc[t] + 1] /\ pc[t] \in Nat /\ pc[t] <= Len(Program[t])
      BY <1>1 DEF Execute, Done, IInv
    <3> QED
      BY <3>1 DEF IInv, RecoveryInv, TypeOK
  <2>2. RegistersInv'
    BY <1>1 DEF Execute, IInv, RegistersInv, View, RecoveryInv, TypeOK
  <2> QED
    BY <1>1, <2>1, <2>2
       DEF Execute, IInv, RecoveryInv, TypeOK, MappingsHaveHandles, AuthorityInv, View
<1>2. ASSUME NEW t \in Task, RaiseFault(t)
      PROVE  IInv'
  BY <1>2 DEF RaiseFault, IInv, RecoveryInv, TypeOK, MappingsHaveHandles, RegistersInv,
              AuthorityInv, View
<1>3. ASSUME NEW t \in Task, ReceiveFault(t)
      PROVE  IInv'
  <2>1. CASE Program[t][raised[t]] = Exception
    <3>1. authority # t
      BY <1>3 DEF ReceiveFault, IInv, AuthorityInv
    <3> QED
      BY <1>3, <2>1, <3>1, RestartIInv DEF ReceiveFault, IInv
  <2>2. CASE Program[t][raised[t]] # Exception
    <3>1. fault' \in View
      BY <1>3, <2>2 DEF ReceiveFault, View, IInv, RecoveryInv, TypeOK
    <3> QED
      BY <1>3, <2>2, <3>1
         DEF ReceiveFault, IInv, RecoveryInv, TypeOK, MappingsHaveHandles, RegistersInv,
             AuthorityInv, View
  <2> QED
    BY <2>1, <2>2
<1>4. ASSUME NEW t \in Task, Resume(t)
      PROVE  IInv'
  BY <1>4, RestartIInv DEF Resume, Forget, IInv
<1>5. ASSUME NEW t \in Task, Suspend(t)
      PROVE  IInv'
  BY <1>5 DEF Suspend, Forget, IInv, RecoveryInv, TypeOK, MappingsHaveHandles, RegistersInv,
              AuthorityInv, View
<1>6. ASSUME NEW t \in Task, ReadRegisters(t)
      PROVE  IInv'
  <2>1. regs' \in View
    BY <1>6 DEF ReadRegisters, View, IInv
  <2>2. stale' = (thread[t] = "running")
    BY <1>6 DEF ReadRegisters
  <2>3. stale' \in BOOLEAN
    BY <2>2, Zenon
  <2>4. RegistersInv'
    <3>1. pc[t] \in 1..(Len(Program[t]) + 1) /\ pc[t] \in Nat
      BY DEF IInv, RecoveryInv, TypeOK
    <3>2. regs' = [task |-> t, pc |-> pc[t]] /\ UNCHANGED <<pc, thread>>
      BY <1>6 DEF ReadRegisters
    <3>3. regs'.task = t /\ regs'.pc = pc[t]
      BY <3>2
    <3>4. ~stale' => thread'[t] # "running"
      BY <2>2, <3>2
    <3> QED
      BY <3>1, <3>2, <3>3, <3>4 DEF RegistersInv
  <2>5. RecoveryInv'
    BY <1>6, <2>1, <2>3
       DEF ReadRegisters, IInv, RecoveryInv, TypeOK, MappingsHaveHandles, View, Nothing
  <2> QED
    BY <1>6, <2>1, <2>4, <2>5 DEF ReadRegisters, IInv, AuthorityInv
<1>7. ASSUME NEW t \in Task, NEW p \in Page, MapRecoveryFrame(t, p)
      PROVE  IInv'
  <2>1. used + 1 \in Cap /\ <<t, p>> \in Place /\ used' \in used..Slots /\ used + 1 \in 1..used'
    BY <1>7 DEF MapRecoveryFrame, Cap, Place, IInv, RecoveryInv, TypeOK
  <2> QED
    BY <1>7, <2>1, MapIInv DEF MapRecoveryFrame, KernelMap
<1>8. ASSUME Reply
      PROVE  IInv'
  <2>1. fault' \in View
    BY <1>8 DEF Reply, View, Nothing
  <2>2. CASE authority # None
    BY <1>8, <2>1, <2>2, RestartIInv DEF Reply, IInv, RecoveryInv, TypeOK
  <2>3. CASE authority = None
    BY <1>8, <2>1, <2>3
       DEF Reply, IInv, RecoveryInv, TypeOK, MappingsHaveHandles, RegistersInv, AuthorityInv,
           View, Nothing
  <2> QED
    BY <2>2, <2>3
<1>9. ASSUME SkipInstruction
      PROVE  IInv'
  <2>1. regs \in [task : Task, pc : Nat]
    BY <1>9 DEF SkipInstruction, IInv, View
  <2>2. regs' = [task |-> regs.task, pc |-> regs.pc + 1]
    BY <1>9, <2>1 DEF SkipInstruction
  <2>3. regs' \in View
    BY <2>1, <2>2 DEF View
  <2>4. RegistersInv'
    BY <1>9, <2>1, <2>2 DEF SkipInstruction, IInv, RegistersInv
  <2> QED
    BY <1>9, <2>1, <2>2, <2>3, <2>4
       DEF SkipInstruction, IInv, RecoveryInv, TypeOK, MappingsHaveHandles, AuthorityInv
<1>10. ASSUME WriteRegisters
       PROVE  IInv'
  <2>1. regs.task \in Task
    BY <1>10 DEF WriteRegisters, IInv, View, Nothing
  <2> QED
    BY <1>10, <2>1
       DEF WriteRegisters, IInv, RecoveryInv, TypeOK, MappingsHaveHandles, RegistersInv,
           AuthorityInv, View
<1>11. ASSUME NEW c \in 1..Slots, Unmap(c)
       PROVE  IInv'
  <2>1. c \in Cap /\ Nowhere \in Place /\ used' \in used..Slots
    BY <1>11 DEF Unmap, Cap, Place, IInv, RecoveryInv, TypeOK
  <2> QED
    BY <1>11, <2>1, MapIInv DEF Unmap
<1>12. ASSUME NEW f \in Frame, MapScratch(f)
       PROVE  IInv'
  <2>1. f \in Cap /\ Scratch \in Place /\ used' \in used..Slots
    BY <1>12 DEF MapScratch, Cap, Place, IInv, RecoveryInv, TypeOK
  <2> QED
    BY <1>12, <2>1, MapIInv DEF MapScratch, KernelMap
<1>13. ASSUME NEW f \in Frame, UnmapScratch(f)
       PROVE  IInv'
  <2>1. f \in Cap /\ Nowhere \in Place /\ used' \in used..Slots
    BY <1>13 DEF UnmapScratch, Cap, Place, IInv, RecoveryInv, TypeOK
  <2> QED
    BY <1>13, <2>1, MapIInv DEF UnmapScratch
<1> QED
  BY <1>1, <1>2, <1>3, <1>4, <1>5, <1>6, <1>7, <1>8, <1>9, <1>10, <1>11, <1>12, <1>13
     DEF Next, TaskStep

LEMMA InductiveBox == IInv /\ [Next]_vars => IInv'
<1> SUFFICES ASSUME IInv, [Next]_vars PROVE IInv'
  OBVIOUS
<1>1. CASE Next
  BY <1>1, Inductive
<1>2. CASE UNCHANGED vars
  BY <1>2 DEF vars, IInv, RecoveryInv, TypeOK, MappingsHaveHandles, RegistersInv, AuthorityInv
<1> QED
  BY <1>1, <1>2

LEMMA Invariant == Spec => []IInv
BY InitIInv, InductiveBox, PTL DEF Spec

(* Whatever the root does with registers, frames and threads while faults   *)
(* are pending, program counters stay in their programs and every page of a *)
(* task is mapped through a copy that a TaskMapping names.                  *)
THEOREM RecoverySafe == Spec => []RecoveryInv
<1>1. IInv => RecoveryInv
  BY DEF IInv
<1> QED
  BY <1>1, Invariant, PTL

-----------------------------------------------------------------------------
(* Only resume takes a task out of suspension: the reply authority it was   *)
(* suspended with is gone, and a fault it was queued with too.              *)
LEMMA SuspendedStep ==
    ASSUME IInv, Next, NEW t \in Task, thread[t] = "suspended", thread'[t] # "suspended"
    PROVE  Resume(t)
<1> USE DEF IInv, RecoveryInv, TypeOK
<1>1. ASSUME NEW u \in Task, TaskStep(u)
      PROVE  FALSE
  BY <1>1 DEF TaskStep, Execute, RaiseFault
<1>2. ASSUME NEW u \in Task, ReceiveFault(u)
      PROVE  FALSE
  BY <1>2 DEF ReceiveFault, Restart
<1>3. ASSUME NEW u \in Task, Resume(u)
      PROVE  Resume(t)
  BY <1>3 DEF Resume, Restart
<1>4. ASSUME NEW u \in Task, Suspend(u)
      PROVE  FALSE
  BY <1>4 DEF Suspend
<1>5. ASSUME Reply
      PROVE  FALSE
  <2>1. CASE authority = None
    BY <1>5, <2>1 DEF Reply
  <2>2. CASE authority # None
    BY <1>5, <2>2 DEF Reply, Restart, AuthorityInv
  <2> QED
    BY <2>1, <2>2
<1>6. ASSUME UNCHANGED thread
      PROVE  FALSE
  BY <1>6
<1> QED
  BY <1>1, <1>2, <1>3, <1>4, <1>5, <1>6
     DEF Next, ReadRegisters, MapRecoveryFrame, SkipInstruction, WriteRegisters, Unmap,
         MapScratch, UnmapScratch

(* A suspended task runs again only by Task::start or Task::resume, however *)
(* late the root answers or writes back what it had received from it.       *)
THEOREM SuspensionHolds == Spec => SuspendedStays
<1>1. IInv /\ [Next]_vars =>
        [\A t \in Task : thread[t] = "suspended" /\ thread'[t] # "suspended" => Resume(t)]_vars
  BY SuspendedStep DEF vars
<1> QED
  BY <1>1, Invariant, PTL DEF Spec, SuspendedStays

-----------------------------------------------------------------------------
(* A program counter moves by an executed instruction or by a write of      *)
(* registers, which are behind it only if they are stale.                   *)
LEMMA ProgressStep ==
    ASSUME IInv, Next, NEW t \in Task, pc'[t] < pc[t]
    PROVE  stale /\ regs.task = t
<1> USE DEF IInv
<1>1. ASSUME NEW u \in Task, Execute(u)
      PROVE  FALSE
  BY <1>1 DEF Execute
<1>2. ASSUME WriteRegisters
      PROVE  stale /\ regs.task = t
  <2>1. regs \in [task : Task, pc : Nat]
    BY <1>2 DEF WriteRegisters, View
  <2>2. regs.task = t /\ regs.pc < pc[t]
    BY <1>2, <2>1 DEF WriteRegisters
  <2> QED
    BY <2>1, <2>2, RecoveryAssumption DEF RegistersInv
<1>3. ASSUME UNCHANGED pc
      PROVE  FALSE
  BY <1>3
<1> QED
  BY <1>1, <1>2, <1>3
     DEF Next, TaskStep, RaiseFault, ReceiveFault, Resume, Suspend, ReadRegisters,
         MapRecoveryFrame, Reply, SkipInstruction, Unmap, MapScratch, UnmapScratch

(* Registers written back take a task behind what it has executed only if   *)
(* the root let it run since they were read, or read them while it ran.     *)
THEOREM ProgressKept == Spec => FreshRegistersKeepProgress
<1>1. IInv /\ [Next]_vars => [\A t \in Task : pc'[t] < pc[t] => stale /\ regs.task = t]_vars
  BY ProgressStep DEF vars
<1> QED
  BY <1>1, Invariant, PTL DEF Spec, FreshRegistersKeepProgress

=============================================================================
