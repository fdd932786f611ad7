----------------------- MODULE ObjectAllocatorProofs -----------------------
(***************************************************************************)
(* Proofs about ObjectAllocator, for any untyped list, any sizes and any   *)
(* sequence of operations.  Sizes are powers of two: that one divides the  *)
(* other is what makes an aligned object fit into the rest of an untyped.  *)
(***************************************************************************)
EXTENDS ObjectAllocator, FiniteSetTheorems, TLAPS

-----------------------------------------------------------------------------
(***************************************************************************)
(* Powers of two, as the number of subsets of an interval                  *)
(***************************************************************************)
LEMMA PowerCount ==
    ASSUME NEW n \in Nat, NEW a \in Nat
    PROVE  /\ IsFiniteSet(SUBSET (a + 1..a + n))
           /\ Cardinality(SUBSET (a + 1..a + n)) = 2^n
<1>1. IsFiniteSet(a + 1..a + n) /\ Cardinality(a + 1..a + n) = n
  BY FS_Interval
<1> QED
  BY <1>1, FS_SUBSET, Zenon

LEMMA PowerPositive ==
    ASSUME NEW n \in Nat
    PROVE  2^n \in Nat \ {0}
<1>1. IsFiniteSet(SUBSET (0 + 1..0 + n)) /\ Cardinality(SUBSET (0 + 1..0 + n)) = 2^n
  BY PowerCount, Zenon
<1>2. SUBSET (0 + 1..0 + n) # {}
  OBVIOUS
<1>3. 2^n \in Nat /\ 2^n # 0
  BY <1>1, <1>2, FS_CardinalityType, FS_EmptySet, Zenon
<1> QED
  BY <1>3

(* A subset of m + n numbers is a subset of the first m and one of the rest. *)
LEMMA PowerSum ==
    ASSUME NEW m \in Nat, NEW n \in Nat
    PROVE  2^(m + n) = 2^m * 2^n
<1> DEFINE A == SUBSET (0 + 1..0 + m)
           B == SUBSET (m + 1..m + n)
           C == SUBSET (0 + 1..0 + (m + n))
           f == [p \in A \X B |-> p[1] \cup p[2]]
<1>1. IsFiniteSet(A) /\ Cardinality(A) = 2^m
  BY PowerCount, Zenon
<1>2. IsFiniteSet(B) /\ Cardinality(B) = 2^n
  BY PowerCount, Zenon
<1>3. Cardinality(C) = 2^(m + n)
  <2>1. m + n \in Nat
    OBVIOUS
  <2> QED
    BY <2>1, PowerCount, Zenon
<1>4. f \in Bijection(A \X B, C)
  <2>1. f \in [A \X B -> C]
    OBVIOUS
  <2>2. ASSUME NEW p \in A \X B, NEW q \in A \X B, f[p] = f[q]
        PROVE  p = q
    <3>1. p[1] \cup p[2] = q[1] \cup q[2]
      BY <2>2
    <3>2. ASSUME NEW i
          PROVE  (i \in p[1] <=> i \in q[1]) /\ (i \in p[2] <=> i \in q[2])
      BY <3>1
    <3>3. p[1] = q[1] /\ p[2] = q[2]
      BY <3>2
    <3> QED
      BY <3>3
  <2>3. ASSUME NEW s \in C
        PROVE  \E p \in A \X B : f[p] = s
    <3> DEFINE q == <<s \cap (0 + 1..0 + m), s \cap (m + 1..m + n)>>
    <3>1. q \in A \X B
      OBVIOUS
    <3>2. f[q] = q[1] \cup q[2]
      BY <3>1, Zenon
    <3>3. s \subseteq q[1] \cup q[2] /\ q[1] \cup q[2] \subseteq s
      OBVIOUS
    <3> QED
      BY <3>1, <3>2, <3>3
  <2> HIDE DEF f, A, B, C
  <2> QED
    BY <2>1, <2>2, <2>3, Zenon DEF Bijection, Injection, Surjection, IsInjective
<1>5. IsFiniteSet(A \X B) /\ Cardinality(A \X B) = Cardinality(A) * Cardinality(B)
  BY <1>1, <1>2, FS_Product, Zenon
<1> HIDE DEF A, B, C, f
<1>6. Cardinality(C) = Cardinality(A \X B)
  BY <1>4, <1>5, FS_Bijection, Zenon DEF ExistsBijection
<1> QED
  BY <1>1, <1>2, <1>3, <1>5, <1>6

(* A smaller size divides a larger one, and is strictly smaller. *)
LEMMA SizeDivides ==
    ASSUME NEW m \in Nat, NEW n \in Nat, m <= n
    PROVE  \E q \in Nat : q > 0 /\ Size(n) = q * Size(m)
<1>1. n - m \in Nat /\ m + (n - m) = n
  OBVIOUS
<1>2. 2^n = 2^m * 2^(n - m)
  BY <1>1, PowerSum, Zenon
<1>3. 2^(n - m) \in Nat \ {0} /\ 2^m \in Nat
  BY <1>1, PowerPositive
<1>4. 2^n = 2^(n - m) * 2^m
  BY <1>2, <1>3
<1> QED
  BY <1>3, <1>4 DEF Size

LEMMA SizePositive ==
    ASSUME NEW n \in Nat
    PROVE  Size(n) \in Nat /\ Size(n) > 0
BY PowerPositive DEF Size

LEMMA SizeMonotonic ==
    ASSUME NEW m \in Nat, NEW n \in Nat, m < n
    PROVE  Size(m) < Size(n)
<1>1. m + 1 \in Nat /\ m + 1 <= n
  OBVIOUS
<1>2. PICK q \in Nat : q > 0 /\ Size(n) = q * Size(m + 1)
  BY <1>1, SizeDivides
<1>3. 2^(m + 1) = 2^m * 2^1
  <2>1. 1 \in Nat
    OBVIOUS
  <2> QED
    BY <2>1, PowerSum, Zenon
<1>4. Size(m + 1) = 2 * Size(m)
  <2>1. 2^1 = 2 /\ 2^m \in Nat
    BY PowerPositive
  <2> QED
    BY <1>3, <2>1 DEF Size
<1>5. Size(m) \in Nat /\ Size(m) > 0
  BY SizePositive
<1>6. q * (2 * Size(m)) >= 2 * Size(m)
  BY <1>2, <1>5
<1> QED
  BY <1>2, <1>4, <1>5, <1>6

(* The next multiple of size: aligned, not below n, and not beyond any      *)
(* multiple that is not below n.                                            *)
LEMMA AlignUpFacts ==
    ASSUME NEW n \in Nat, NEW size \in Nat, size > 0
    PROVE  /\ AlignUp(n, size) \in Nat
           /\ AlignUp(n, size) % size = 0
           /\ AlignUp(n, size) >= n
           /\ \A q \in Nat : n <= q * size => AlignUp(n, size) <= q * size
<1> DEFINE k == (n + size - 1) \div size
<1>1. k \in Nat /\ k * size <= n + size - 1 /\ n + size - 1 < k * size + size
  OBVIOUS
<1> HIDE DEF k
<1>2. AlignUp(n, size) = k * size
  BY DEF AlignUp, k
<1>3. k * size \in Nat /\ (k * size) % size = 0 /\ k * size >= n
  BY <1>1
<1>4. ASSUME NEW q \in Nat, n <= q * size
      PROVE  k * size <= q * size
  <2>1. k * size < (q + 1) * size
    BY <1>1, <1>4
  <2>2. k < q + 1
    BY <1>1, <2>1
  <2> QED
    BY <1>1, <2>2
<1> QED
  BY <1>2, <1>3, <1>4

-----------------------------------------------------------------------------
(***************************************************************************)
(* The inductive invariant                                                 *)
(***************************************************************************)
Object == [untyped : Untyped, bits : Nat, slot : Slot, lo : Nat]
Want == [bits : Nat, frame : BOOLEAN]

Types ==
    /\ mark \in [Untyped -> Nat]
    /\ objects \subseteq Object
    /\ todo \in Seq(Want)
    /\ before.mark \in [Untyped -> Nat]

(* What the running operation made lies in the slots from its checkpoint on; *)
(* a rollback has deleted what is behind its cursor.                         *)
OperationInv ==
    /\ phase \in {"build", "rollback"} =>
          /\ checkpoint <= start
          /\ before.objects = {o \in objects : o.slot < checkpoint}
    /\ phase = "rollback" =>
          /\ cursor \in checkpoint..start
          /\ \A o \in objects : o.slot < cursor

(* The untypeds the search has passed have no room for the object wanted. *)
SearchInv ==
    Allocating =>
        \A u \in 1..(at - 1) : u \in Untyped /\ ~Untypeds[u].device =>
            FreeBytes(u, mark, objects) < Size(Head(todo).bits)

IInv == AllocatorInv /\ Types /\ OperationInv /\ SearchInv

LEMMA UntypedFacts ==
    /\ Len(Untypeds) \in Nat
    /\ \A u \in Untyped : Untypeds[u].bits \in Nat
<1>1. Len(Untypeds) \in Nat
  BY AllocatorAssumption
<1>2. ASSUME NEW u \in Untyped
      PROVE  Untypeds[u].bits \in Nat
  <2> DEFINE Descriptor == [bits : Nat, device : BOOLEAN]
  <2>1. Untypeds \in Seq(Descriptor)
    BY AllocatorAssumption
  <2> HIDE DEF Descriptor
  <2>2. Untypeds[u] \in Descriptor
    BY <2>1 DEF Untyped
  <2> QED
    BY <2>2 DEF Descriptor
<1> QED
  BY <1>1, <1>2

LEMMA InitIInv == Init => IInv
<1> SUFFICES ASSUME Init PROVE IInv
  OBVIOUS
<1> USE AllocatorAssumption, UntypedFacts DEF Init
<1>1. TypeOK
  <2>1. ASSUME NEW u \in Untyped
        PROVE  0 \in 0..Size(Untypeds[u].bits)
    <3>1. Size(Untypeds[u].bits) \in Nat
      BY SizePositive
    <3> QED
      BY <3>1
  <2> QED
    BY <2>1 DEF TypeOK
<1> QED
  BY <1>1 DEF IInv, AllocatorInv, ObjectsExclusive, EveryObjectNamed, OnlyMemoryRefuses, Types,
              OperationInv, SearchInv, Allocating

LEMMA ObjectFacts ==
    ASSUME IInv, NEW o \in objects
    PROVE  o \in Object /\ Size(o.bits) \in Nat /\ Size(o.bits) > 0 /\ End1(o) \in Nat
<1>1. o \in Object /\ o.bits \in Nat /\ o.lo \in Nat
  BY DEF IInv, Types, Object
<1> QED
  BY <1>1, SizePositive DEF End1

(* FreeFrom is a place in the untyped, behind every object that is in it. *)
LEMMA FreeFromFacts ==
    ASSUME IInv, NEW u \in Untyped
    PROVE  /\ FreeFrom(u, mark, objects) \in 0..Size(Untypeds[u].bits)
           /\ \A o \in objects : o.untyped = u => End1(o) <= FreeFrom(u, mark, objects)
           /\ FreeBytes(u, mark, objects) \in 0..Size(Untypeds[u].bits)
<1> USE UntypedFacts DEF IInv
<1>1. Size(Untypeds[u].bits) \in Nat
  BY SizePositive
<1>2. mark[u] \in 0..Size(Untypeds[u].bits)
  BY DEF AllocatorInv, TypeOK
<1>3. FreeFrom(u, mark, objects) \in 0..Size(Untypeds[u].bits)
  BY <1>1, <1>2 DEF FreeFrom
<1>4. ASSUME NEW o \in objects, o.untyped = u
      PROVE  End1(o) <= FreeFrom(u, mark, objects)
  BY <1>4 DEF FreeFrom, Children, AllocatorInv, ObjectsExclusive
<1> QED
  BY <1>1, <1>3, <1>4 DEF FreeBytes

-----------------------------------------------------------------------------
(***************************************************************************)
(* Retype                                                                  *)
(***************************************************************************)

(* The object made is aligned, lies in the free part of its untyped, and    *)
(* starts behind every object that is already there.                        *)
LEMMA NewObjectFits ==
    ASSUME IInv, Allocating, start < End, at \in Untyped, ~Unsuitable(at),
           FreeBytes(at, mark, objects) >= Size(Head(todo).bits)
    PROVE  LET new == NewObject(at, Head(todo)) IN
           /\ new \in Object
           /\ new.untyped = at /\ new.slot = start
           /\ new.lo % Size(new.bits) = 0
           /\ End1(new) \in Nat
           /\ End1(new) <= Size(Untypeds[at].bits)
           /\ \A o \in objects : o.untyped = at => End1(o) <= new.lo
<1> DEFINE want == Head(todo)
           size == Size(want.bits)
           from == FreeFrom(at, mark, objects)
           room == Size(Untypeds[at].bits)
           new == NewObject(at, want)
<1>1. want \in Want
  BY DEF IInv, Types, Allocating
<1>2. want.bits \in Nat
  BY <1>1 DEF Want
<1>3. size \in Nat /\ size > 0
  BY <1>2, SizePositive
<1>4. Untypeds[at].bits \in Nat /\ want.bits <= Untypeds[at].bits
  BY <1>2, UntypedFacts DEF Unsuitable
<1>5. PICK q \in Nat : q > 0 /\ room = q * size
  BY <1>2, <1>4, SizeDivides
<1>6. from \in Nat /\ from + size <= room /\ room \in Nat
  <2>1. room \in Nat
    BY <1>4, SizePositive
  <2> QED
    BY <2>1, <1>3, FreeFromFacts DEF FreeBytes
<1>7. new = [untyped |-> at, bits |-> want.bits, slot |-> start, lo |-> AlignUp(from, size)]
  BY DEF NewObject
<1> HIDE DEF new, room
<1>8. AlignUp(from, size) \in Nat /\ AlignUp(from, size) % size = 0 /\ AlignUp(from, size) >= from
  BY <1>3, <1>6, AlignUpFacts
<1>9. AlignUp(from, size) + size <= room
  <2>1. q - 1 \in Nat /\ (q - 1) * size = q * size - size
    BY <1>3, <1>5
  <2>2. from <= (q - 1) * size
    BY <1>3, <1>5, <1>6, <2>1
  <2>3. AlignUp(from, size) <= (q - 1) * size
    BY <1>3, <1>6, <2>1, <2>2, AlignUpFacts
  <2> HIDE DEF from, size
  <2> QED
    BY <1>3, <1>5, <1>8, <2>1, <2>3
<1>10. start \in Slot
  BY AllocatorAssumption DEF IInv, AllocatorInv, TypeOK, Slot
<1>11. new \in Object
  BY <1>2, <1>7, <1>8, <1>10 DEF Object
<1>12. End1(new) = AlignUp(from, size) + size
  BY <1>7 DEF End1
<1>13. ASSUME NEW o \in objects, o.untyped = at
       PROVE  End1(o) <= new.lo
  <2>1. End1(o) <= from
    BY <1>13, FreeFromFacts
  <2>2. End1(o) \in Nat
    BY ObjectFacts
  <2> QED
    BY <1>6, <1>7, <1>8, <2>1, <2>2
<1> QED
  BY <1>3, <1>7, <1>8, <1>9, <1>11, <1>12, <1>13 DEF new, room

LEMMA RetypeIInv ==
    ASSUME IInv, Retype
    PROVE  IInv'
<1> DEFINE want == Head(todo)
           new == NewObject(at, want)
<1> USE DEF Retype
<1>1. KernelAnswer(at, want) # "kernel"
  <2>1. ~SlotTaken(start)
    BY AllocatorAssumption DEF SlotTaken, IInv, AllocatorInv, EveryObjectNamed, TypeOK, Slot
  <2> QED
    BY <2>1 DEF KernelAnswer, Unsuitable
<1>2. CASE KernelAnswer(at, want) = "not_enough_memory"
  <2>1. NextUntyped
    BY <1>2
  <2>2. FreeBytes(at, mark, objects) < Size(want.bits)
    BY <1>2 DEF KernelAnswer
  <2>3. at \in Nat /\ at <= Len(Untypeds) /\ Len(Untypeds) \in Nat
    BY UntypedFacts DEF Untyped
  <2>4. SearchInv'
    BY <2>1, <2>2, <2>3
       DEF NextUntyped, IInv, SearchInv, Allocating, FreeBytes, FreeFrom, Children
  <2> QED
    BY <2>1, <2>3, <2>4
       DEF NextUntyped, IInv, AllocatorInv, TypeOK, ObjectsExclusive, EveryObjectNamed,
           OnlyMemoryRefuses, Types, OperationInv
<1>3. CASE KernelAnswer(at, want) = "ok"
  <2>1. /\ objects' = objects \cup {new}
        /\ mark' = [mark EXCEPT ![at] = new.lo + Size(new.bits)]
        /\ start' = start + 1
        /\ todo' = Tail(todo)
        /\ at' = 1
        /\ UNCHANGED <<phase, checkpoint, cursor, result, before>>
    BY <1>1, <1>3, Zenon
  <2>2. want \in Want /\ want.bits \in Nat /\ Tail(todo) \in Seq(Want)
    <3>1. want \in Want /\ Tail(todo) \in Seq(Want)
      BY DEF IInv, Types, Allocating
    <3> QED
      BY <3>1 DEF Want
  <2>3. FreeBytes(at, mark, objects) >= Size(want.bits)
    <3>1. ~(FreeBytes(at, mark, objects) < Size(want.bits))
      BY <1>1, <1>3 DEF KernelAnswer
    <3>2. FreeBytes(at, mark, objects) \in Nat /\ Size(want.bits) \in Nat
      <4>1. Untypeds[at].bits \in Nat
        BY UntypedFacts
      <4>2. Size(Untypeds[at].bits) \in Nat
        BY <4>1, SizePositive
      <4> QED
        BY <2>2, <4>2, FreeFromFacts, SizePositive
    <3> QED
      BY <3>1, <3>2
  <2>4. /\ new \in Object
        /\ new.untyped = at /\ new.slot = start
        /\ new.lo % Size(new.bits) = 0
        /\ End1(new) \in Nat
        /\ End1(new) <= Size(Untypeds[at].bits)
        /\ \A o \in objects : o.untyped = at => End1(o) <= new.lo
    BY <2>3, NewObjectFits
  <2> HIDE DEF new, want
  <2>5. mark' = [mark EXCEPT ![at] = End1(new)]
    BY <2>1 DEF End1
  <2>6. \A o \in objects : o.slot < start /\ o.slot # start
    BY AllocatorAssumption, ObjectFacts DEF IInv, AllocatorInv, EveryObjectNamed, TypeOK
  <2>7. start \in First..End /\ start' \in First..End /\ start \in Nat
    BY <2>1, AllocatorAssumption DEF IInv, AllocatorInv, TypeOK
  <2>8. TypeOK'
    <3>1. ASSUME NEW u \in Untyped
          PROVE  mark'[u] \in 0..Size(Untypeds[u].bits)
      BY <2>4, <2>5 DEF IInv, AllocatorInv, TypeOK, Types
    <3>2. \A o \in objects' : o.untyped \in Untyped /\ o.slot \in Slot
      BY <2>1, <2>4 DEF IInv, AllocatorInv, TypeOK, Object
    <3>3. at' \in 1..(Len(Untypeds) + 1)
      BY <2>1, UntypedFacts
    <3> QED
      BY <2>1, <2>7, <3>1, <3>2, <3>3 DEF IInv, AllocatorInv, TypeOK
  <2>9. ObjectsExclusive'
    <3>1. ASSUME NEW o \in objects'
          PROVE  /\ ~Untypeds[o.untyped].device
                 /\ o.lo % Size(o.bits) = 0
                 /\ End1(o) <= mark'[o.untyped]
                 /\ End1(o) <= Size(Untypeds[o.untyped].bits)
      <4>1. CASE o = new
        BY <2>4, <2>5, <4>1 DEF Unsuitable, IInv, Types
      <4>2. CASE o # new
        <5>1. o \in objects /\ o \in Object /\ End1(o) \in Nat /\ o.untyped \in Untyped
          BY <2>1, <4>2, ObjectFacts DEF Object
        <5>2. CASE o.untyped = at
          <6>1. End1(o) <= new.lo /\ new.lo <= End1(new)
            BY <2>4, <5>1, <5>2, SizePositive DEF End1, Object
          <6> QED
            BY <2>4, <2>5, <5>1, <5>2, <6>1
               DEF IInv, AllocatorInv, ObjectsExclusive, Types, Object
        <5>3. CASE o.untyped # at
          BY <2>5, <5>1, <5>3 DEF IInv, AllocatorInv, ObjectsExclusive, Types
        <5> QED
          BY <5>2, <5>3
      <4> QED
        BY <4>1, <4>2
    <3>2. ASSUME NEW o \in objects', NEW p \in objects', o # p, o.untyped = p.untyped
          PROVE  End1(o) <= p.lo \/ End1(p) <= o.lo
      BY <2>1, <2>4, <3>2 DEF IInv, AllocatorInv, ObjectsExclusive
    <3>3. \A o : End1(o)' = End1(o)
      BY DEF End1
    <3> QED
      BY <3>1, <3>2, <3>3 DEF ObjectsExclusive
  <2>10. EveryObjectNamed'
    BY <2>1, <2>4, <2>6, <2>7, AllocatorAssumption
       DEF IInv, AllocatorInv, EveryObjectNamed, TypeOK, Slot
  <2>11. Types'
    BY <2>1, <2>2, <2>4, <2>5 DEF IInv, Types
  <2>12. OperationInv'
    <3>1. phase = "build" /\ phase' = "build" /\ checkpoint \in Nat /\ checkpoint <= start
      BY <2>1, AllocatorAssumption DEF Allocating, IInv, OperationInv, AllocatorInv, TypeOK
    <3>2. {o \in objects' : o.slot < checkpoint} = {o \in objects : o.slot < checkpoint}
      BY <2>1, <2>4, <2>7, <3>1
    <3> QED
      BY <2>1, <2>7, <3>1, <3>2 DEF IInv, OperationInv
  <2>13. SearchInv'
    BY <2>1 DEF SearchInv
  <2> QED
    BY <2>1, <2>8, <2>9, <2>10, <2>11, <2>12, <2>13 DEF IInv, AllocatorInv, OnlyMemoryRefuses
<1> QED
  BY <1>1, <1>2, <1>3 DEF KernelAnswer

-----------------------------------------------------------------------------
(***************************************************************************)
(* The other steps                                                         *)
(***************************************************************************)

(* An operation begins with no untyped passed and nothing made. *)
LEMMA BeginIInv ==
    ASSUME IInv, NEW plan \in Plans, Begin(plan)
    PROVE  IInv'
<1> USE AllocatorAssumption, UntypedFacts DEF IInv, Begin
<1>1. TypeOK' /\ ObjectsExclusive' /\ EveryObjectNamed' /\ OnlyMemoryRefuses'
  BY DEF AllocatorInv, TypeOK, ObjectsExclusive, EveryObjectNamed, OnlyMemoryRefuses
<1>2. Types'
  BY DEF Types, Want
<1>3. OperationInv'
  <2>1. start \in Nat /\ \A o \in objects : o.slot < start
    BY DEF AllocatorInv, TypeOK, EveryObjectNamed
  <2> QED
    BY <2>1 DEF OperationInv
<1>4. SearchInv'
  BY DEF SearchInv
<1> QED
  BY <1>1, <1>2, <1>3, <1>4 DEF AllocatorInv

(* A failure changes nothing but sets out to undo what was made. *)
LEMMA FailIInv ==
    ASSUME IInv, phase = "build", NEW error \in {"no_slots", "no_memory", "refused"}, Fail(error)
    PROVE  IInv'
<1> USE AllocatorAssumption, UntypedFacts DEF IInv, Fail
<1>1. TypeOK' /\ ObjectsExclusive' /\ EveryObjectNamed' /\ OnlyMemoryRefuses'
  BY DEF AllocatorInv, TypeOK, ObjectsExclusive, EveryObjectNamed, OnlyMemoryRefuses
<1>2. Types'
  BY DEF Types
<1>3. OperationInv'
  BY DEF OperationInv, AllocatorInv, TypeOK, EveryObjectNamed
<1>4. SearchInv'
  BY DEF SearchInv, Allocating
<1> QED
  BY <1>1, <1>2, <1>3, <1>4 DEF AllocatorInv

(* The descriptor of an untyped is right about what it cannot hold. *)
LEMMA SkipIInv ==
    ASSUME IInv, SkipUntyped
    PROVE  IInv'
<1> USE UntypedFacts DEF SkipUntyped, NextUntyped
<1>1. at \in Nat /\ at <= Len(Untypeds)
  BY DEF Untyped
<1>2. ~Untypeds[at].device => FreeBytes(at, mark, objects) < Size(Head(todo).bits)
  <2> SUFFICES ASSUME ~Untypeds[at].device
               PROVE  FreeBytes(at, mark, objects) < Size(Head(todo).bits)
    OBVIOUS
  <2>1. Head(todo) \in Want
    BY DEF IInv, Types, Allocating
  <2>2. Head(todo).bits \in Nat /\ Untypeds[at].bits < Head(todo).bits
    BY <2>1 DEF Want, Unsuitable
  <2>3. Size(Untypeds[at].bits) < Size(Head(todo).bits)
    BY <2>2, SizeMonotonic
  <2>4. Size(Untypeds[at].bits) \in Nat /\ Size(Head(todo).bits) \in Nat
    BY <2>2, SizePositive
  <2> QED
    BY <2>3, <2>4, FreeFromFacts
<1>3. SearchInv'
  BY <1>1, <1>2 DEF IInv, SearchInv, Allocating, FreeBytes, FreeFrom, Children
<1> QED
  BY <1>1, <1>3
     DEF IInv, AllocatorInv, TypeOK, ObjectsExclusive, EveryObjectNamed, OnlyMemoryRefuses,
         Types, OperationInv

(* Every return leaves the objects; a rewind meets only slots that are free. *)
LEMMA ReturnIInv ==
    ASSUME IInv, NEW value \in {"ok", "no_slots", "no_memory", "refused", "rollback_failed"},
           Return(value), start' \in First..End, \A o \in objects : o.slot < start',
           UNCHANGED <<mark, objects>>
    PROVE  IInv'
<1> USE AllocatorAssumption, UntypedFacts DEF IInv, Return
<1>1. TypeOK' /\ ObjectsExclusive' /\ EveryObjectNamed' /\ OnlyMemoryRefuses'
  BY DEF AllocatorInv, TypeOK, ObjectsExclusive, EveryObjectNamed, OnlyMemoryRefuses
<1>2. Types'
  <2>1. <<>> \in Seq(Want)
    OBVIOUS
  <2> QED
    BY <2>1 DEF Types
<1>3. OperationInv' /\ SearchInv'
  BY DEF OperationInv, SearchInv, Allocating
<1> QED
  BY <1>1, <1>2, <1>3 DEF AllocatorInv

LEMMA RollbackDeleteIInv ==
    ASSUME IInv, RollbackDelete
    PROVE  IInv'
<1> USE AllocatorAssumption, UntypedFacts DEF IInv, RollbackDelete
<1>1. checkpoint \in Nat /\ cursor \in Nat /\ start \in Nat
  BY DEF AllocatorInv, TypeOK
<1>2. TypeOK' /\ ObjectsExclusive' /\ EveryObjectNamed' /\ OnlyMemoryRefuses'
  BY <1>1 DEF AllocatorInv, TypeOK, ObjectsExclusive, EveryObjectNamed, OnlyMemoryRefuses, OperationInv
<1>3. Types'
  BY DEF Types
<1>4. OperationInv'
  <2>1. ASSUME NEW o \in objects
        PROVE  o.slot \in Nat /\ o.slot < cursor
    BY ObjectFacts DEF OperationInv, Object, Slot
  <2>2. \A o \in objects' : o \in objects /\ o.slot < cursor'
    BY <1>1, <2>1
  <2>3. {o \in objects' : o.slot < checkpoint} = {o \in objects : o.slot < checkpoint}
    BY <1>1, <2>1
  <2>4. cursor' \in checkpoint'..start'
    BY <1>1 DEF OperationInv
  <2> QED
    BY <2>2, <2>3, <2>4 DEF OperationInv
<1>5. SearchInv'
  BY DEF SearchInv, Allocating
<1> QED
  BY <1>2, <1>3, <1>4, <1>5 DEF AllocatorInv

(* What is returned after a rollback is what failed. *)
LEMMA Inductive ==
    ASSUME IInv, [Next]_vars
    PROVE  IInv'
<1>1. ASSUME NEW plan \in Plans, Begin(plan)
      PROVE  IInv'
  BY <1>1, BeginIInv
<1>2. CASE NoFreeSlots
  BY <1>2, FailIInv DEF NoFreeSlots, Allocating
<1>3. CASE SkipUntyped
  BY <1>3, SkipIInv
<1>4. CASE Retype
  BY <1>4, RetypeIInv
<1>5. CASE NoKernelMemory
  BY <1>5, FailIInv DEF NoKernelMemory, Allocating
<1>6. CASE StepFails
  BY <1>6, FailIInv DEF StepFails
<1>7. CASE Commit
  BY <1>7, ReturnIInv DEF Commit, IInv, AllocatorInv, TypeOK, EveryObjectNamed
<1>8. CASE RollbackDelete
  BY <1>8, RollbackDeleteIInv
<1>9. CASE RollbackDeleteFails
  BY <1>9, ReturnIInv DEF RollbackDeleteFails, IInv, AllocatorInv, TypeOK, EveryObjectNamed
<1>10. CASE RollbackRewind
  <2>1. result \in {"ok", "no_slots", "no_memory", "refused", "rollback_failed"}
    BY DEF IInv, AllocatorInv, TypeOK, OnlyMemoryRefuses
  <2>2. start' \in First..End /\ \A o \in objects : o.slot < start'
    BY <1>10 DEF RollbackRewind, IInv, AllocatorInv, TypeOK, OperationInv
  <2> QED
    BY <1>10, <2>1, <2>2, ReturnIInv DEF RollbackRewind
<1>11. CASE UNCHANGED vars
  BY <1>11
     DEF vars, IInv, AllocatorInv, TypeOK, ObjectsExclusive, EveryObjectNamed, OnlyMemoryRefuses,
         Types, OperationInv, SearchInv, Allocating, FreeBytes, FreeFrom, Children
<1> QED
  BY <1>1, <1>2, <1>3, <1>4, <1>5, <1>6, <1>7, <1>8, <1>9, <1>10, <1>11 DEF Next, Step

LEMMA Invariant == Spec => []IInv
<1>1. IInv /\ [Next]_vars => IInv'
  BY Inductive
<1> QED
  BY <1>1, InitIInv, PTL DEF Spec

-----------------------------------------------------------------------------
(***************************************************************************)
(* Theorems                                                                *)
(***************************************************************************)

(* First-fit retyping, with any failures and rollbacks in between, never    *)
(* lets two objects share memory, leaves no memory in use that no slot      *)
(* names, and retries a slot the kernel always accepts.                     *)
THEOREM AllocatorSafe == Spec => []AllocatorInv
<1>1. IInv => AllocatorInv
  BY DEF IInv
<1> QED
  BY <1>1, Invariant, PTL

(* When allocate_blueprint answers NoKernelMemory, no untyped in RAM could  *)
(* have held the object.                                                    *)
THEOREM NoMemoryTrue == Spec => NoMemoryIsTrue
<1> DEFINE A == result # "no_memory" /\ result' = "no_memory" =>
                  \A u \in Untyped : ~Untypeds[u].device =>
                      FreeBytes(u, mark, objects) < Size(Head(todo).bits)
<1>1. ASSUME IInv, Next, result # "no_memory", result' = "no_memory"
      PROVE  NoKernelMemory
  <2>1. \A plan \in Plans : ~Begin(plan)
    BY <1>1 DEF Begin
  <2>2. ~NoFreeSlots /\ ~SkipUntyped /\ ~StepFails /\ ~Commit
    BY <1>1 DEF NoFreeSlots, SkipUntyped, NextUntyped, StepFails, Commit, Return, Fail
  <2>3. ~RollbackDelete /\ ~RollbackDeleteFails /\ ~RollbackRewind
    BY <1>1 DEF RollbackDelete, RollbackDeleteFails, RollbackRewind, Return
  <2>4. ~Retype
    BY <1>1 DEF Retype, Fail, NextUntyped
  <2> QED
    BY <1>1, <2>1, <2>2, <2>3, <2>4 DEF Next, Step
<1>2. ASSUME IInv, NoKernelMemory, NEW u \in Untyped, ~Untypeds[u].device
      PROVE  FreeBytes(u, mark, objects) < Size(Head(todo).bits)
  <2>1. u \in 1..(at - 1)
    BY <1>2, UntypedFacts DEF NoKernelMemory, Untyped, IInv, AllocatorInv, TypeOK
  <2> QED
    BY <1>2, <2>1 DEF NoKernelMemory, IInv, SearchInv
<1>3. IInv /\ [Next]_vars => [A]_vars
  BY <1>1, <1>2
<1> QED
  BY <1>3, Invariant, PTL DEF Spec, NoMemoryIsTrue

(* A construction that fails and is rolled back leaves exactly the objects  *)
(* that were there, and no untyped it had to itself with less room.         *)
THEOREM MemoryReturned == Spec => FailureReturnsMemory
<1> DEFINE A == phase = "rollback" /\ phase' = "idle" /\ result' # "rollback_failed" =>
                  /\ objects' = before.objects
                  /\ \A u \in Untyped :
                        \/ Children(u, objects') # {}
                        \/ FreeBytes(u, mark', objects') >=
                              FreeBytes(u, before.mark, before.objects)
<1>1. ASSUME IInv, Next, phase = "rollback", phase' = "idle", result' # "rollback_failed"
      PROVE  RollbackRewind
  <2>1. \A plan \in Plans : ~Begin(plan)
    BY <1>1 DEF Begin
  <2>2. ~NoFreeSlots /\ ~SkipUntyped /\ ~StepFails /\ ~Commit /\ ~Retype /\ ~NoKernelMemory
    BY <1>1 DEF NoFreeSlots, SkipUntyped, StepFails, Commit, Retype, NoKernelMemory, Allocating
  <2>3. ~RollbackDelete /\ ~RollbackDeleteFails
    BY <1>1 DEF RollbackDelete, RollbackDeleteFails, Return
  <2> QED
    BY <1>1, <2>1, <2>2, <2>3 DEF Next, Step
<1>2. ASSUME IInv, RollbackRewind
      PROVE  objects' = before.objects
  <2>1. \A o \in objects : o.slot < checkpoint
    BY <1>2 DEF RollbackRewind, IInv, OperationInv
  <2>2. before.objects = {o \in objects : o.slot < checkpoint}
    BY <1>2 DEF RollbackRewind, IInv, OperationInv
  <2> QED
    BY <1>2, <2>1, <2>2 DEF RollbackRewind
<1>3. ASSUME IInv, NEW u \in Untyped, Children(u, objects') = {}
      PROVE  FreeBytes(u, mark', objects') >= FreeBytes(u, before.mark, before.objects)
  <2>1. Size(Untypeds[u].bits) \in Nat
    BY UntypedFacts, SizePositive
  <2>2. FreeFrom(u, before.mark, before.objects) \in Nat
    BY <1>3 DEF FreeFrom, IInv, Types
  <2>3. FreeFrom(u, mark', objects') = 0
    BY <1>3 DEF FreeFrom
  <2> QED
    BY <2>1, <2>2, <2>3 DEF FreeBytes
<1>4. IInv /\ [Next]_vars => [A]_vars
  <2> SUFFICES ASSUME IInv, Next PROVE A
    BY DEF vars
  <2> QED
    BY <1>1, <1>2, <1>3
<1> QED
  BY <1>4, Invariant, PTL DEF Spec, FailureReturnsMemory

=============================================================================
