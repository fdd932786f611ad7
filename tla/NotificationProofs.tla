------------------------- MODULE NotificationProofs -------------------------
(***************************************************************************)
(* Proofs about Notification, for every number of tasks and word width.    *)
(***************************************************************************)
EXTENDS Notification, TLAPS

(* Every badge issued so far is below the next one, and none is zero. *)
SequenceInv ==
    /\ next # 0
    /\ \A i \in 1..Len(issued) : issued[i] # 0 /\ issued[i] < next
    /\ \A i, j \in 1..Len(issued) : issued[i] = issued[j] => i = j

(* The kernel's capability carries the badge the root meant, and a badge in *)
(* hand is not zero.                                                        *)
PathInv ==
    /\ path = cap
    /\ hand # 0

(* Whoever has signalled was delegated a capability. *)
SignallerInv == \A t \in merged \cup credited \cup lost : path[t] \in Word

(* The word and the observation are the badges of those they stand for. *)
WordInv ==
    /\ \A b \in Bit : b \in word <=> \E t \in merged : b \in Bits[path[t]]
    /\ \A b \in Bit : b \in observed <=> \E t \in credited : b \in Bits[path[t]]
    /\ ~active => merged = {}
    /\ \A t \in lost : path[t] = 0

IInv == TypeOK /\ SequenceInv /\ PathInv /\ SignallerInv /\ WordInv

(* The inductive invariant holds when the allocator has been made. *)
LEMMA InitIInv == Init => IInv
<1> USE NotificationAssumption
<1> QED BY DEF Init, IInv, TypeOK, SequenceInv, PathInv, SignallerInv, WordInv, Word

(* Steps of the root that only change badges and delegations. *)
LEMMA AllocateIInv == IInv /\ AllocateBadge => IInv'
<1> SUFFICES ASSUME IInv, AllocateBadge PROVE IInv'
    OBVIOUS
<1> USE NotificationAssumption DEF IInv, AllocateBadge, kernelVars
<1>1. next \in Word /\ next + 1 \in Word /\ next # 0 /\ issued \in Seq(Word)
    BY DEF TypeOK, SequenceInv, Word
<1>2. issued' \in Seq(Word) /\ Len(issued') = Len(issued) + 1
      /\ \A i \in 1..Len(issued) : issued'[i] = issued[i]
      /\ issued'[Len(issued) + 1] = next
    BY <1>1
<1>3. TypeOK'
    BY <1>1, <1>2 DEF TypeOK
<1>4. SequenceInv'
    <2>0. Len(issued) \in Nat /\ \A i \in 1..Len(issued) : issued[i] \in Nat
        BY <1>1 DEF Word
    <2>1. ASSUME NEW i \in 1..Len(issued')
          PROVE issued'[i] # 0 /\ issued'[i] < next'
        <3>1. CASE i \in 1..Len(issued)
            BY <3>1, <1>1, <1>2, <2>0 DEF SequenceInv, Word
        <3>2. CASE i = Len(issued) + 1
            BY <3>2, <1>1, <1>2 DEF SequenceInv, Word
        <3> QED BY <3>1, <3>2, <1>2, <2>0
    <2>2. ASSUME NEW i \in 1..Len(issued'), NEW j \in 1..Len(issued'),
                 issued'[i] = issued'[j]
          PROVE i = j
        <3>1. CASE i \in 1..Len(issued) /\ j \in 1..Len(issued)
            BY <3>1, <2>2, <1>2 DEF SequenceInv
        <3>2. CASE i = Len(issued) + 1 /\ j \in 1..Len(issued)
            BY <3>2, <2>2, <1>1, <1>2, <2>0 DEF SequenceInv, Word
        <3>3. CASE j = Len(issued) + 1 /\ i \in 1..Len(issued)
            BY <3>3, <2>2, <1>1, <1>2, <2>0 DEF SequenceInv, Word
        <3> QED BY <3>1, <3>2, <3>3, <1>2, <2>0
    <2>3. next' # 0
        BY <1>1 DEF Word
    <2> QED BY <2>1, <2>2, <2>3 DEF SequenceInv
<1>5. PathInv' /\ SignallerInv' /\ WordInv'
    BY <1>1 DEF PathInv, SignallerInv, WordInv
<1> QED BY <1>3, <1>4, <1>5

(* A badge the root makes itself is not zero. *)
LEMMA MakeIInv == ASSUME NEW raw \in RawBadges PROVE IInv /\ MakeBadge(raw) => IInv'
<1> USE NotificationAssumption DEF IInv, MakeBadge, kernelVars
<1> QED BY DEF TypeOK, SequenceInv, PathInv, SignallerInv, WordInv

(* A delegation gives a task that never signalled its capability. *)
LEMMA DelegateIInv ==
    ASSUME NEW t \in Task, IInv, DelegateUnbadged(t) \/ DelegateBadged(t)
    PROVE  IInv'
<1> USE NotificationAssumption DEF IInv, kernelVars
<1>1. PICK b \in Word : Delegate(t, b, b) /\ hand' \in {hand, NoCap}
    BY DEF DelegateUnbadged, DelegateBadged, TypeOK, PathInv, Word
<1> USE <1>1 DEF Delegate
<1>2. TypeOK' /\ SequenceInv'
    BY DEF TypeOK, SequenceInv
<1>3. PathInv'
    BY DEF PathInv, TypeOK, Word
<1>4. t \notin merged \cup credited \cup lost
    BY DEF PathInv, SignallerInv, TypeOK
<1>5. \A u \in merged \cup credited \cup lost : path'[u] = path[u]
    BY <1>4 DEF TypeOK
<1>6. SignallerInv'
    BY <1>5 DEF SignallerInv
<1>7. WordInv'
    <2>1. \A c \in Bit : (\E u \in merged : c \in Bits[path[u]])
                           <=> (\E u \in merged' : c \in Bits[path'[u]])
        BY <1>5
    <2>2. \A c \in Bit : (\E u \in credited : c \in Bits[path[u]])
                           <=> (\E u \in credited' : c \in Bits[path'[u]])
        BY <1>5
    <2> QED BY <1>5, <2>1, <2>2 DEF WordInv
<1> QED BY <1>2, <1>3, <1>6, <1>7

(* A signal is delivered, or joins the word with its bits. *)
LEMMA SignalIInv ==
    ASSUME IInv, Signal \/ \E t \in Task : TaskSignal(t)
    PROVE  IInv'
<1> USE NotificationAssumption DEF IInv, kernelVars, badgeVars
<1>1. PICK b \in Word, from \in SUBSET Task :
         /\ KernelSignal(b, from)
         /\ UNCHANGED <<badgeVars, lost>>
         /\ \A u \in from : path[u] = b
         /\ from = {} => b = 0
    <2>1. CASE Signal
        BY <2>1 DEF Signal, Word
    <2>2. CASE \E t \in Task : TaskSignal(t)
        <3>1. PICK t \in Task : TaskSignal(t)
            BY <2>2
        <3>2. cap[t] \in Word /\ path[t] = cap[t] /\ {t} \in SUBSET Task
            BY <3>1 DEF TaskSignal, PathInv, TypeOK
        <3> QED BY <3>1, <3>2 DEF TaskSignal
    <2> QED BY <2>1, <2>2
<1> USE <1>1 DEF KernelSignal
<1>2. TypeOK'
    <2>1. Bits[b] \in SUBSET Bit
        OBVIOUS
    <2>2. CASE waiting
        BY <2>1, <2>2 DEF TypeOK
    <2>3. CASE ~waiting
        BY <2>1, <2>3 DEF TypeOK
    <2> QED BY <2>2, <2>3
<1>3. SequenceInv' /\ PathInv'
    BY DEF SequenceInv, PathInv
<1>4. SignallerInv'
    BY DEF SignallerInv
<1>5. \A c \in Bit : c \in Bits[b] <=> \E u \in from : c \in Bits[path[u]]
    BY DEF TypeOK
<1>6. WordInv'
    <2>1. CASE waiting
        BY <2>1, <1>5 DEF WordInv
    <2>2. CASE ~waiting
        <3>1. \A c \in Bit : c \in word' <=> \E u \in merged' : c \in Bits[path'[u]]
            BY <2>2, <1>5 DEF WordInv
        <3> QED BY <2>2, <3>1 DEF WordInv
    <2> QED BY <2>1, <2>2
<1> QED BY <1>2, <1>3, <1>4, <1>6

(* A wait or a poll takes the word with those it stands for. *)
LEMMA ObserveIInv == ASSUME IInv, Observe PROVE IInv'
<1> USE NotificationAssumption DEF IInv, Observe, Take, kernelVars, badgeVars
<1>1. TypeOK'
    BY DEF TypeOK, Wait, Poll
<1>2. SequenceInv' /\ PathInv'
    BY DEF SequenceInv, PathInv, Wait, Poll
<1>3. SignallerInv'
    BY DEF SignallerInv, Wait, Poll
<1>4. WordInv'
    <2>1. CASE Wait
        BY <2>1 DEF Wait, WordInv
    <2>2. CASE Poll
        <3>1. ASSUME NEW t \in lost' PROVE path'[t] = 0
            <4>1. CASE t \in lost
                BY <2>2, <4>1 DEF Poll, WordInv
            <4>2. CASE t \in merged /\ word = {}
                <5>1. path[t] \in Word
                    BY <4>2 DEF SignallerInv
                <5>2. \A c \in Bit : c \notin Bits[path[t]]
                    BY <4>2 DEF WordInv
                <5>3. Bits[path[t]] = {}
                    BY <5>1, <5>2
                <5> QED BY <2>2, <5>1, <5>3 DEF Poll
            <4> QED BY <2>2, <3>1, <4>1, <4>2 DEF Poll
        <3>2. /\ \A c \in Bit : c \in word' <=> \E u \in merged' : c \in Bits[path'[u]]
              /\ \A c \in Bit : c \in observed' <=> \E u \in credited' : c \in Bits[path'[u]]
              /\ ~active' => merged' = {}
            BY <2>2 DEF Poll, WordInv
        <3> QED BY <3>1, <3>2 DEF WordInv
    <2> QED BY <2>1, <2>2
<1> QED BY <1>1, <1>2, <1>3, <1>4

(* The invariant is inductive, so it holds in every reachable state. *)
THEOREM Inductive == Spec => []IInv
<1>1. Init => IInv
    BY InitIInv
<1>2. IInv /\ [Next]_vars => IInv'
    <2> SUFFICES ASSUME IInv, [Next]_vars PROVE IInv'
        OBVIOUS
    <2>1. CASE AllocateBadge
        BY <2>1, AllocateIInv
    <2>2. CASE \E raw \in RawBadges : MakeBadge(raw)
        BY <2>2, MakeIInv
    <2>3. CASE \E t \in Task : DelegateUnbadged(t) \/ DelegateBadged(t)
        BY <2>3, DelegateIInv
    <2>4. CASE Signal \/ \E t \in Task : TaskSignal(t)
        BY <2>4, SignalIInv
    <2>5. CASE Observe
        BY <2>5, ObserveIInv
    <2>6. CASE UNCHANGED vars
        BY <2>6 DEF vars, badgeVars, kernelVars, IInv, TypeOK, SequenceInv, PathInv,
                    SignallerInv, WordInv
    <2> QED BY <2>1, <2>2, <2>3, <2>4, <2>5, <2>6 DEF Next
<1> QED BY <1>1, <1>2, PTL DEF Spec

(* Type correctness of notifications and badges. *)
THEOREM NotificationTypes == Spec => []TypeOK
BY Inductive, PTL DEF IInv

(* BadgeAllocator never returns zero and never the same badge twice,        *)
(* whatever it starts from and however wide a word is.                      *)
THEOREM BadgesSafe == Spec => []BadgesUnambiguous
<1>1. IInv => BadgesUnambiguous
    BY DEF IInv, SequenceInv, BadgesUnambiguous
<1> QED BY <1>1, Inductive, PTL

(* wait and poll report exactly the badges of the paths that signalled. *)
THEOREM ObservationsExact == Spec => []ObservationExact
<1>1. IInv => ObservationExact
    <2> SUFFICES ASSUME IInv PROVE observed = UNION {Bits[path[t]] : t \in credited}
        BY DEF ObservationExact
    <2>1. \A t \in credited : Bits[path[t]] \subseteq Bit
        BY NotificationAssumption DEF IInv, SignallerInv
    <2>2. observed \subseteq Bit
        BY DEF IInv, TypeOK
    <2>3. \A b \in Bit : b \in observed <=> b \in UNION {Bits[path[t]] : t \in credited}
        BY DEF IInv, WordInv
    <2> QED BY <2>1, <2>2, <2>3
<1> QED BY <1>1, Inductive, PTL

(* A poll never swallows a signal of a badged path. *)
THEOREM BadgedNeverLost == Spec => []OnlyUnbadgedLost
<1>1. IInv => OnlyUnbadgedLost
    BY DEF IInv, WordInv, OnlyUnbadgedLost
<1> QED BY <1>1, Inductive, PTL

=============================================================================
