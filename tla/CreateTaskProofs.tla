-------------------------- MODULE CreateTaskProofs --------------------------
(***************************************************************************)
(* Proofs about CreateTask, with TaskLayout and CSpace, for any word size, *)
(* table levels, CNode sizes and configurations.                           *)
(***************************************************************************)
EXTENDS CreateTask, FiniteSetTheorems, SequenceTheorems, TLAPS

Passed == {"tables", "ready", "vspace_failed"}

(* What validate of cspace.rs establishes. *)
SpaceValid ==
    /\ space.size # 0 /\ space.size < WordSize
    /\ \A i \in 1..Len(All) : Admissible(i)

(* Capability i of All has been installed in slot s. *)
Placed(s) == \E i \in 1..next : All[i].destination = s

(* CNode and tracker hold the first next capabilities and nothing else. *)
Populated ==
    /\ SpaceValid /\ capacity <= MaxSlots
    /\ DOMAIN cnode = 0..(capacity - 1)
    /\ \A s \in 0..(capacity - 1) : cnode[s] = NoCap \/ Placed(s)
    /\ \A i \in 1..next : /\ cnode[All[i].destination] = Derived(All[i])
                          /\ RootCap[All[i].source] # NoCap
    /\ states \in [0..(MaxSlots - 1) -> {"free", "occupied"}]
    /\ \A s \in 0..(MaxSlots - 1) : states[s] = "free" <=> ~Placed(s)

SpaceInv ==
    /\ next \in 0..Len(All)
    /\ step \in {"validate", "allocate", "tracker", "install", "returned"}
    /\ result \in Result
    /\ step = "returned" <=> result # "none"
    /\ step \in {"validate", "allocate"} => cnode = <<>> /\ states = <<>> /\ next = 0
    /\ step = "allocate" => SpaceValid
    /\ step = "tracker" => /\ SpaceValid /\ states = <<>> /\ next = 0
                           /\ cnode = [s \in 0..(capacity - 1) |-> NoCap]
    /\ step = "install" => Populated
    /\ result = "Ok" => Populated /\ next = Len(All)
    /\ result = "NoKernelMemory" => cnode = <<>> /\ states = <<>>
    /\ result = "InvalidTaskConfiguration" =>
          /\ ~SpaceValid \/ capacity > MaxSlots
          /\ states = <<>>
          /\ cnode = <<>> \/ cnode = [s \in 0..(capacity - 1) |-> NoCap]
    /\ result = "CSpaceCreationFailed" =>
          /\ Populated /\ next < Len(All)
          /\ LET c == All[next + 1] IN
             RootCap[c.source] = NoCap \/ RootCap[c.source].badge # 0

(* The two loops have been at page i of level l, and have the table there. *)
Before(l, i) == l < level \/ (l = level /\ i < index)
TableOf(l, i) == <<l, TableBase(l, AllPages(config)[i])>>

LayoutInv ==
    /\ outcome \in Outcome
    /\ outcome = "vspace_failed" => AllPages(config)[index] >= UserTop
    /\ outcome = "none" => step = "validate"
    /\ outcome # "none" => (outcome \in Passed <=> WellFormedLayout(config))
    /\ step # "validate" => outcome \in Passed
    /\ level \in 1..(Len(SpanBits) + 1)
    /\ index \in 1..Len(AllPages(config))
    /\ level > Len(SpanBits) => index = 1
    /\ \A l \in 1..Len(SpanBits), i \in 1..Len(AllPages(config)) :
          Before(l, i) => TableOf(l, i) \in tables
    /\ \A t \in tables :
          \E l \in 1..Len(SpanBits), i \in 1..Len(AllPages(config)) :
              Before(l, i) /\ t = TableOf(l, i)
    /\ outcome = "ready" => level = Len(SpanBits) + 1
    /\ tables # {} => result = "Ok" /\ outcome \in Passed

ConfigInv == [layout |-> config, space |-> space] \in TaskConfig

IInv == ConfigInv /\ SpaceInv /\ LayoutInv

-----------------------------------------------------------------------------
(***************************************************************************)
(* Arithmetic.  2^n is the number of subsets of an interval of n numbers.  *)
(***************************************************************************)
LEMMA PowerPositive ==
    ASSUME NEW n \in Nat
    PROVE  2^n \in Nat \ {0}
<1>1. IsFiniteSet(1..n) /\ Cardinality(1..n) = n
  <2>1. 1 \in Int /\ n \in Int
    OBVIOUS
  <2>2. IsFiniteSet(1..n) /\ Cardinality(1..n) = IF 1 > n THEN 0 ELSE n - 1 + 1
    BY <2>1, FS_Interval, Zenon
  <2> QED
    BY <2>2
<1>2. IsFiniteSet(SUBSET (1..n)) /\ Cardinality(SUBSET (1..n)) = 2^n
  BY <1>1, FS_SUBSET, Zenon
<1>3. SUBSET (1..n) # {}
  OBVIOUS
<1>4. 2^n \in Nat /\ 2^n # 0
  BY <1>2, <1>3, FS_CardinalityType, FS_EmptySet, Zenon
<1> QED
  BY <1>4

LEMMA DivFacts ==
    ASSUME NEW n \in Nat, NEW p \in Nat \ {0}
    PROVE  /\ n \div p \in 0..n
           /\ n % p = 0 => n = (n \div p) * p
           /\ n < p => n \div p = 0 /\ n % p = n
<1>1. n \div p \in 0..n
  OBVIOUS
<1>2. n % p = n - p * (n \div p)
  OBVIOUS
<1>3. n < p => n \div p = 0 /\ n % p = n
  OBVIOUS
<1>4. p * (n \div p) = (n \div p) * p
  BY <1>1
<1> QED
  BY <1>1, <1>2, <1>3, <1>4

-----------------------------------------------------------------------------
(***************************************************************************)
(* CSpace                                                                  *)
(***************************************************************************)
LEMMA CapacityFacts ==
    ASSUME space \in Space
    PROVE  capacity \in Nat \ {0}
BY CSpaceAssumption, PowerPositive DEF capacity

LEMMA LastOfConcat ==
    ASSUME NEW S, NEW g \in Seq(S), NEW r \in Seq(S), Len(r) <= 1, r # <<>>
    PROVE  Len(r) >= 1 /\ Len(g \o r) >= 1 /\ (g \o r)[Len(g \o r)] = r[1]
<1>1. PICK n \in Nat \ {0} : n = Len(r)
  BY EmptySeq, Zenon
<1>2. n = 1
  BY <1>1
<1>3. PICK m \in Nat : m = Len(g)
  BY LenProperties, Zenon
<1>4. Len(g \o r) = m + n
  BY <1>1, <1>3, ConcatProperties, Zenon
<1>5. \A i \in 1..(m + n) : (g \o r)[i] = IF i <= m THEN g[i] ELSE r[i - m]
  BY <1>1, <1>3, ConcatProperties, Zenon
<1>6. (g \o r)[m + 1] = r[1]
  <2>1. PICK s : s = g \o r
    OBVIOUS
  <2>2. \A i \in 1..(m + n) : s[i] = IF i <= m THEN g[i] ELSE r[i - m]
    BY <1>5, <2>1, Zenon
  <2>3. m + 1 \in 1..(m + n) /\ ~(m + 1 <= m) /\ m + 1 - m = 1
    BY <1>2
  <2>4. s[m + 1] = r[1]
    BY <2>2, <2>3
  <2> QED
    BY <2>1, <2>4, Zenon
<1>7. m + n = m + 1 /\ n >= 1 /\ m + n >= 1
  BY <1>2
<1> QED
  BY <1>1, <1>4, <1>6, <1>7, Zenon

(* The delegations, with the route, if any, as the last one. *)
LEMMA AllFacts ==
    ASSUME space \in Space
    PROVE  /\ All \in Seq(DelegatedCapability) /\ Len(All) \in Nat /\ DOMAIN All = 1..Len(All)
           /\ \A i \in 1..Len(All) :
                 /\ All[i].destination \in Nat
                 /\ All[i].source \in DOMAIN RootCap \cup {Null}
                 /\ All[i].badge \in Nat
           /\ space.route # <<>> =>
                 Len(All) >= 1 /\ All[Len(All)] = space.route[1] /\ FaultRoute(space.route[1])
<1>1. PICK g \in Seq(DelegatedCapability), r \in Seq(DelegatedCapability) :
        g = space.grants /\ r = space.route
  BY CSpaceAssumption
<1>2. Len(r) <= 1
  BY <1>1, CSpaceAssumption, Zenon
<1>8. \A i \in 1..Len(r) : FaultRoute(r[i])
  BY <1>1, CSpaceAssumption, Zenon
<1>3. All = g \o r
  BY <1>1 DEF All
<1>4. All \in Seq(DelegatedCapability) /\ Len(All) = Len(g) + Len(r)
  BY <1>1, <1>3, ConcatProperties
<1>5. \A i \in 1..Len(All) : All[i] \in DelegatedCapability
  BY <1>4, ElementOfSeq, Zenon
<1>6. ASSUME r # <<>>
      PROVE  Len(All) >= 1 /\ All[Len(All)] = r[1] /\ FaultRoute(r[1])
  <2>1. Len(r) >= 1 /\ Len(All) >= 1 /\ All[Len(All)] = r[1]
    BY <1>2, <1>3, <1>6, LastOfConcat, Zenon
  <2>2. 1 \in 1..Len(r)
    BY <2>1
  <2> QED
    BY <1>8, <2>1, <2>2, Zenon
<1>7. Len(All) \in Nat /\ DOMAIN All = 1..Len(All)
  BY <1>4, LenProperties, Zenon
<1> QED
  BY <1>1, <1>4, <1>5, <1>6, <1>7 DEF DelegatedCapability

(* validate compares each capability with the ones before it only; that is  *)
(* enough for all destinations to differ.                                   *)
LEMMA WellFormedIs ==
    ASSUME space \in Space
    PROVE  WellFormedSpace <=> SpaceValid /\ capacity <= MaxSlots
<1> USE AllFacts, CapacityFacts
<1>2. space.size \in Nat /\ WordSize \in Nat
  <2>1. space \in [size : Nat, grants : Seq(DelegatedCapability), route : Seq(DelegatedCapability)]
    BY CSpaceAssumption, Zenon
  <2>2. WordSize \in Nat
    BY CSpaceAssumption, Zenon
  <2> QED
    BY <2>1, <2>2
<1>3. ASSUME WellFormedSpace PROVE SpaceValid /\ capacity <= MaxSlots
  <2>1. ASSUME NEW i \in 1..Len(All) PROVE Admissible(i)
    BY <1>3, <2>1 DEF WellFormedSpace, Admissible
  <2>2. space.size # 0 /\ space.size < WordSize /\ capacity <= MaxSlots
    BY <1>2, <1>3 DEF WellFormedSpace
  <2> QED
    BY <2>1, <2>2 DEF SpaceValid
<1>4. ASSUME SpaceValid, capacity <= MaxSlots PROVE WellFormedSpace
  <2>1. \A i, j \in 1..Len(All) : i < j => All[i].destination # All[j].destination
    BY <1>4 DEF SpaceValid, Admissible
  <2>2. \A i, j \in 1..Len(All) : All[i].destination = All[j].destination => i = j
    BY <2>1
  <2>3. \A i \in 1..Len(All) : All[i].destination \in 1..(capacity - 1) /\ All[i].source # Null
    BY <1>4 DEF SpaceValid, Admissible
  <2> QED
    BY <1>2, <1>4, <2>2, <2>3 DEF WellFormedSpace, SpaceValid
<1> QED
  BY <1>3, <1>4

(* Everything computed from the configuration stays what it is. *)
LEMMA SpaceConstant ==
    ASSUME space' = space
    PROVE  All' = All /\ capacity' = capacity /\ (SpaceValid' <=> SpaceValid)
BY DEF All, capacity, SpaceValid, Admissible

LEMMA PopulatedConstant ==
    ASSUME UNCHANGED <<space, next, cnode, states>>
    PROVE  Populated' <=> Populated
<1>1. All' = All /\ capacity' = capacity /\ (SpaceValid' <=> SpaceValid)
  BY SpaceConstant
<1>2. \A s : Placed(s)' <=> Placed(s)
  BY <1>1 DEF Placed
<1>3. NoCap' = NoCap /\ \A i : (Derived(All[i]))' = Derived(All[i])
  BY <1>1 DEF NoCap, Derived
<1> QED
  BY <1>1, <1>2, <1>3 DEF Populated

LEMMA ValidateSpaceInv ==
    ASSUME space \in Space, SpaceInv, ValidateSpace
    PROVE  SpaceInv'
<1> USE SpaceConstant, AllFacts DEF ValidateSpace, SpaceInv, Result
<1>1. CASE SpaceValid
  <2>1. step' = "allocate" /\ UNCHANGED <<space, next, cnode, states, result>>
    BY <1>1 DEF SpaceValid
  <2> QED
    BY <1>1, <2>1
<1>2. CASE ~SpaceValid
  <2>1. step' = "returned" /\ result' = "InvalidTaskConfiguration"
        /\ UNCHANGED <<space, next, cnode, states>>
    BY <1>2 DEF SpaceValid, Fail
  <2> QED
    BY <1>2, <2>1
<1> QED
  BY <1>1, <1>2

LEMMA AllocateCNodeInv ==
    ASSUME space \in Space, SpaceInv, AllocateCNode
    PROVE  SpaceInv'
<1> USE SpaceConstant, AllFacts DEF AllocateCNode, SpaceInv, Result
<1>1. CASE /\ cnode' = [s \in 0..(capacity - 1) |-> NoCap]
           /\ step' = "tracker" /\ UNCHANGED result
  <2>1. NoCap' = NoCap
    BY DEF NoCap
  <2> QED
    BY <1>1, <2>1
<1>2. CASE Fail("NoKernelMemory") /\ UNCHANGED cnode
  BY <1>2 DEF Fail
<1> QED
  BY <1>1, <1>2

LEMMA NewTrackerInv ==
    ASSUME space \in Space, SpaceInv, NewTracker
    PROVE  SpaceInv'
<1> USE SpaceConstant, AllFacts, CapacityFacts, CSpaceAssumption DEF NewTracker
<1>0. /\ UNCHANGED <<space, next, cnode>> /\ SpaceValid /\ next = 0 /\ states = <<>>
      /\ cnode = [s \in 0..(capacity - 1) |-> NoCap] /\ step = "tracker" /\ result = "none"
  BY DEF SpaceInv, Result
<1>1. CASE capacity > MaxSlots
  <2>1. step' = "returned" /\ result' = "InvalidTaskConfiguration" /\ states' = states
    BY <1>1 DEF Fail
  <2> QED
    BY <1>0, <1>1, <2>1 DEF SpaceInv, Result
<1>2. CASE ~(capacity > MaxSlots)
  <2>1. states' = [s \in 0..(MaxSlots - 1) |-> "free"] /\ step' = "install" /\ result' = result
    BY <1>2
  <2>2. \A s : ~Placed(s)'
    BY <1>0 DEF Placed
  <2>3. capacity <= MaxSlots
    BY <1>2
  <2>4. Populated'
    BY <1>0, <2>1, <2>2, <2>3 DEF Populated
  <2> QED
    BY <1>0, <2>1, <2>4 DEF SpaceInv, Result
<1> QED
  BY <1>1, <1>2

(* The next capability finds its slot empty and unmarked: the mint can fail *)
(* only for its source, and the tracker never refuses.                      *)
LEMMA NextDestination ==
    ASSUME space \in Space, Populated, next \in 0..Len(All), next < Len(All)
    PROVE  LET c == All[next + 1] IN
           /\ c.destination \in 1..(capacity - 1)
           /\ c.source \in DOMAIN RootCap
           /\ ~Placed(c.destination)
           /\ ~MarkRefused(c.destination)
           /\ MintRefused(c) <=> \/ RootCap[c.source] = NoCap
                                 \/ RootCap[c.source].badge # 0
<1> DEFINE c == All[next + 1]
<1> USE AllFacts, CapacityFacts
<1>1. next + 1 \in 1..Len(All)
  OBVIOUS
<1>2. Admissible(next + 1)
  BY <1>1 DEF Populated, SpaceValid
<1>3. c.destination \in 1..(capacity - 1) /\ c.source \in DOMAIN RootCap
  BY <1>1, <1>2 DEF Admissible
<1>4. ~Placed(c.destination)
  BY <1>2 DEF Admissible, Placed
<1>5. MaxSlots \in Nat
  BY CSpaceAssumption, Zenon
<1>6. c.destination \in 0..(MaxSlots - 1) /\ DOMAIN states = 0..(MaxSlots - 1)
      /\ states[c.destination] = "free"
  BY <1>3, <1>4, <1>5 DEF Populated
<1>7. ~MarkRefused(c.destination)
  BY <1>3, <1>6 DEF MarkRefused
<1>8. c.destination \in DOMAIN cnode /\ cnode[c.destination] = NoCap
  BY <1>3, <1>4 DEF Populated
<1> HIDE DEF c
<1>9. MintRefused(c) <=> \/ RootCap[c.source] = NoCap
                         \/ RootCap[c.source].badge # 0
  BY <1>8 DEF MintRefused
<1> QED
  BY <1>3, <1>4, <1>7, <1>9 DEF c

LEMMA InstallInv ==
    ASSUME space \in Space, SpaceInv, Install
    PROVE  SpaceInv'
<1> DEFINE c == All[next + 1]
           d == c.destination
<1> USE SpaceConstant, AllFacts
<1>0. /\ space' = space /\ step = "install" /\ result = "none"
      /\ Populated /\ next \in 0..Len(All) /\ next < Len(All)
  BY DEF Install, SpaceInv, Result
<1>1. /\ d \in 1..(capacity - 1) /\ ~Placed(d) /\ ~MarkRefused(d)
      /\ MintRefused(c) <=> \/ RootCap[c.source] = NoCap
                            \/ RootCap[c.source].badge # 0
  BY <1>0, NextDestination
<1>2. CASE MintRefused(c)
  <2>1. /\ step' = "returned" /\ result' = "CSpaceCreationFailed"
        /\ UNCHANGED <<next, cnode, states>>
    BY <1>2 DEF Install, Fail
  <2>2. Populated'
    BY <1>0, <2>1, PopulatedConstant
  <2> QED
    BY <1>0, <1>1, <1>2, <2>1, <2>2 DEF SpaceInv, Result, NoCap
<1>3. CASE ~MintRefused(c)
  <2>1. /\ cnode' = [cnode EXCEPT ![d] = Derived(c)]
        /\ states' = [states EXCEPT ![d] = "occupied"]
        /\ next' = next + 1 /\ UNCHANGED <<step, result>>
    BY <1>1, <1>3 DEF Install
  <2>2. ASSUME NEW s PROVE Placed(s)' <=> Placed(s) \/ s = d
    <3>1. \A i : i \in 1..(next + 1) <=> i \in 1..next \/ i = next + 1
      BY <1>0
    <3> QED
      BY <1>0, <2>1, <3>1 DEF Placed
  <2>3. d \in 0..(capacity - 1) /\ d \in 0..(MaxSlots - 1)
    BY <1>0, <1>1, CapacityFacts, CSpaceAssumption DEF Populated
  <2>4. \A s \in 0..(capacity - 1) : cnode'[s] = IF s = d THEN Derived(c) ELSE cnode[s]
    BY <1>0, <2>1, <2>3 DEF Populated
  <2>5. \A s \in 0..(MaxSlots - 1) : states'[s] = IF s = d THEN "occupied" ELSE states[s]
    BY <1>0, <2>1, <2>3 DEF Populated
  <2>6. ASSUME NEW i \in 1..next
        PROVE  All[i].destination \in 0..(capacity - 1) /\ All[i].destination # d
    <3>1. i \in 1..Len(All) /\ next + 1 \in 1..Len(All) /\ i \in 1..((next + 1) - 1)
      BY <1>0
    <3> QED
      BY <1>0, <3>1, CapacityFacts DEF Populated, SpaceValid, Admissible
  <2> HIDE DEF d
  <2>7. \A s \in 0..(capacity - 1) : cnode'[s] = NoCap \/ Placed(s)'
    BY <1>0, <2>2, <2>4 DEF Populated
  <2>8. \A i \in 1..(next + 1) : /\ cnode'[All[i].destination] = Derived(All[i])
                                 /\ RootCap[All[i].source] # NoCap
    <3>1. ASSUME NEW i \in 1..next
          PROVE  /\ cnode'[All[i].destination] = Derived(All[i])
                 /\ RootCap[All[i].source] # NoCap
      BY <1>0, <2>4, <2>6 DEF Populated
    <3>2. cnode'[All[next + 1].destination] = Derived(All[next + 1])
          /\ RootCap[All[next + 1].source] # NoCap
      BY <1>1, <1>3, <2>3, <2>4 DEF d
    <3>3. \A i \in 1..(next + 1) : i \in 1..next \/ i = next + 1
      BY <1>0
    <3> QED
      BY <3>1, <3>2, <3>3
  <2>9. /\ DOMAIN cnode' = 0..(capacity - 1)
        /\ states' \in [0..(MaxSlots - 1) -> {"free", "occupied"}]
        /\ \A s \in 0..(MaxSlots - 1) : states'[s] = "free" <=> ~Placed(s)'
    BY <1>0, <2>1, <2>2, <2>5 DEF Populated
  <2>10. Populated'
    <3>1. capacity <= MaxSlots /\ SpaceValid
      BY <1>0 DEF Populated
    <3>2. NoCap' = NoCap /\ \A i : (Derived(All[i]))' = Derived(All[i])
      BY <1>0 DEF NoCap, Derived
    <3> QED
      BY <1>0, <2>1, <2>7, <2>8, <2>9, <3>1, <3>2 DEF Populated
  <2> QED
    BY <1>0, <2>1, <2>10 DEF SpaceInv, Result
<1> QED
  BY <1>2, <1>3

LEMMA CreatedInv ==
    ASSUME space \in Space, SpaceInv, Created
    PROVE  SpaceInv'
<1> USE SpaceConstant, AllFacts
<1>1. /\ UNCHANGED <<space, next, cnode, states>> /\ Populated /\ next = Len(All)
      /\ step' = "returned" /\ result' = "Ok"
  BY DEF Created, SpaceInv
<1>2. Populated'
  BY <1>1, PopulatedConstant
<1> QED
  BY <1>1, <1>2 DEF SpaceInv, Result

LEMMA SpaceStepInv ==
    ASSUME space \in Space, SpaceInv, SpaceStep
    PROVE  SpaceInv'
BY ValidateSpaceInv, AllocateCNodeInv, NewTrackerInv, InstallInv, CreatedInv DEF SpaceStep

LEMMA SpaceStutterInv ==
    ASSUME SpaceInv, UNCHANGED spaceVars
    PROVE  SpaceInv'
<1> USE SpaceConstant DEF spaceVars
<1>1. Populated' <=> Populated
  BY PopulatedConstant
<1> QED
  BY <1>1 DEF SpaceInv, NoCap

-----------------------------------------------------------------------------
(***************************************************************************)
(* TaskLayout                                                              *)
(***************************************************************************)
LEMMA ConfigFacts ==
    ASSUME NEW c \in Config
    PROVE  /\ c.page_size \in Nat /\ c.entry \in Nat
           /\ AllPages(c) \in Seq(Nat) /\ Len(AllPages(c)) \in Nat
           /\ Len(AllPages(c)) >= 4 /\ AllPages(c)[1] = Code(c)
           /\ \A i \in 1..Len(AllPages(c)) : AllPages(c)[i] \in Nat
<1>1. c \in [page_size : Nat, entry : Nat, pages : Seq(Nat), reserved : Seq(Nat)]
  BY LayoutAssumption, Zenon
<1>2. PICK g \in Seq(Nat), r \in Seq(Nat) : g = c.pages /\ r = c.reserved
  BY <1>1
<1>3. Len(g) = 4
  BY <1>2, LayoutAssumption, Zenon
<1>4. PICK s \in Seq(Nat) : s = g \o r
  BY ConcatProperties, Zenon
<1>5. s = AllPages(c)
  BY <1>2, <1>4, Zenon DEF AllPages
<1>6. PICK m \in Nat : m = Len(r)
  BY LenProperties, Zenon
<1>7. Len(s) = Len(g) + Len(r)
  BY <1>4, ConcatProperties, Zenon
<1>8. \A i \in 1..(Len(g) + Len(r)) : s[i] = IF i <= Len(g) THEN g[i] ELSE r[i - Len(g)]
  BY <1>4, ConcatProperties, Zenon
<1>9. s[1] = Code(c)
  <2>1. 1 \in 1..(Len(g) + Len(r)) /\ 1 <= Len(g)
    <3>1. 1 \in 1..(4 + m) /\ 1 <= 4
      OBVIOUS
    <3> QED
      BY <1>3, <1>6, <3>1, Zenon
  <2> QED
    BY <1>2, <1>8, <2>1, Zenon DEF Code
<1>10. \A i \in 1..Len(s) : s[i] \in Nat
  BY ElementOfSeq, Zenon
<1>11. c.page_size \in Nat /\ c.entry \in Nat
  BY <1>1
<1>12. Len(s) \in Nat /\ Len(s) >= 4
  <2>1. 4 + m \in Nat /\ 4 + m >= 4
    OBVIOUS
  <2> QED
    BY <1>3, <1>6, <1>7, <2>1, Zenon
<1> QED
  BY <1>5, <1>9, <1>10, <1>11, <1>12, Zenon

(* Two multiples of a size are equal or a whole size apart. *)
LEMMA MultiplesApart ==
    ASSUME NEW s \in Nat \ {0}, NEW a \in Nat, NEW b \in Nat, a < b
    PROVE  a * s + s <= b * s
<1>1. PICK k \in Nat : b = a + 1 + k
  <2>1. b - a - 1 \in Nat /\ b = a + 1 + (b - a - 1)
    OBVIOUS
  <2> QED
    BY <2>1
<1>2. b * s = a * s + s + k * s
  BY <1>1
<1>3. k * s \in Nat /\ a * s \in Nat
  OBVIOUS
<1> QED
  BY <1>2, <1>3

(* One address passes the three tests exactly when its page is whole,       *)
(* within the word and starts nowhere an earlier one starts.                *)
LEMMA PageErrorIs ==
    ASSUME NEW size \in Nat \ {0}, NEW address \in Nat, NEW prior
    PROVE  PageError(size, address, prior) = "none" <=>
              address % size = 0 /\ address + size < 2^Width /\ address \notin prior
<1>1. 2^Width \in Nat
  BY PowerPositive, LayoutAssumption
<1> QED
  BY <1>1 DEF PageError, Overflows

(* The four addresses and the reserved pages that validate lets through. *)
PagesPass(c) ==
    \A i \in 1..Len(AllPages(c)) :
        /\ AllPages(c)[i] % c.page_size = 0
        /\ AllPages(c)[i] + c.page_size < 2^Width
        /\ \A j \in 1..(i - 1) : AllPages(c)[j] # AllPages(c)[i]

LEMMA ValidateCases ==
    ASSUME NEW c \in Config
    PROVE  /\ validate(c) \in Outcome \ {"ready", "vspace_failed"}
           /\ validate(c) = "tables" <=>
                 IsPowerOfTwo(c.page_size) /\ PagesPass(c) /\ ~EntryOutside(c)
<1> DEFINE bad == {i \in 1..Len(AllPages(c)) : ErrorAt(c, i) # "none"}
           first == CHOOSE i \in bad : \A j \in bad : i <= j
<1>1. \A i : ErrorAt(c, i) \in {"UnalignedAddress", "AddressOverflow", "OverlappingPages", "none"}
  BY DEF ErrorAt, PageError
<1>2. validate(c) = IF ~IsPowerOfTwo(c.page_size) THEN "InvalidPageSize"
                    ELSE IF bad # {} THEN ErrorAt(c, first)
                    ELSE IF EntryOutside(c) THEN "InvalidEntry" ELSE "tables"
  BY Zenon DEF validate
<1>3. ASSUME IsPowerOfTwo(c.page_size)
      PROVE  bad = {} <=> PagesPass(c)
  <2>1. c.page_size \in Nat \ {0}
    BY <1>3, PowerPositive, LayoutAssumption DEF IsPowerOfTwo
  <2>2. ASSUME NEW i \in 1..Len(AllPages(c))
        PROVE  ErrorAt(c, i) = "none" <=>
                  /\ AllPages(c)[i] % c.page_size = 0
                  /\ AllPages(c)[i] + c.page_size < 2^Width
                  /\ AllPages(c)[i] \notin {AllPages(c)[j] : j \in 1..(i - 1)}
    <3>1. AllPages(c)[i] \in Nat
      BY ConfigFacts
    <3> QED
      BY <2>1, <3>1, PageErrorIs, Zenon DEF ErrorAt
  <2>3. bad = {} <=> \A i \in 1..Len(AllPages(c)) : ErrorAt(c, i) = "none"
    BY Zenon
  <2>4. ASSUME NEW i \in 1..Len(AllPages(c))
        PROVE  ErrorAt(c, i) = "none" <=>
                  /\ AllPages(c)[i] % c.page_size = 0
                  /\ AllPages(c)[i] + c.page_size < 2^Width
                  /\ \A j \in 1..(i - 1) : AllPages(c)[j] # AllPages(c)[i]
    BY <2>2, Zenon
  <2> QED
    BY <2>3, <2>4, Zenon DEF PagesPass
<1> HIDE DEF bad, first
<1> QED
  BY <1>1, <1>2, <1>3 DEF Outcome

(* Pages that pass are disjoint: addresses that are multiples of the page   *)
(* size and differ are a page apart.                                        *)
LEMMA PagesDisjoint ==
    ASSUME NEW s \in Nat \ {0}, NEW a \in Nat, NEW b \in Nat, a % s = 0, b % s = 0, a # b
    PROVE  a + s <= b \/ b + s <= a
<1> DEFINE k == a \div s
           l == b \div s
<1>1. k \in Nat /\ l \in Nat /\ a = k * s /\ b = l * s
  BY DivFacts
<1> HIDE DEF k, l
<1>2. k < l \/ l < k
  BY <1>1
<1> QED
  BY <1>1, <1>2, MultiplesApart

(* An entry aligned to an instruction and before the end of a code page of  *)
(* whole instructions has its instruction in that page.                     *)
LEMMA EntryFits ==
    ASSUME NEW s \in Nat \ {0}, NEW code \in Nat, NEW entry \in Nat,
           s % 4 = 0, code % s = 0, entry % 4 = 0, entry < code + s
    PROVE  entry + 3 < code + s
<1>1. s = (s \div 4) * 4 /\ s \div 4 \in Nat
  OBVIOUS
<1>2. code = (code \div s) * s /\ code \div s \in Nat
  BY DivFacts
<1>3. PICK q \in Nat, k \in Nat : s = q * 4 /\ code = k * s
  BY <1>1, <1>2
<1>4. code + s = (k * q + q) * 4 /\ k * q + q \in Nat
  <2>1. k * s = (k * q) * 4 /\ k * q \in Nat
    BY <1>3
  <2> QED
    BY <1>3, <2>1
<1>5. PICK v \in Nat : code + s = v * 4
  BY <1>4
<1> QED
  BY <1>5

(* validate compares start addresses only, and lets exactly the layouts     *)
(* through whose pages are whole, within the word and disjoint byte for     *)
(* byte, with the first instruction in the code page.                       *)
LEMMA ValidateIs ==
    ASSUME NEW c \in Config
    PROVE  validate(c) = "tables" <=> WellFormedLayout(c)
<1> DEFINE size == c.page_size
           N == Len(AllPages(c))
           p(i) == AllPages(c)[i]
           W == 2^Width
<1>1. /\ size \in Nat /\ c.entry \in Nat /\ N \in Nat /\ N >= 4 /\ p(1) = Code(c)
      /\ \A i \in 1..N : p(i) \in Nat
  BY ConfigFacts
<1>2. W \in Nat \ {0}
  BY PowerPositive, LayoutAssumption
<1>3. IsPowerOfTwo(size) => size \in Nat \ {0} /\ size % 4 = 0
  <2>1. ASSUME IsPowerOfTwo(size) PROVE size \in Nat \ {0}
    BY <2>1, PowerPositive, LayoutAssumption DEF IsPowerOfTwo
  <2>2. ASSUME IsPowerOfTwo(size) PROVE size % 4 = 0
    BY <2>2, PageSizeAssumption, Zenon
  <2> QED
    BY <2>1, <2>2
<1>4. ASSUME IsPowerOfTwo(size), PagesPass(c), ~EntryOutside(c)
      PROVE  WellFormedLayout(c)
  <2> HIDE DEF size, N, p, W
  <2>0. size \in Nat \ {0} /\ size % 4 = 0
    BY <1>3, <1>4
  <2>1. ASSUME NEW i \in 1..N
        PROVE  p(i) % size = 0 /\ p(i) + size < W /\ \A j \in 1..(i - 1) : p(j) # p(i)
    BY <1>4, Zenon DEF PagesPass, size, N, p, W
  <2>2. ASSUME NEW i \in 1..N
        PROVE  /\ \E k \in 0..W : p(i) = k * size
               /\ p(i)..(p(i) + size - 1) \subseteq 0..(W - 1)
               /\ p(i) + size \in 0..(W - 1)
    <3>1. PICK a \in Nat : a = p(i)
      BY <1>1
    <3>2. a % size = 0 /\ a + size < W
      BY <2>1, <3>1
    <3>3. a \div size \in 0..a /\ a = (a \div size) * size
      BY <2>0, <3>2, DivFacts, Zenon
    <3>4. \A k \in 0..a : k \in 0..W
      BY <1>2, <2>0, <3>2
    <3>5. \E k \in 0..W : a = k * size
      BY <3>3, <3>4, Zenon
    <3>6. a..(a + size - 1) \subseteq 0..(W - 1) /\ a + size \in 0..(W - 1)
      BY <1>2, <2>0, <3>2
    <3> QED
      BY <3>1, <3>5, <3>6, Zenon
  <2>3. ASSUME NEW i \in 1..N, NEW j \in 1..N, i # j
        PROVE  p(i)..(p(i) + size - 1) \cap p(j)..(p(j) + size - 1) = {}
    <3>1. p(i) # p(j)
      <4>1. i \in 1..(j - 1) \/ j \in 1..(i - 1)
        BY <1>1, <2>3
      <4> QED
        BY <2>1, <4>1
    <3>2. p(i) + size <= p(j) \/ p(j) + size <= p(i)
      BY <1>1, <2>0, <2>1, <3>1, PagesDisjoint
    <3> QED
      BY <1>1, <2>0, <3>2
  <2>4. /\ c.entry % 4 = 0
        /\ c.entry..(c.entry + 3) \subseteq p(1)..(p(1) + size - 1)
    <3>1. c.entry >= p(1) /\ c.entry < p(1) + size /\ c.entry % 4 = 0
      <4>1. ~(c.entry < p(1)) /\ ~(c.entry >= p(1) + size) /\ c.entry % 4 = 0
        BY <1>1, <1>4, Zenon DEF EntryOutside, size
      <4>2. p(1) \in Nat
        BY <1>1
      <4> QED
        BY <1>1, <4>1, <4>2, <2>0
    <3>2. 1 \in 1..N
      BY <1>1
    <3>3. p(1) \in Nat /\ p(1) % size = 0
      BY <1>1, <2>1, <3>2
    <3>4. c.entry + 3 < p(1) + size
      BY <1>1, <2>0, <3>1, <3>3, EntryFits
    <3> QED
      BY <1>1, <2>0, <3>1, <3>3, <3>4
  <2> QED
    BY <1>1, <1>4, <2>2, <2>3, <2>4, Zenon DEF WellFormedLayout, Bytes, size, N, p, W
<1>5. ASSUME WellFormedLayout(c)
      PROVE  IsPowerOfTwo(size) /\ PagesPass(c) /\ ~EntryOutside(c)
  <2> HIDE DEF size, N, p, W
  <2>1. IsPowerOfTwo(size)
    BY <1>5, Zenon DEF WellFormedLayout, size
  <2>2. size \in Nat \ {0}
    BY <1>3, <2>1
  <2>3. ASSUME NEW i \in 1..N
        PROVE  (\E k \in 0..W : p(i) = k * size) /\ p(i) + size \in 0..(W - 1)
    BY <1>5, Zenon DEF WellFormedLayout, size, N, p, W
  <2>4. ASSUME NEW i \in 1..N, NEW j \in 1..N, i # j
        PROVE  p(i)..(p(i) + size - 1) \cap p(j)..(p(j) + size - 1) = {}
    BY <1>5, <2>4, Zenon DEF WellFormedLayout, Bytes, size, N, p
  <2>5. ASSUME NEW i \in 1..N
        PROVE  p(i) % size = 0 /\ p(i) + size < W /\ \A j \in 1..(i - 1) : p(j) # p(i)
    <3>1. p(i) % size = 0
      <4>1. PICK k \in 0..W : p(i) = k * size
        BY <2>3
      <4>2. (k * size) % size = 0
        BY <1>2, <2>2
      <4> QED
        BY <4>1, <4>2, Zenon
    <3>2. p(i) + size < W
      BY <1>1, <1>2, <2>2, <2>3
    <3>3. ASSUME NEW j \in 1..(i - 1), p(j) = p(i) PROVE FALSE
      <4>1. j \in 1..N /\ j # i
        BY <1>1
      <4>2. p(i) \in p(i)..(p(i) + size - 1)
        BY <1>1, <2>2
      <4> QED
        BY <2>4, <3>3, <4>1, <4>2
    <3> QED
      BY <3>1, <3>2, <3>3
  <2>6. ~EntryOutside(c)
    <3>1. /\ c.entry % 4 = 0
          /\ c.entry..(c.entry + 3) \subseteq p(1)..(p(1) + size - 1)
      BY <1>1, <1>5, Zenon DEF WellFormedLayout, Bytes, size
    <3>2. p(1) \in Nat
      BY <1>1
    <3>3. c.entry \in c.entry..(c.entry + 3)
      BY <1>1
    <3>4. c.entry \in p(1)..(p(1) + size - 1)
      BY <3>1, <3>3
    <3>5. ~(c.entry < p(1)) /\ ~(c.entry >= p(1) + size)
      BY <1>1, <2>2, <3>2, <3>4
    <3> QED
      BY <1>1, <3>1, <3>5, Zenon DEF EntryOutside, size
  <2> QED
    BY <2>1, <2>5, <2>6, Zenon DEF PagesPass, size, N, p, W
<1> QED
  BY <1>4, <1>5, ValidateCases, Zenon

LEMMA LevelsFacts == Len(SpanBits) \in Nat
<1>1. SpanBits \in Seq(0..(Width - 1))
  BY LayoutAssumption, Zenon
<1> QED
  BY <1>1, LenProperties, Zenon

(* The loops move on by one position. *)
LEMMA AdvanceInv ==
    ASSUME config \in Config, LayoutInv, InLoop, result = "Ok", Advance,
           tables' = tables \cup {TableOf(level, index)},
           UNCHANGED <<config, outcome, step, result>>
    PROVE  LayoutInv'
<1> DEFINE L == Len(SpanBits)
           N == Len(AllPages(config))
<1>1. L \in Nat /\ N \in Nat /\ N >= 4
  BY LevelsFacts, ConfigFacts
<1>2. level \in 1..L /\ index \in 1..N /\ outcome = "tables"
  BY <1>1, LevelsFacts DEF LayoutInv, InLoop
<1>3. /\ AllPages(config)' = AllPages(config)
      /\ \A l, i : TableOf(l, i)' = TableOf(l, i)
      /\ WellFormedLayout(config)' <=> WellFormedLayout(config)
  BY DEF TableOf, TableBase, AllPages, WellFormedLayout, Bytes, Code
<1>4. IF index < N THEN index' = index + 1 /\ level' = level
      ELSE index' = 1 /\ level' = level + 1
  BY DEF Advance
<1> HIDE DEF L, N
<1>5. ASSUME NEW l \in 1..L, NEW i \in 1..N
      PROVE  Before(l, i)' <=> Before(l, i) \/ (l = level /\ i = index)
  BY <1>1, <1>2, <1>4 DEF Before
<1>6. level' \in 1..(L + 1) /\ index' \in 1..N /\ (level' > L => index' = 1)
  BY <1>1, <1>2, <1>4
<1>7. \A l \in 1..L, i \in 1..N : Before(l, i)' => TableOf(l, i) \in tables'
  <2>1. \A l \in 1..L, i \in 1..N : Before(l, i) => TableOf(l, i) \in tables
    BY DEF LayoutInv, L, N
  <2> QED
    BY <1>5, <2>1
<1>8. ASSUME NEW t \in tables'
      PROVE  \E l \in 1..L, i \in 1..N : Before(l, i)' /\ t = TableOf(l, i)
  <2>1. CASE t \in tables
    <3>1. PICK l \in 1..L, i \in 1..N : Before(l, i) /\ t = TableOf(l, i)
      BY <2>1 DEF LayoutInv, L, N
    <3>2. Before(l, i)'
      BY <1>5, <3>1
    <3> QED
      BY <3>1, <3>2, Zenon
  <2>2. CASE t = TableOf(level, index)
    <3>1. PICK l \in 1..L, i \in 1..N : l = level /\ i = index
      BY <1>2
    <3>2. Before(l, i)'
      BY <1>5, <3>1
    <3>3. t = TableOf(l, i)
      BY <2>2, <3>1 DEF TableOf
    <3> QED
      BY <3>2, <3>3, Zenon
  <2> QED
    BY <2>1, <2>2
<1>9. /\ outcome' \in Outcome /\ outcome' # "vspace_failed" /\ outcome' # "none" /\ outcome' # "ready"
      /\ outcome' \in Passed /\ WellFormedLayout(config)
  BY <1>2 DEF LayoutInv, Passed
<1>10. /\ \A l \in 1..L, i \in 1..N : Before(l, i)' => TableOf(l, i)' \in tables'
       /\ \A t \in tables' : \E l \in 1..L, i \in 1..N : Before(l, i)' /\ t = TableOf(l, i)'
  BY <1>3, <1>7, <1>8, Zenon
<1> QED
  BY <1>3, <1>6, <1>9, <1>10 DEF LayoutInv, L, N

(* A page whose table was seen finds it mapped. *)
LEMMA SkipTableInv ==
    ASSUME config \in Config, LayoutInv, result = "Ok", SkipTable, UNCHANGED <<step, result>>
    PROVE  LayoutInv'
<1>1. index \in 1..Len(AllPages(config)) /\ level \in 1..Len(SpanBits)
  BY LevelsFacts DEF LayoutInv, SkipTable, InLoop
<1>2. PICK j \in 1..(index - 1) :
        TableBase(level, AllPages(config)[j]) = TableBase(level, AllPages(config)[index])
  BY DEF SkipTable, Seen
<1>3. j \in 1..Len(AllPages(config)) /\ Before(level, j)
  BY <1>1, ConfigFacts DEF Before
<1>4. TableOf(level, index) \in tables
  BY <1>1, <1>2, <1>3 DEF LayoutInv, TableOf
<1> QED
  BY <1>4, AdvanceInv DEF SkipTable

(* A table that was not seen is not there, and its parent is: the kernel    *)
(* has no reason to refuse it below the end of the user's addresses.        *)
LEMMA NeverRefused ==
    ASSUME config \in Config, LayoutInv, InLoop, ~Seen(config, level, index),
           AllPages(config)[index] < UserTop
    PROVE  Mappable(level, AllPages(config)[index])
<1>1. index \in 1..Len(AllPages(config)) /\ level \in 1..Len(SpanBits)
  BY LevelsFacts DEF LayoutInv, InLoop
<1>2. TableOf(level, index) \notin tables
  <2> SUFFICES ASSUME TableOf(level, index) \in tables PROVE FALSE
    OBVIOUS
  <2>1. PICK l \in 1..Len(SpanBits), i \in 1..Len(AllPages(config)) :
          Before(l, i) /\ TableOf(level, index) = TableOf(l, i)
    BY DEF LayoutInv
  <2>2. l = level
        /\ TableBase(l, AllPages(config)[i]) = TableBase(level, AllPages(config)[index])
    BY <2>1 DEF TableOf
  <2>3. i \in 1..(index - 1)
    BY <1>1, <2>1, <2>2, LevelsFacts, ConfigFacts DEF Before
  <2> QED
    BY <2>2, <2>3 DEF Seen
<1>3. ASSUME level > 1 PROVE TableOf(level - 1, index) \in tables
  <2>1. level - 1 \in 1..Len(SpanBits) /\ Before(level - 1, index)
    BY <1>1, <1>3, LevelsFacts DEF Before
  <2> QED
    BY <1>1, <2>1 DEF LayoutInv
<1> QED
  BY <1>2, <1>3 DEF Mappable, TableOf

LEMMA LayoutConstant ==
    ASSUME UNCHANGED <<config, level, index>>
    PROVE  /\ AllPages(config)' = AllPages(config)
           /\ \A l, i : TableOf(l, i)' = TableOf(l, i) /\ (Before(l, i)' <=> Before(l, i))
           /\ WellFormedLayout(config)' <=> WellFormedLayout(config)
BY DEF TableOf, TableBase, AllPages, WellFormedLayout, Bytes, Code, Before

LEMMA MapTableInv ==
    ASSUME config \in Config, LayoutInv, result = "Ok", MapTable, UNCHANGED <<step, result>>
    PROVE  LayoutInv'
<1>1. CASE Mappable(level, AllPages(config)[index])
  BY <1>1, AdvanceInv DEF MapTable, TableOf
<1>2. CASE ~Mappable(level, AllPages(config)[index])
  <2>1. /\ UNCHANGED <<config, level, index, tables, step, result>>
        /\ outcome = "tables" /\ outcome' = "vspace_failed"
    BY <1>2 DEF MapTable, InLoop
  <2>2. AllPages(config)[index] >= UserTop
    <3>1. AllPages(config)[index] \in Nat /\ UserTop \in Nat
      BY ConfigFacts, LayoutAssumption DEF LayoutInv
    <3>2. ~(AllPages(config)[index] < UserTop)
      BY <1>2, NeverRefused DEF MapTable
    <3> QED
      BY <3>1, <3>2
  <2>3. /\ AllPages(config)' = AllPages(config)
        /\ \A l, i : TableOf(l, i)' = TableOf(l, i) /\ (Before(l, i)' <=> Before(l, i))
        /\ WellFormedLayout(config)' <=> WellFormedLayout(config)
    BY <2>1, LayoutConstant
  <2> QED
    BY <2>1, <2>2, <2>3 DEF LayoutInv, Passed, Outcome
<1> QED
  BY <1>1, <1>2

LEMMA DoneInv ==
    ASSUME config \in Config, LayoutInv, result = "Ok", Done, UNCHANGED <<step, result>>
    PROVE  LayoutInv'
<1>1. /\ UNCHANGED <<config, level, index, tables, step, result>> /\ outcome' = "ready"
      /\ outcome = "tables" /\ level = Len(SpanBits) + 1
  BY LevelsFacts DEF Done, LayoutInv
<1>2. /\ AllPages(config)' = AllPages(config)
      /\ \A l, i : TableOf(l, i)' = TableOf(l, i) /\ (Before(l, i)' <=> Before(l, i))
      /\ WellFormedLayout(config)' <=> WellFormedLayout(config)
  BY <1>1, LayoutConstant
<1> QED
  BY <1>1, <1>2 DEF LayoutInv, Outcome, Passed

LEMMA ValidateInv ==
    ASSUME config \in Config, LayoutInv, ValidateLayout, UNCHANGED <<step, result>>
    PROVE  LayoutInv'
<1>1. /\ UNCHANGED <<config, level, index, tables, step, result>> /\ outcome = "none"
      /\ outcome' = validate(config) /\ step = "validate" /\ tables = {}
  BY DEF ValidateLayout, LayoutInv, Passed
<1>2. /\ AllPages(config)' = AllPages(config)
      /\ \A l, i : TableOf(l, i)' = TableOf(l, i) /\ (Before(l, i)' <=> Before(l, i))
      /\ WellFormedLayout(config)' <=> WellFormedLayout(config)
  BY <1>1, LayoutConstant
<1>3. /\ outcome' \in Outcome \ {"ready", "vspace_failed"}
      /\ outcome' = "tables" <=> WellFormedLayout(config)
  BY <1>1, ValidateCases, ValidateIs
<1> QED
  BY <1>1, <1>2, <1>3 DEF LayoutInv, Passed

(* Building the CSpace leaves the layout alone, and happens before the      *)
(* first table.                                                             *)
LEMMA CreateSpaceInv ==
    ASSUME LayoutInv, SpaceInv, CreateSpace
    PROVE  LayoutInv'
<1>1. UNCHANGED <<config, outcome, level, index, tables>> /\ outcome = "tables"
  BY DEF CreateSpace, layoutVars
<1>2. step # "returned"
  BY DEF CreateSpace, SpaceStep, ValidateSpace, AllocateCNode, NewTracker, Install, Created
<1>3. tables = {}
  BY <1>2 DEF LayoutInv, SpaceInv
<1>4. /\ AllPages(config)' = AllPages(config)
      /\ \A l, i : TableOf(l, i)' = TableOf(l, i) /\ (Before(l, i)' <=> Before(l, i))
      /\ WellFormedLayout(config)' <=> WellFormedLayout(config)
  BY <1>1, LayoutConstant
<1> QED
  BY <1>1, <1>3, <1>4 DEF LayoutInv, Passed

LEMMA LayoutStutterInv ==
    ASSUME LayoutInv, UNCHANGED vars
    PROVE  LayoutInv'
<1>1. UNCHANGED <<config, outcome, level, index, tables, step, result>>
  BY DEF vars, layoutVars, spaceVars
<1>2. /\ AllPages(config)' = AllPages(config)
      /\ \A l, i : TableOf(l, i)' = TableOf(l, i) /\ (Before(l, i)' <=> Before(l, i))
      /\ WellFormedLayout(config)' <=> WellFormedLayout(config)
  BY <1>1, LayoutConstant
<1> QED
  BY <1>1, <1>2 DEF LayoutInv, Passed

-----------------------------------------------------------------------------
(***************************************************************************)
(* create_task                                                             *)
(***************************************************************************)
LEMMA ConfigsKnown ==
    ASSUME ConfigInv
    PROVE  config \in Config /\ space \in Space
BY TaskConfigAssumption DEF ConfigInv

LEMMA InitInv == Init => IInv
<1> SUFFICES ASSUME NEW c \in TaskConfig, LayoutInit(c.layout), SpaceInit(c.space)
             PROVE  IInv
  BY DEF Init
<1>1. c \in [layout : Config, space : Space]
  BY TaskConfigAssumption
<1>2. ConfigInv
  BY <1>1 DEF ConfigInv, LayoutInit, SpaceInit
<1>3. SpaceInv
  BY <1>2, ConfigsKnown, AllFacts DEF SpaceInv, SpaceInit, Result
<1>4. LayoutInv
  <2>1. \A l \in 1..Len(SpanBits), i \in 1..Len(AllPages(config)) : ~Before(l, i)
    BY <1>2, ConfigsKnown, ConfigFacts, LevelsFacts DEF Before, LayoutInit
  <2>2. level \in 1..(Len(SpanBits) + 1) /\ index \in 1..Len(AllPages(config))
        /\ (level > Len(SpanBits) => index = 1)
    BY <1>2, ConfigsKnown, ConfigFacts, LevelsFacts DEF LayoutInit
  <2> QED
    BY <2>1, <2>2 DEF LayoutInv, LayoutInit, SpaceInit, Outcome
<1> QED
  BY <1>2, <1>3, <1>4 DEF IInv

LEMMA Inductive == IInv /\ [Next]_vars => IInv'
<1> SUFFICES ASSUME IInv, [Next]_vars PROVE IInv'
  OBVIOUS
<1>0. config \in Config /\ space \in Space
  BY ConfigsKnown DEF IInv
<1>1. ConfigInv'
  <2>1. config' = config /\ space' = space
    BY DEF Next, Validate, ValidateLayout, CreateSpace, MapTables, TableStep, SkipTable,
           MapTable, Done, SpaceStep, ValidateSpace, AllocateCNode, NewTracker, Install,
           Created, vars, layoutVars, spaceVars
  <2> QED
    BY <2>1 DEF IInv, ConfigInv
<1>2. CASE Validate
  <2>1. SpaceInv'
    BY <1>2, SpaceStutterInv DEF IInv, Validate
  <2>2. LayoutInv'
    BY <1>0, <1>2, ValidateInv DEF IInv, Validate, spaceVars
  <2> QED
    BY <1>1, <2>1, <2>2 DEF IInv
<1>3. CASE CreateSpace
  BY <1>0, <1>1, <1>3, SpaceStepInv, CreateSpaceInv DEF IInv, CreateSpace
<1>4. CASE MapTables
  <2>1. SpaceInv'
    BY <1>4, SpaceStutterInv DEF IInv, MapTables
  <2>2. LayoutInv'
    BY <1>0, <1>4, SkipTableInv, MapTableInv, DoneInv DEF IInv, MapTables, TableStep, spaceVars
  <2> QED
    BY <1>1, <2>1, <2>2 DEF IInv
<1>5. CASE UNCHANGED vars
  BY <1>1, <1>5, SpaceStutterInv, LayoutStutterInv DEF IInv, vars
<1> QED
  BY <1>2, <1>3, <1>4, <1>5 DEF Next

LEMMA Invariant == Spec => []IInv
BY InitInv, Inductive, PTL DEF Spec

-----------------------------------------------------------------------------
(***************************************************************************)
(* Theorems                                                                *)
(***************************************************************************)

(* TaskLayout::validate accepts exactly the layouts whose pages are whole,  *)
(* inside the word and disjoint byte for byte, for any page size and any    *)
(* number of reserved pages.                                                *)
THEOREM LayoutsAccepted == Spec => []AcceptsWellFormed
<1>1. IInv => AcceptsWellFormed
  BY DEF IInv, LayoutInv, AcceptsWellFormed, Passed
<1> QED
  BY <1>1, Invariant, PTL

(* map_translation_tables never asks the kernel for a table that is already *)
(* there or has no parent, is refused only a table the user cannot have,    *)
(* and leaves no page without one on any level.                             *)
THEOREM TablesBuilt == Spec => []TablesComplete
<1>1. IInv => RefusedOnlyAboveTop
  BY DEF IInv, LayoutInv, RefusedOnlyAboveTop
<1>2. IInv => EveryPageCovered
  <2> SUFFICES ASSUME IInv, outcome = "ready",
                      NEW i \in 1..Len(AllPages(config)), NEW l \in 1..Len(SpanBits)
               PROVE  TableOf(l, i) \in tables
    BY DEF EveryPageCovered, TableOf
  <2>1. Before(l, i)
    BY LevelsFacts DEF IInv, LayoutInv, Before
  <2> QED
    BY <2>1 DEF IInv, LayoutInv
<1> QED
  BY <1>1, <1>2, Invariant, PTL DEF TablesComplete

(* CSpace::create refuses exactly the malformed configurations, its tracker *)
(* never refuses what its validation let pass, and the kernel refuses a     *)
(* mint only for the source capability.                                     *)
THEOREM MalformedRefused == Spec => []RefusesMalformed
<1>1. IInv => RefusesMalformed
  <2> SUFFICES ASSUME IInv PROVE RefusesMalformed
    OBVIOUS
  <2>1. space \in Space
    BY ConfigsKnown DEF IInv
  <2>2. result = "InvalidTaskConfiguration" => ~WellFormedSpace
    <3>1. capacity \in Nat /\ MaxSlots \in Nat
      BY <2>1, CapacityFacts, CSpaceAssumption
    <3> QED
      BY <2>1, <3>1, WellFormedIs DEF IInv, SpaceInv
  <2>3. result = "Ok" => WellFormedSpace
    BY <2>1, WellFormedIs DEF IInv, SpaceInv, Populated
  <2> QED
    BY <2>2, <2>3 DEF IInv, SpaceInv, RefusesMalformed
<1> QED
  BY <1>1, Invariant, PTL

(* Every capability in the CNode is one the root delegated to that slot,    *)
(* with no more rights, at every moment of the construction.                *)
LEMMA Delegated ==
    ASSUME IInv
    PROVE  OnlyDelegated
<1> SUFFICES ASSUME NEW s \in DOMAIN cnode, cnode[s] # NoCap
             PROVE  \E i \in DOMAIN All :
                       /\ All[i].destination = s
                       /\ cnode[s].object = RootCap[All[i].source].object
                       /\ cnode[s].rights \subseteq All[i].rights
  BY DEF OnlyDelegated
<1>1. space \in Space
  BY ConfigsKnown DEF IInv
<1>2. Populated /\ next \in 0..Len(All)
  <2>1. DOMAIN <<>> = {}
    OBVIOUS
  <2>2. cnode # <<>>
    BY <2>1
  <2>3. cnode # [r \in 0..(capacity - 1) |-> NoCap]
    OBVIOUS
  <2> QED
    BY <2>2, <2>3 DEF IInv, SpaceInv, Result
<1>3. PICK i \in 1..next : All[i].destination = s
  BY <1>2 DEF Populated, Placed
<1>4. cnode[s] = Derived(All[i]) /\ i \in DOMAIN All
  BY <1>1, <1>2, <1>3, AllFacts DEF Populated
<1> QED
  BY <1>3, <1>4 DEF Derived

(* The tracker of a created CSpace is FREE exactly where the CNode is empty. *)
LEMMA Tracked ==
    ASSUME IInv
    PROVE  TrackerAgrees
<1> SUFFICES ASSUME result = "Ok", NEW s \in DOMAIN states
             PROVE  states[s] = "free" <=> s \notin DOMAIN cnode \/ cnode[s] = NoCap
  BY DEF TrackerAgrees
<1>1. space \in Space
  BY ConfigsKnown DEF IInv
<1>2. Populated /\ next = Len(All)
  BY DEF IInv, SpaceInv
<1>3. s \in 0..(MaxSlots - 1) /\ (states[s] = "free" <=> ~Placed(s))
  BY <1>2 DEF Populated
<1>4. ASSUME Placed(s) PROVE s \in DOMAIN cnode /\ cnode[s] # NoCap
  <2>1. PICK i \in 1..Len(All) : All[i].destination = s
    BY <1>2, <1>4 DEF Placed
  <2>2. s \in 0..(capacity - 1) /\ All[i].source \in DOMAIN RootCap
    BY <1>1, <1>2, <2>1, AllFacts, CapacityFacts DEF Populated, SpaceValid, Admissible
  <2>3. cnode[s] = Derived(All[i]) /\ RootCap[All[i].source] # NoCap
    BY <1>2, <2>1 DEF Populated
  <2>4. RootCap[All[i].source].object # Null
    BY <2>2, <2>3, CSpaceAssumption, Zenon
  <2>5. Derived(All[i]).object # Null /\ NoCap.object = Null
    BY <2>4 DEF Derived, NoCap
  <2> QED
    BY <1>2, <2>2, <2>3, <2>5 DEF Populated
<1>5. ASSUME ~Placed(s), s \in DOMAIN cnode PROVE cnode[s] = NoCap
  BY <1>2, <1>5 DEF Populated
<1> QED
  BY <1>3, <1>4, <1>5

(* Each variable ranges over the values of its type. *)
LEMMA Typed ==
    ASSUME IInv
    PROVE  TypeOK
<1>1. config \in Config /\ space \in Space
  BY ConfigsKnown DEF IInv
<1>2. [layout |-> config, space |-> space] \in TaskConfig
  BY DEF IInv, ConfigInv
<1>3. /\ outcome \in Outcome /\ result \in Result
      /\ level \in 1..(Len(SpanBits) + 1) /\ index \in 1..Len(AllPages(config))
      /\ step \in {"validate", "allocate", "tracker", "install", "returned"}
      /\ next \in 0..Len(All)
  BY DEF IInv, LayoutInv, SpaceInv
<1>4. tables \subseteq (1..Len(SpanBits)) \X (0..(2^Width - 1))
  <2> SUFFICES ASSUME NEW t \in tables
               PROVE  t \in (1..Len(SpanBits)) \X (0..(2^Width - 1))
    OBVIOUS
  <2>1. PICK l \in 1..Len(SpanBits), i \in 1..Len(AllPages(config)) : t = TableOf(l, i)
    BY DEF IInv, LayoutInv
  <2>2. WellFormedLayout(config)
    BY DEF IInv, LayoutInv, Passed
  <2>3. PICK a \in Nat : a = AllPages(config)[i]
    BY <1>1, ConfigFacts
  <2>4. PICK W \in Nat \ {0} : W = 2^Width
    BY PowerPositive, LayoutAssumption
  <2>5. PICK size \in Nat : size = config.page_size
    BY <1>1, ConfigFacts
  <2>6. a + size \in 0..(W - 1)
    BY <2>2, <2>3, <2>4, <2>5, Zenon DEF WellFormedLayout
  <2>7. SpanBits[l] \in Nat
    <3>1. SpanBits \in Seq(0..(Width - 1)) /\ Width \in Nat
      BY LayoutAssumption, Zenon
    <3>2. SpanBits[l] \in 0..(Width - 1)
      BY <3>1, ElementOfSeq, Zenon
    <3> QED
      BY <3>1, <3>2
  <2>8. a \div 2^SpanBits[l] \in 0..a
    BY <2>7, PowerPositive, DivFacts, Zenon
  <2>9. a \div 2^SpanBits[l] \in 0..(W - 1)
    BY <2>5, <2>6, <2>8
  <2>10. t = <<l, a \div 2^SpanBits[l]>>
    BY <2>1, <2>3 DEF TableOf, TableBase
  <2> QED
    BY <2>4, <2>9, <2>10
<1>5. DOMAIN cnode \in {1..0, 0..(capacity - 1)} /\ DOMAIN states \in {1..0, 0..(MaxSlots - 1)}
  <2>1. DOMAIN <<>> = 1..0
    OBVIOUS
  <2>2. \/ cnode = <<>>
        \/ cnode = [r \in 0..(capacity - 1) |-> NoCap]
        \/ DOMAIN cnode = 0..(capacity - 1)
    BY DEF IInv, SpaceInv, Result, Populated
  <2>3. states = <<>> \/ DOMAIN states = 0..(MaxSlots - 1)
    BY DEF IInv, SpaceInv, Result, Populated
  <2> QED
    BY <2>1, <2>2, <2>3
<1> QED
  BY <1>2, <1>3, <1>4, <1>5 DEF TypeOK

(* Nothing is built for a configuration that is not well formed, and what   *)
(* is built is what the configuration delegates, with a tracker that agrees *)
(* with the CNode.                                                          *)
THEOREM ConstructionSafe == Spec => []ConstructionInv
<1>1. IInv => BuiltOnlyWhenValid
  <2> SUFFICES ASSUME IInv PROVE BuiltOnlyWhenValid
    OBVIOUS
  <2>1. space \in Space
    BY ConfigsKnown DEF IInv
  <2>2. cnode # <<>> => WellFormedLayout(config)
    BY DEF IInv, LayoutInv, SpaceInv, Passed
  <2>3. tables # {} => WellFormedSpace /\ next = Len(All)
    BY <2>1, WellFormedIs DEF IInv, LayoutInv, SpaceInv, Populated
  <2> QED
    BY <2>2, <2>3 DEF BuiltOnlyWhenValid
<1>2. IInv => ConstructionInv
  BY <1>1, Typed, Delegated, Tracked DEF ConstructionInv
<1> QED
  BY <1>2, Invariant, PTL

(* The fault endpoint of a created task finds, through the guard of its     *)
(* CSpace, the badged endpoint of its own route, for any word and CNode     *)
(* size.                                                                    *)
THEOREM FaultsDelivered == Spec => []FaultsReachRoute
<1>1. ASSUME IInv, result = "Ok", space.route # <<>>
      PROVE  LET c == Lookup(fault_endpoint) IN
             /\ c.object = RootCap[space.route[1].source].object
             /\ c.badge = space.route[1].badge
             /\ c.rights = space.route[1].rights
  <2>1. space \in Space
    BY <1>1, ConfigsKnown DEF IInv
  <2>2. Populated /\ next = Len(All)
    BY <1>1 DEF IInv, SpaceInv
  <2>3. /\ Len(All) \in Nat /\ Len(All) >= 1 /\ All[Len(All)] = space.route[1]
        /\ FaultRoute(space.route[1])
    BY <1>1, <2>1, AllFacts
  <2>4. PICK r \in DelegatedCapability : r = space.route[1]
    BY <2>3, Zenon DEF FaultRoute
  <2>5. r = All[Len(All)] /\ r.badge # 0 /\ r.rights = {"write", "grant"}
    BY <2>3, <2>4, Zenon DEF FaultRoute
  <2>6. Len(All) \in 1..next /\ Len(All) \in 1..Len(All)
    BY <2>2, <2>3
  <2>7. /\ r.destination \in 0..(capacity - 1)
        /\ r.source # Null
    BY <2>1, <2>2, <2>5, <2>6, AllFacts, CapacityFacts DEF Populated, SpaceValid, Admissible
  <2>8. cnode[r.destination] = Derived(r) /\ RootCap[r.source] # NoCap
    BY <2>2, <2>5, <2>6 DEF Populated
  <2>9. Lookup(fault_endpoint) = cnode[r.destination]
    <3>1. fault_endpoint = r.destination
      BY <1>1, <2>4 DEF fault_endpoint
    <3>2. capacity \in Nat \ {0} /\ r.destination \in Nat /\ r.destination < capacity
      BY <2>1, <2>7, CapacityFacts
    <3>3. r.destination \div capacity = 0 /\ r.destination % capacity = r.destination
      BY <3>2, DivFacts
    <3>4. guard_size + space.size = WordSize
      <4>1. space \in [size : Nat, grants : Seq(DelegatedCapability),
                       route : Seq(DelegatedCapability)]
        BY <2>1, CSpaceAssumption, Zenon
      <4>2. space.size \in Nat
        BY <4>1
      <4>3. WordSize \in Nat
        BY CSpaceAssumption, Zenon
      <4> QED
        BY <4>2, <4>3 DEF guard_size
    <3> QED
      BY <3>1, <3>3, <3>4, Zenon DEF Lookup, capacity
  <2>10. RootCap[r.source].rights = Rights
    <3>1. 1 \in 1..Len(space.route)
      <4>1. space.route \in Seq(DelegatedCapability)
        BY <2>1, CSpaceAssumption
      <4>2. Len(space.route) \in Nat \ {0}
        BY <1>1, <4>1, EmptySeq, Zenon
      <4>3. \A n \in Nat \ {0} : 1 \in 1..n
        OBVIOUS
      <4> QED
        BY <4>2, <4>3, Zenon
    <3> QED
      BY <2>1, <2>4, <2>7, <2>8, <3>1, CSpaceAssumption, Zenon
  <2>11. /\ Derived(r).object = RootCap[r.source].object
         /\ Derived(r).badge = r.badge
         /\ Derived(r).rights = r.rights
    BY <2>5, <2>10 DEF Derived, Rights
  <2> QED
    BY <2>4, <2>8, <2>9, <2>11, Zenon
<1>2. IInv => FaultsReachRoute
  BY <1>1 DEF FaultsReachRoute
<1> QED
  BY <1>2, Invariant, PTL

=============================================================================
