--------------------------- MODULE OutboundProofs ---------------------------
(***************************************************************************)
(* Proofs about the root as a sender and about its reply pool: only a call *)
(* after a receive with a slot fills that slot behind the tracker, the     *)
(* bits of the pool's word are the slots in use or lost, and the word      *)
(* implements the set of slots of module ReplySlots, for a word of any     *)
(* width and any pool that fits it.                                        *)
(***************************************************************************)
EXTENDS Outbound, WellFoundedInduction, TLAPS

-----------------------------------------------------------------------------
(* The inductive invariant                                                  *)

(* No bit beyond the pool is ever set. *)
PoolInv ==
    /\ PoolTypeOK
    /\ BitsAreHandles
    /\ occupied \subseteq 0..(len - 1)

(* The receive path is that of the last receive, exposed while the root     *)
(* waits for the reply to a call, and one server at most owes it that       *)
(* reply.                                                                   *)
CallInv ==
    /\ path = given
    /\ root \in {"calling", "awaiting"} => path = 0 \/ path \in exposed
    /\ \A v \in Server : server[v] = "serving" => root = "awaiting"
    /\ \A v, w \in Server : server[v] = "serving" /\ server[w] = "serving" => v = w

(* The slot of a live ReceiveSlot is not recorded as filled. *)
ReservationInv == reservation # 0 => tracker[reservation] = "reserved"

-----------------------------------------------------------------------------
(* Bits of a word                                                           *)

(* trailing_zeros finds the lowest bit that is set. *)
LEMMA LowestBit ==
  ASSUME NEW w \in SUBSET Nat, w # {}
  PROVE  trailing_zeros(w) \in w /\ \A j \in w : trailing_zeros(w) <= j
<1> DEFINE R == {ss \in Nat \X Nat : ss[1] < ss[2]}
<1>1. IsWellFoundedOn(R, Nat)
  BY NatLessThanWellFounded, Zenon DEF OpToRel
<1> HIDE DEF R
<1>2. PICK i \in w : \A j \in w : ~(<<j, i>> \in R)
  BY <1>1, WFMin
<1>3. ASSUME NEW j \in w
      PROVE  i <= j
  <2>1. i \in Nat /\ j \in Nat
    OBVIOUS
  <2>2. ~(j < i)
    BY <1>2, <2>1 DEF R
  <2> QED
    BY <2>1, <2>2
<1> QED
  BY <1>3 DEF trailing_zeros

(* The mask of a pool: one bit for each of its slots, all of them for a    *)
(* pool as large as the word.                                              *)
LEMMA LowBits ==
  ASSUME NEW n \in Capacity
  PROVE  low_bits(n) = 0..(n - 1)
<1>1. n \in 1..Width /\ Width \in Nat
  BY PoolAssumption
<1>2. CASE n = Width
  BY <1>2 DEF low_bits, Bit
<1>3. CASE n # Width
  <2>1. n % Width = n
    BY <1>1, <1>3
  <2>2. Shl(n) = {n}
    BY <2>1 DEF Shl
  <2>3. trailing_zeros({n}) = n
    BY <1>1, LowestBit
  <2>4. Decrement({n}) = 0..(n - 1)
    BY <2>3 DEF Decrement
  <2> QED
    BY <1>3, <2>2, <2>4 DEF low_bits
<1> QED
  BY <1>2, <1>3

(* A shift by a bit of the word gives the word with that bit. *)
LEMMA OneBit ==
  ASSUME NEW i \in Bit
  PROVE  Shl(i) = {i}
<1>1. i % Width = i
  BY PoolAssumption DEF Bit
<1> QED
  BY <1>1 DEF Shl

-----------------------------------------------------------------------------
(* The reply pool                                                           *)

(* What the inductive invariant says of bits and slots. *)
LEMMA PoolFacts ==
  ASSUME PoolInv
  PROVE  /\ len \in Capacity /\ len \in Nat /\ len <= Width /\ Width \in Nat /\ Start \in Nat
         /\ occupied \subseteq Bit /\ occupied \subseteq Nat
         /\ live \subseteq Start..(Start + len - 1)
         /\ lost \subseteq Start..(Start + len - 1)
         /\ reserved # None => reserved \in Start..(Start + len - 1)
         /\ \A i \in Nat : Start + i \in Held <=> i \in occupied
BY PoolAssumption DEF PoolInv, PoolTypeOK, Word, Bit, Held

LEMMA ReserveStep ==
  ASSUME PoolInv, Reserve
  PROVE  PoolInv' /\ Abstract!Next
<1> DEFINE available == Complement(occupied) \cap low_bits(len)
           i == trailing_zeros(available)
           s == Start + i
<1>1. low_bits(len) = 0..(len - 1)
  BY LowBits, PoolFacts
<1>2. available = 0..(len - 1) \ occupied
  BY <1>1, PoolFacts DEF Complement, Bit
<1>3. CASE available = {}
  <2>1. UNCHANGED <<len, live, occupied, reserved, lost>> /\ granted' = None
    BY <1>3 DEF Reserve
  <2>2. PoolInv'
    BY <2>1 DEF PoolInv, PoolTypeOK, BitsAreHandles, Held
  <2>3. occupied = 0..(len - 1)
    BY <1>2, <1>3 DEF PoolInv
  <2>4. Held = Start..(Start + len - 1)
    <3>1. ASSUME NEW x \in Start..(Start + len - 1)
          PROVE  x \in Held
      <4>1. x - Start \in 0..(len - 1) /\ Start + (x - Start) = x
        BY PoolFacts
      <4> QED
        BY <2>3, <4>1 DEF Held
    <3>2. ASSUME NEW x \in Held
          PROVE  x \in Start..(Start + len - 1)
      BY <2>3, PoolFacts DEF Held
    <3> QED
      BY <3>1, <3>2
  <2>5. Abstract!Refuse
    BY <2>1, <2>4 DEF Abstract!Refuse, Held
  <2> QED
    BY <2>2, <2>5 DEF Abstract!Next
<1>4. CASE available # {}
  <2>1. i \in 0..(len - 1) /\ i \notin occupied
    <3>1. available \in SUBSET Nat
      BY <1>2
    <3>2. i \in available
      BY <1>4, <3>1, LowestBit
    <3> QED
      BY <1>2, <3>2
  <2>2. /\ reserved = None /\ reserved' = s /\ granted' = s
        /\ occupied' = occupied \cup Shl(i) /\ UNCHANGED <<len, live, lost>>
    BY <1>4 DEF Reserve
  <2> HIDE DEF i
  <2>3. i \in Bit /\ i \in Nat
    BY <2>1, PoolFacts DEF Bit
  <2>4. occupied' = occupied \cup {i}
    BY <2>2, <2>3, OneBit
  <2>5. Held' = Held \cup {s}
    BY <2>3, <2>4, PoolFacts DEF Held
  <2>6. s \in Start..(Start + len - 1) /\ s # None /\ s \notin Held
    BY <2>1, <2>3, PoolFacts, PoolAssumption
  <2> HIDE DEF s
  <2>7. Held = live \cup lost
    BY <2>2 DEF PoolInv, BitsAreHandles
  <2>8. BitsAreHandles'
    BY <2>2, <2>5, <2>6, <2>7 DEF PoolInv, BitsAreHandles
  <2>9. PoolInv'
    BY <2>1, <2>2, <2>3, <2>4, <2>6, <2>8 DEF PoolInv, PoolTypeOK, Word
  <2>10. Abstract!Reserve(s)
    BY <2>2, <2>5, <2>6 DEF Abstract!Reserve
  <2> QED
    BY <2>6, <2>9, <2>10 DEF Abstract!Next
<1> QED
  BY <1>3, <1>4

(* release of a slot of the pool clears its bit and no other. *)
LEMMA ReleaseStep ==
  ASSUME PoolInv, NEW slot \in Start..(Start + len - 1), Release(slot)
  PROVE  occupied' \subseteq occupied /\ Held' = Held \ {slot}
<1> DEFINE i == slot - Start
<1>1. i \in Nat /\ i \in Bit /\ slot >= Start /\ i < len /\ slot = Start + i
  BY PoolFacts DEF Bit
<1>2. occupied' = occupied \cap Complement(Shl(i))
  BY <1>1 DEF Release
<1>3. occupied' = occupied \ {i}
  BY <1>1, <1>2, OneBit, PoolFacts DEF Complement
<1> HIDE DEF i
<1>4. ASSUME NEW x
      PROVE  x \in Held' <=> x \in Held \ {slot}
  <2>1. x \in Held' <=> \E j \in occupied : j # i /\ x = Start + j
    BY <1>3 DEF Held
  <2>2. x \in Held <=> \E j \in occupied : x = Start + j
    BY DEF Held
  <2>3. \A j \in occupied : Start + j = slot <=> j = i
    BY <1>1, PoolFacts
  <2> QED
    BY <2>1, <2>2, <2>3
<1> QED
  BY <1>3, <1>4

LEMMA SavedStep ==
  ASSUME PoolInv, Saved
  PROVE  PoolInv' /\ UNCHANGED Abstract!vars
<1>1. /\ reserved # None /\ live' = live \cup {reserved} /\ reserved' = None
      /\ UNCHANGED <<len, occupied, granted, lost>>
  BY DEF Saved
<1>2. reserved \in Start..(Start + len - 1) /\ None \notin live' \cup lost
  BY <1>1, PoolFacts, PoolAssumption
<1>3. Held' = Held /\ UNCHANGED Abstract!vars
  BY <1>1 DEF Held, Abstract!vars
<1>4. BitsAreHandles'
  BY <1>1, <1>2, <1>3 DEF PoolInv, BitsAreHandles
<1> QED
  BY <1>1, <1>2, <1>3, <1>4 DEF PoolInv, PoolTypeOK

LEMMA SaveCallerFailsStep ==
  ASSUME PoolInv, SaveCallerFails
  PROVE  PoolInv' /\ Abstract!Next
<1>1. /\ reserved # None /\ Release(reserved) /\ reserved' = None
      /\ UNCHANGED <<len, live, granted, lost>>
  BY DEF SaveCallerFails
<1>2. reserved \in Start..(Start + len - 1) /\ None \notin live \cup lost
  BY <1>1, PoolFacts, PoolAssumption
<1>3. occupied' \subseteq occupied /\ Held' = Held \ {reserved}
  BY <1>1, <1>2, ReleaseStep
<1>4. reserved \in Held /\ BitsAreHandles'
  BY <1>1, <1>2, <1>3 DEF PoolInv, BitsAreHandles
<1>5. PoolInv'
  BY <1>1, <1>2, <1>3, <1>4 DEF PoolInv, PoolTypeOK, Word
<1>6. Abstract!Release(reserved)
  BY <1>1, <1>3, <1>4 DEF Abstract!Release
<1> QED
  BY <1>2, <1>5, <1>6 DEF Abstract!Next

LEMMA ConsumeStep ==
  ASSUME PoolInv, NEW slot, Consume(slot)
  PROVE  PoolInv' /\ Abstract!Next
<1>1. /\ reserved = None /\ slot \in live /\ live' = live \ {slot} /\ Release(slot)
      /\ UNCHANGED <<len, reserved, granted, lost>>
  BY DEF Consume
<1>2. slot \in Start..(Start + len - 1)
  BY <1>1, PoolFacts
<1>3. occupied' \subseteq occupied /\ Held' = Held \ {slot}
  BY <1>1, <1>2, ReleaseStep
<1>4. slot \in Held /\ BitsAreHandles'
  BY <1>1, <1>3 DEF PoolInv, BitsAreHandles
<1>5. PoolInv'
  BY <1>1, <1>3, <1>4 DEF PoolInv, PoolTypeOK, Word
<1>6. Abstract!Release(slot)
  BY <1>1, <1>3, <1>4 DEF Abstract!Release
<1> QED
  BY <1>2, <1>5, <1>6 DEF Abstract!Next

(* A handle that ends without a release leaves the set of slots alone. *)
LEMMA AbandonStep ==
  ASSUME PoolInv, NEW slot, Abandon(slot)
  PROVE  PoolInv' /\ UNCHANGED Abstract!vars
<1>1. /\ slot \in live /\ live' = live \ {slot} /\ lost' = lost \cup {slot}
      /\ UNCHANGED <<len, occupied, reserved, granted>>
  BY DEF Abandon
<1>2. Held' = Held /\ UNCHANGED Abstract!vars
  BY <1>1 DEF Held, Abstract!vars
<1>3. BitsAreHandles'
  BY <1>1, <1>2 DEF PoolInv, BitsAreHandles
<1> QED
  BY <1>1, <1>2, <1>3 DEF PoolInv, PoolTypeOK

LEMMA PoolUnchanged ==
  ASSUME PoolInv, UNCHANGED poolVars
  PROVE  PoolInv' /\ UNCHANGED Abstract!vars
BY DEF poolVars, PoolInv, PoolTypeOK, BitsAreHandles, Held, Abstract!vars

(* Every step of the root and of its servers is a step of the set of slots, *)
(* or changes nothing of it.                                                *)
LEMMA PoolStep ==
  ASSUME PoolInv, [Next]_vars
  PROVE  PoolInv' /\ [Abstract!Next]_(Abstract!vars)
<1>1. ASSUME UNCHANGED poolVars
      PROVE  PoolInv' /\ [Abstract!Next]_(Abstract!vars)
  BY <1>1, PoolUnchanged
<1>2. ASSUME Defer
      PROVE  PoolInv' /\ [Abstract!Next]_(Abstract!vars)
  BY <1>2, ReserveStep, SavedStep, SaveCallerFailsStep DEF Defer
<1>3. ASSUME NEW slot \in live, NEW n \in SendCaps, DeferredReply(slot, n)
      PROVE  PoolInv' /\ [Abstract!Next]_(Abstract!vars)
  BY <1>1, <1>3, ConsumeStep DEF DeferredReply
<1>4. ASSUME NEW slot \in live, Discard(slot)
      PROVE  PoolInv' /\ [Abstract!Next]_(Abstract!vars)
  BY <1>4, ConsumeStep DEF Discard
<1>11. ASSUME NEW slot \in live, DiscardFails(slot) \/ DropDeferred(slot)
       PROVE  PoolInv' /\ [Abstract!Next]_(Abstract!vars)
  BY <1>11, AbandonStep DEF DiscardFails, DropDeferred
<1>5. ASSUME NEW s \in Slot, ReserveReceiveSlot(s)
      PROVE  UNCHANGED poolVars
  BY <1>5 DEF ReserveReceiveSlot
<1>6. ASSUME NEW t \in BOOLEAN, Receive(t)
      PROVE  UNCHANGED poolVars
  BY <1>6 DEF Receive
<1>7. ASSUME ReceiveNone
      PROVE  UNCHANGED poolVars
  BY <1>7 DEF ReceiveNone
<1>8. ASSUME NEW n \in SendCaps, Send(n) \/ TrySend(n) \/ Call(n)
      PROVE  UNCHANGED poolVars
  BY <1>8 DEF Send, TrySend, Call
<1>9. ASSUME NEW v \in Server, ServerStep(v) \/ ServerLeaves(v)
      PROVE  UNCHANGED poolVars
  BY <1>9 DEF ServerStep, ServerLeaves, ServerReceive, Rendezvous, ServerReply
<1>10. ASSUME UNCHANGED vars
       PROVE  UNCHANGED poolVars
  BY <1>10 DEF vars
<1> QED
  BY <1>1, <1>2, <1>3, <1>4, <1>5, <1>6, <1>7, <1>8, <1>9, <1>10, <1>11 DEF Next

LEMMA PoolInitially ==
  ASSUME PoolInit
  PROVE  PoolInv /\ Abstract!Init
<1>1. occupied = {} /\ live = {} /\ reserved = None /\ granted = Unasked /\ len \in Capacity
      /\ lost = {}
  BY DEF PoolInit
<1>2. Held = {}
  BY <1>1 DEF Held
<1> QED
  BY <1>1, <1>2 DEF PoolInv, PoolTypeOK, BitsAreHandles, Word, Abstract!Init

-----------------------------------------------------------------------------
(* The root as a sender                                                     *)

(* The state of the root, its servers and the receive slots; the pool's     *)
(* part of the invariant follows from PoolStep.                             *)
SenderInv ==
    /\ root \in {"running", "sending", "calling", "awaiting", "panicked"}
    /\ server \in [Server -> {"ready", "busy", "serving"}]
    /\ path \in Slot \cup {0} /\ given \in Slot \cup {0}
    /\ reservation \in Slot \cup {0}
    /\ tracker \in [Slot -> {"free", "reserved", "occupied"}]
    /\ cnode \subseteq Slot /\ exposed \subseteq Slot
    /\ FilledOnlyByCalls /\ CallInv /\ ReservationInv

LEMMA SenderInitially == Init => SenderInv
<1> SUFFICES ASSUME Init
             PROVE  SenderInv
  OBVIOUS
<1>1. tracker \in [Slot -> {"free", "reserved", "occupied"}] /\ FilledOnlyByCalls
  BY DEF Init, FilledOnlyByCalls
<1>2. CallInv /\ ReservationInv
  BY DEF Init, CallInv, ReservationInv
<1> QED
  BY <1>1, <1>2 DEF Init, SenderInv

LEMMA ReserveReceiveSlotSender ==
  ASSUME SenderInv, NEW s \in Slot, ReserveReceiveSlot(s)
  PROVE  SenderInv'
<1>1. /\ tracker' = [tracker EXCEPT ![s] = "reserved"] /\ reservation' = s
      /\ tracker[s] = "free"
      /\ UNCHANGED <<root, server, path, given, exposed, cnode>>
  BY DEF ReserveReceiveSlot
<1>2. tracker' \in [Slot -> {"free", "reserved", "occupied"}] /\ tracker'[s] = "reserved"
  BY <1>1 DEF SenderInv
<1>3. FilledOnlyByCalls'
  BY <1>1 DEF SenderInv, FilledOnlyByCalls
<1>4. CallInv' /\ ReservationInv'
  BY <1>1, <1>2 DEF SenderInv, CallInv, ReservationInv
<1> QED
  BY <1>1, <1>2, <1>3, <1>4 DEF SenderInv

LEMMA ReceiveSender ==
  ASSUME SenderInv, NEW t \in BOOLEAN, Receive(t)
  PROVE  SenderInv'
<1>1. /\ root = "running" /\ reservation # 0 /\ reservation \in Slot
      /\ t => reservation \notin cnode
      /\ path' = reservation /\ given' = reservation /\ reservation' = 0
      /\ cnode' = IF t /\ reservation # 0 THEN cnode \cup {reservation} ELSE cnode
      /\ tracker' = [tracker EXCEPT ![reservation] = IF t THEN "occupied" ELSE "free"]
      /\ UNCHANGED <<root, server, exposed>>
  BY DEF Receive, RootRuns, ConfigureReceivePath, Transfer, SenderInv
<1>2. tracker[reservation] = "reserved" /\ (reservation \in cnode => reservation \in exposed)
  BY <1>1 DEF SenderInv, ReservationInv, FilledOnlyByCalls
<1>3. CASE t
  BY <1>1, <1>2, <1>3 DEF SenderInv, FilledOnlyByCalls, CallInv, ReservationInv
<1>4. CASE ~t
  BY <1>1, <1>2, <1>4 DEF SenderInv, FilledOnlyByCalls, CallInv, ReservationInv
<1> QED
  BY <1>3, <1>4

LEMMA SendSender ==
  ASSUME SenderInv, NEW n, Send(n) \/ TrySend(n) \/ Call(n)
  PROVE  SenderInv'
<1>1. /\ root = "running"
      /\ UNCHANGED <<path, given, reservation, tracker, cnode>>
      /\ \A v \in Server : server[v] # "serving"
  BY DEF Send, TrySend, Call, Prepare, RootRuns, slotVars, SenderInv, CallInv
<1>3. CASE Send(n)
  BY <1>1, <1>3 DEF Send, Prepare, slotVars, SenderInv, FilledOnlyByCalls, CallInv, ReservationInv
<1>4. CASE Call(n)
  BY <1>1, <1>4 DEF Call, Prepare, slotVars, SenderInv, FilledOnlyByCalls, CallInv, ReservationInv
<1>5. CASE TrySend(n)
  <2>1. root' \in {"panicked", "running"} /\ exposed' = exposed
    BY <1>5 DEF TrySend, Prepare, slotVars
  <2>2. /\ server' \in [Server -> {"ready", "busy", "serving"}]
        /\ \A v \in Server : server'[v] # "serving"
    BY <1>1, <1>5 DEF TrySend, SenderInv
  <2> QED
    BY <1>1, <2>1, <2>2 DEF slotVars, SenderInv, FilledOnlyByCalls, CallInv, ReservationInv
<1> QED
  BY <1>3, <1>4, <1>5

LEMMA ServerSender ==
  ASSUME SenderInv, NEW v \in Server, ServerStep(v) \/ ServerLeaves(v)
  PROVE  SenderInv'
<1>1. ASSUME ServerReceive(v) \/ ServerLeaves(v)
      PROVE  SenderInv'
  BY <1>1 DEF ServerReceive, ServerLeaves, slotVars, SenderInv, FilledOnlyByCalls, CallInv, ReservationInv
<1>2. ASSUME Rendezvous(v), root = "sending"
      PROVE  SenderInv'
  BY <1>2 DEF Rendezvous, slotVars, SenderInv, FilledOnlyByCalls, CallInv, ReservationInv
<1>3. ASSUME Rendezvous(v), root = "calling"
      PROVE  SenderInv'
  BY <1>3 DEF Rendezvous, slotVars, SenderInv, FilledOnlyByCalls, CallInv, ReservationInv
<1>4. ASSUME NEW n \in ReplyCaps, ServerReply(v, n)
      PROVE  SenderInv'
  <2>1. /\ root = "awaiting" /\ (path = 0 \/ path \in exposed)
        /\ \A w \in Server : w # v => server[w] # "serving"
    BY <1>4 DEF ServerReply, SenderInv, CallInv
  <2>2. cnode' \subseteq Slot /\ \A s \in cnode' : s \in cnode \/ s \in exposed
    BY <1>4, <2>1 DEF ServerReply, Transfer, SenderInv
  <2> QED
    BY <1>4, <2>1, <2>2 DEF ServerReply, SenderInv, FilledOnlyByCalls, CallInv, ReservationInv
<1> QED
  BY <1>1, <1>2, <1>3, <1>4 DEF ServerStep, Rendezvous

LEMMA SenderStep ==
  ASSUME SenderInv, [Next]_vars
  PROVE  SenderInv'
<1>1. ASSUME ReceiveNone
      PROVE  SenderInv'
  BY <1>1 DEF ReceiveNone, RootRuns, ConfigureReceivePath, SenderInv, FilledOnlyByCalls, CallInv,
              ReservationInv
<1>2. ASSUME UNCHANGED <<root, server, slotVars>>
      PROVE  SenderInv'
  BY <1>2 DEF slotVars, SenderInv, FilledOnlyByCalls, CallInv, ReservationInv
<1>3. ASSUME NEW slot \in live, NEW n \in SendCaps, DeferredReply(slot, n)
      PROVE  SenderInv'
  BY <1>3 DEF DeferredReply, Prepare, RootRuns, slotVars, SenderInv, FilledOnlyByCalls, CallInv,
              ReservationInv
<1>4. ASSUME Defer \/ \E slot \in live : Discard(slot) \/ DiscardFails(slot) \/ DropDeferred(slot)
      PROVE  SenderInv'
  BY <1>2, <1>4 DEF Defer, Discard, DiscardFails, DropDeferred
<1>5. ASSUME UNCHANGED vars
      PROVE  SenderInv'
  BY <1>2, <1>5 DEF vars
<1> QED
  BY <1>1, <1>3, <1>4, <1>5, ReserveReceiveSlotSender, ReceiveSender, SendSender, ServerSender
     DEF Next

-----------------------------------------------------------------------------
(* The theorems                                                             *)

(* The bits set in the word of a reply pool are, at every step of defer,    *)
(* reply, discard and drop, the slots of the live DeferredReply handles, of *)
(* the defer in progress and of the handles that ended without a release,   *)
(* each slot in one of these roles: for a word of any width and every pool  *)
(* that fits.                                                               *)
THEOREM BitsAreSlots == Spec => []BitsAreHandles
<1>1. Init => PoolInv
  BY PoolInitially DEF Init
<1>2. PoolInv /\ [Next]_vars => PoolInv'
  BY PoolStep
<1>3. PoolInv => BitsAreHandles
  BY DEF PoolInv
<1> QED
  BY <1>1, <1>2, <1>3, PTL DEF Spec

(* ReplyPool::reserve and release implement the set of slots: a slot is     *)
(* granted to one handle at a time, and reserve refuses only when every     *)
(* slot is held, the pool as wide as the word included.                     *)
THEOREM PoolImplemented == Spec => ImplementsSlots
<1>1. Init => PoolInv /\ Abstract!Init
  BY PoolInitially DEF Init
<1>2. PoolInv /\ [Next]_vars => PoolInv' /\ [Abstract!Next]_(Abstract!vars)
  BY PoolStep
<1> QED
  BY <1>1, <1>2, PTL DEF Spec, ImplementsSlots, Abstract!Spec

(* In whatever order the root receives, sends, calls and gets replies, a    *)
(* child's slot is filled behind the SlotTracker only if a receive with     *)
(* that slot was followed by a call with no receive in between.             *)
THEOREM TrackerTrue == Spec => []OutboundInv
<1>1. Init => PoolInv /\ SenderInv
  BY PoolInitially, SenderInitially DEF Init
<1>2. PoolInv /\ SenderInv /\ [Next]_vars => (PoolInv /\ SenderInv)'
  BY PoolStep, SenderStep
<1>3. PoolInv /\ SenderInv => OutboundInv
  BY DEF PoolInv, SenderInv, OutboundInv, TypeOK
<1> QED
  BY <1>1, <1>2, <1>3, PTL DEF Spec

=============================================================================
