----------------------------- MODULE IpcProofs -----------------------------
(***************************************************************************)
(* Proofs about Ipc, for any clients, endpoints, pool and CSpace sizes.    *)
(***************************************************************************)
EXTENDS IpcService, TLAPS

(* The destination slots.  At most one of the two handles on a slot exists. *)
SlotInv ==
    /\ FreeSlotsAreEmpty
    /\ DestinationReady
    /\ armed = 0 \/ reservation = 0
    /\ waiting = None => armed = 0

(* Who is queued where; calls are numbered from 1. *)
QueueInv ==
    \A c \in Client :
        /\ target[c] # None <=> phase[c] \in {"calling", "sending"}
        /\ phase[c] = "calling" => calls[c] # 0

(* Request numbers of live handles never run ahead of the client. *)
Older(m) ==
    /\ m.n <= calls[m.src]
    /\ phase[m.src] = "calling" => m.n < calls[m.src]

HistoryInv ==
    /\ \A e \in Endpoint : held[e] # NoMsg => Older(held[e])
    /\ \A o \in Offset : deferred[o] # NoMsg => Older(deferred[o])

(* Reply capabilities in the kernel name blocked clients, each client once. *)
KernelInv ==
    /\ caller # None => phase[caller] = "awaiting"
    /\ \A o \in Offset : saved[o] # None => phase[saved[o]] = "awaiting" /\ saved[o] # caller
    /\ \A o, p \in Offset : saved[o] # None /\ saved[o] = saved[p] => o = p

(* One message at a time, none while blocked, its flag set. *)
HeldInv ==
    /\ \A e \in Endpoint : held[e] # NoMsg => pending[e]
    /\ \A e, f \in Endpoint : held[e] # NoMsg /\ held[f] # NoMsg => e = f
    /\ waiting # None => caller = None /\ \A e \in Endpoint : held[e] = NoMsg

AuthorityInv ==
    /\ HeldHoldsAuthority
    /\ DeferredHoldsAuthority
    /\ ReleasedSlotsEmpty
    /\ NoCallerLost

(* The root holds one message at a time, or has only one endpoint. *)
Sequential == ~Overlap \/ \A e, f \in Endpoint : e = f

AuthInv == QueueInv /\ HistoryInv /\ KernelInv /\ HeldInv /\ AuthorityInv

IInv == TypeOK /\ SlotInv /\ AuthInv

-----------------------------------------------------------------------------
(* What Deliver assigns, whatever the outcome of the receive. *)
LEMMA DeliverType ==
    ASSUME TypeOK, NEW e \in Endpoint, NEW s \in Slot \cup {0}, NEW c \in Client,
           NEW info \in Info, NEW out, Deliver(e, s, c, info, out)
    PROVE  /\ phase' \in [Client -> Phase]
           /\ target' \in [Client -> Endpoint \cup {None}]
           /\ calls' \in [Client -> 0..MaxCalls]
           /\ pending' \in [Endpoint -> BOOLEAN]
           /\ held' \in [Endpoint -> Request \cup {NoMsg}]
           /\ caller' \in Client \cup {None}
           /\ saved' \in [Offset -> Client \cup {None}]
           /\ occupied' \in SUBSET Offset
           /\ deferred' \in [Offset -> Request \cup {NoMsg}]
           /\ tracker' \in [Index -> {FREE, RESERVED, OCCUPIED}]
           /\ cnode' \in [Slot -> BOOLEAN]
           /\ abandoned' \in SUBSET Request
<1> USE IpcAssumption DEF TypeOK, Deliver
<1>1. phase' \in [Client -> Phase] /\ target' \in [Client -> Endpoint \cup {None}]
  BY DEF Phase
<1>2. pending' \in [Endpoint -> BOOLEAN]
  <2> DEFINE b == out \in {"accepted", "refused"}
  <2>1. b \in BOOLEAN
    OBVIOUS
  <2>2. pending' = [pending EXCEPT ![e] = b]
    BY Zenon
  <2> HIDE DEF b
  <2> QED
    BY <2>1, <2>2
<1>3. held' \in [Endpoint -> Request \cup {NoMsg}]
  <2> DEFINE m == [src |-> c, n |-> IF phase[c] = "calling" THEN calls[c] ELSE 0]
  <2>1. m \in Request
    BY DEF Request
  <2> HIDE DEF m
  <2> QED
    BY <2>1 DEF m
<1>4. tracker' \in [Index -> {FREE, RESERVED, OCCUPIED}]
  BY DEF FinishSlot
<1>5. cnode' \in [Slot -> BOOLEAN]
  OBVIOUS
<1> QED
  BY <1>1, <1>2, <1>3, <1>4, <1>5 DEF poolVars

(* Each variable keeps its type in every step. *)
LEMMA TypeStep ==
    ASSUME TypeOK, Next
    PROVE  TypeOK'
<1> USE IpcAssumption
<1>1. ASSUME NEW c \in Client, NEW e \in Endpoint,
             Call(c, e)
      PROVE  TypeOK'
  BY <1>1 DEF TypeOK, Call, Queue, clientVars, poolVars, slotVars, Request, NoMsg, Phase
<1>2. ASSUME NEW c \in Client, NEW e \in Endpoint,
             Send(c, e)
      PROVE  TypeOK'
  BY <1>2 DEF TypeOK, Send, Queue, clientVars, poolVars, slotVars, Request, NoMsg, Phase
<1>3. ASSUME NEW c \in Client,
             Suspend(c)
      PROVE  TypeOK'
  BY <1>3 DEF TypeOK, Suspend, CancelIpc, clientVars, poolVars, slotVars, Request, NoMsg, Phase
<1>4. ASSUME NEW c \in Client,
             Resume(c)
      PROVE  TypeOK'
  BY <1>4 DEF TypeOK, Resume, CancelIpc, clientVars, poolVars, slotVars, Request, NoMsg, Phase
<1>5. ASSUME NEW s \in Index,
             ReserveReceiveSlot(s)
      PROVE  TypeOK'
  BY <1>5 DEF TypeOK, ReserveReceiveSlot, Addressable, Slot, Index, clientVars, poolVars, slotVars, Request, NoMsg, Phase
<1>6. ASSUME DropReceiveSlot
      PROVE  TypeOK'
  BY <1>6 DEF TypeOK, DropReceiveSlot, clientVars, poolVars, slotVars, Request, NoMsg, Phase
<1>7. ASSUME NEW e \in Endpoint, NEW s \in Slot \cup {0},
             ReceivePending(e, s)
      PROVE  TypeOK'
  BY <1>7 DEF TypeOK, ReceivePending, Moved, clientVars, poolVars, slotVars, Request, NoMsg, Phase
<1>8. ASSUME NEW e \in Endpoint, NEW s \in Slot \cup {0},
             Receive(e, s)
      PROVE  TypeOK'
  BY <1>8 DEF TypeOK, Receive, Moved, clientVars, poolVars, slotVars, Request, NoMsg, Phase
<1>9. ASSUME NEW e \in Endpoint, NEW s \in Slot \cup {0},
             TryReceiveNothing(e, s)
      PROVE  TypeOK'
  BY <1>9 DEF TypeOK, TryReceiveNothing, Moved, FinishSlot, clientVars, poolVars, slotVars, Request, NoMsg, Phase
<1>10. ASSUME NEW e \in Endpoint, NEW s \in Slot \cup {0}, NEW c \in Client, NEW info \in Info,
             TryReceive(e, s, c, info)
      PROVE  TypeOK'
  BY <1>10, DeliverType DEF TypeOK, TryReceive, Moved
<1>11. ASSUME NEW c \in Client, NEW info \in Info,
             CompleteReceive(c, info)
      PROVE  TypeOK'
  <2>1. waiting \in Endpoint /\ armed \in Slot \cup {0}
    BY <1>11 DEF TypeOK, CompleteReceive, RootRuns
  <2> QED
    BY <1>11, <2>1, DeliverType DEF TypeOK, CompleteReceive
<1>12. ASSUME NEW e \in Endpoint,
             Reply(e)
      PROVE  TypeOK'
  BY <1>12 DEF TypeOK, Reply, Consume, KernelReply, clientVars, poolVars, slotVars, Request, NoMsg, Phase
<1>13. ASSUME NEW e \in Endpoint,
             Finish(e)
      PROVE  TypeOK'
  BY <1>13 DEF TypeOK, Finish, Consume, ClearImplicitReply, KernelReply, clientVars, poolVars, slotVars, Request, NoMsg, Phase
<1>14. ASSUME NEW e \in Endpoint,
             Defer(e)
      PROVE  TypeOK'
  BY <1>14 DEF TypeOK, Defer, Consume, clientVars, poolVars, slotVars, Request, NoMsg, Phase
<1>15. ASSUME NEW e \in Endpoint,
             DeferExhausted(e)
      PROVE  TypeOK'
  BY <1>15 DEF TypeOK, DeferExhausted, Consume, ClearImplicitReply, KernelReply, clientVars, poolVars, slotVars, Request, NoMsg, Phase
<1>16. ASSUME NEW e \in Endpoint,
             DeferRefused(e)
      PROVE  TypeOK'
  BY <1>16 DEF TypeOK, DeferRefused, Consume, ClearImplicitReply, KernelReply, clientVars, poolVars, slotVars, Request, NoMsg, Phase
<1>17. ASSUME NEW e \in Endpoint,
             DropReceived(e)
      PROVE  TypeOK'
  BY <1>17 DEF TypeOK, DropReceived, Consume, clientVars, poolVars, slotVars, Request, NoMsg, Phase
<1>18. ASSUME NEW o \in Offset,
             DeferredReply(o)
      PROVE  TypeOK'
  BY <1>18 DEF TypeOK, DeferredReply, ConsumeDeferred, clientVars, poolVars, slotVars, Request, NoMsg, Phase
<1>19. ASSUME NEW o \in Offset,
             Discard(o)
      PROVE  TypeOK'
  BY <1>19 DEF TypeOK, Discard, ConsumeDeferred, clientVars, poolVars, slotVars, Request, NoMsg, Phase
<1>20. ASSUME NEW o \in Offset,
             DiscardFails(o)
      PROVE  TypeOK'
  BY <1>20 DEF TypeOK, DiscardFails, ConsumeDeferred, clientVars, poolVars, slotVars, Request, NoMsg, Phase
<1> QED
  BY <1>1, <1>2, <1>3, <1>4, <1>5, <1>6, <1>7, <1>8, <1>9, <1>10, <1>11, <1>12, <1>13, <1>14, <1>15, <1>16, <1>17, <1>18, <1>19, <1>20
  DEF Next, ClientStep, ControlStep, SlotStep, ReceiveStep, MessageStep, DeferredStep,
      DropDeferred

(* The receive settles its own slot, consistently with the kernel, and no other. *)
LEMMA DeliverSlots ==
    ASSUME TypeOK, FreeSlotsAreEmpty, NEW e \in Endpoint, NEW s \in Slot \cup {0},
           s # 0 => tracker[s] = RESERVED /\ ~cnode[s],
           NEW c \in Client, NEW info \in Info, NEW out, Deliver(e, s, c, info, out)
    PROVE  /\ FreeSlotsAreEmpty'
           /\ \A r \in Slot \ {s} : tracker'[r] = tracker[r] /\ cnode'[r] = cnode[r]
<1> USE IpcAssumption
<1>1. info.extra \in Nat /\ info.unwrapped \in Nat
  OBVIOUS
<1>2. Slot \subseteq Index
  BY DEF Slot, Index
<1>3. CASE s = 0
  BY <1>3, <1>2 DEF Deliver, FinishSlot, FreeSlotsAreEmpty, Slot
<1>4. CASE s # 0
  <2>1. tracker' = [tracker EXCEPT ![s] = IF info.extra # 0 THEN OCCUPIED ELSE FREE]
    BY <1>4 DEF Deliver, FinishSlot, SlotRefused
  <2>2. cnode' = IF Installed(info) THEN [cnode EXCEPT ![s] = TRUE] ELSE cnode
    BY <1>4 DEF Deliver
  <2>3. s \in Slot
    BY <1>4
  <2>4. \A r \in Slot \ {s} : tracker'[r] = tracker[r] /\ cnode'[r] = cnode[r]
    BY <2>1, <2>2, <2>3, <1>2 DEF TypeOK
  <2>5. tracker'[s] = FREE => ~cnode'[s]
    BY <2>1, <2>2, <2>3, <1>1, <1>2, <1>4 DEF TypeOK, Installed, FREE, OCCUPIED
  <2> QED
    BY <2>4, <2>5 DEF FreeSlotsAreEmpty
<1> QED
  BY <1>3, <1>4

(* The slot bookkeeping is kept by every step, with no assumption on how    *)
(* the root uses its endpoints.                                             *)
LEMMA SlotStepInv ==
    ASSUME TypeOK, SlotInv, Next
    PROVE  SlotInv'
<1> USE IpcAssumption
<1> USE DEF TypeOK, SlotInv, FreeSlotsAreEmpty, DestinationReady
<1>1. ASSUME NEW c \in Client, NEW e \in Endpoint,
             Call(c, e)
      PROVE  SlotInv'
  BY <1>1 DEF Call, Queue, slotVars
<1>2. ASSUME NEW c \in Client, NEW e \in Endpoint,
             Send(c, e)
      PROVE  SlotInv'
  BY <1>2 DEF Send, Queue, slotVars
<1>3. ASSUME NEW c \in Client,
             Suspend(c)
      PROVE  SlotInv'
  BY <1>3 DEF Suspend, RootRuns, slotVars
<1>4. ASSUME NEW c \in Client,
             Resume(c)
      PROVE  SlotInv'
  BY <1>4 DEF Resume, RootRuns, slotVars
<1>5. ASSUME NEW s \in Index,
             ReserveReceiveSlot(s)
      PROVE  SlotInv'
  BY <1>5 DEF ReserveReceiveSlot, RootRuns, Addressable, Slot, Index, FREE, RESERVED, slotVars
<1>6. ASSUME DropReceiveSlot
      PROVE  SlotInv'
  BY <1>6 DEF DropReceiveSlot, RootRuns, slotVars
<1>7. ASSUME NEW e \in Endpoint, NEW s \in Slot \cup {0},
             ReceivePending(e, s)
      PROVE  SlotInv'
  BY <1>7 DEF ReceivePending, RootRuns, SlotArgument, Moved, slotVars
<1>8. ASSUME NEW e \in Endpoint, NEW s \in Slot \cup {0},
             Receive(e, s)
      PROVE  SlotInv'
  BY <1>8 DEF Receive, RootRuns, SlotArgument, Moved, slotVars
<1>9. ASSUME NEW e \in Endpoint, NEW s \in Slot \cup {0},
             TryReceiveNothing(e, s)
      PROVE  SlotInv'
  <2>1. s # 0 => tracker[s] = RESERVED /\ ~cnode[s]
    BY <1>9 DEF TryReceiveNothing, SlotArgument
  <2>2. Slot \subseteq Index
    BY DEF Slot, Index
  <2> QED
    BY <1>9, <2>1, <2>2 DEF TryReceiveNothing, SlotArgument, Moved, FinishSlot, RootRuns
<1>10. ASSUME NEW e \in Endpoint, NEW s \in Slot \cup {0}, NEW c \in Client, NEW info \in Info,
             TryReceive(e, s, c, info)
      PROVE  SlotInv'
  <2>1. s # 0 => tracker[s] = RESERVED /\ ~cnode[s]
    BY <1>10 DEF TryReceive, SlotArgument
  <2>2. /\ FreeSlotsAreEmpty'
        /\ \A r \in Slot \ {s} : tracker'[r] = tracker[r] /\ cnode'[r] = cnode[r]
    BY <1>10, <2>1, DeliverSlots DEF TryReceive
  <2> QED
    BY <1>10, <2>2 DEF TryReceive, SlotArgument, Moved, RootRuns
<1>11. ASSUME NEW c \in Client, NEW info \in Info,
             CompleteReceive(c, info)
      PROVE  SlotInv'
  <2>1. waiting \in Endpoint /\ armed \in Slot \cup {0}
    BY <1>11 DEF CompleteReceive, RootRuns
  <2>2. armed # 0 => tracker[armed] = RESERVED /\ ~cnode[armed]
    OBVIOUS
  <2>3. /\ FreeSlotsAreEmpty'
        /\ \A r \in Slot \ {armed} : tracker'[r] = tracker[r] /\ cnode'[r] = cnode[r]
    BY <1>11, <2>1, <2>2, DeliverSlots DEF CompleteReceive
  <2> QED
    BY <1>11, <2>3 DEF CompleteReceive
<1>12. ASSUME NEW e \in Endpoint,
             Reply(e)
      PROVE  SlotInv'
  BY <1>12 DEF Reply, Consume, RootRuns, slotVars
<1>13. ASSUME NEW e \in Endpoint,
             Finish(e)
      PROVE  SlotInv'
  BY <1>13 DEF Finish, Consume, RootRuns, slotVars
<1>14. ASSUME NEW e \in Endpoint,
             Defer(e)
      PROVE  SlotInv'
  BY <1>14 DEF Defer, Consume, RootRuns, slotVars
<1>15. ASSUME NEW e \in Endpoint,
             DeferExhausted(e)
      PROVE  SlotInv'
  BY <1>15 DEF DeferExhausted, Consume, RootRuns, slotVars
<1>16. ASSUME NEW e \in Endpoint,
             DeferRefused(e)
      PROVE  SlotInv'
  BY <1>16 DEF DeferRefused, Consume, RootRuns, slotVars
<1>17. ASSUME NEW e \in Endpoint,
             DropReceived(e)
      PROVE  SlotInv'
  BY <1>17 DEF DropReceived, Consume, RootRuns, slotVars
<1>18. ASSUME NEW o \in Offset,
             DeferredReply(o)
      PROVE  SlotInv'
  BY <1>18 DEF DeferredReply, ConsumeDeferred, RootRuns, slotVars
<1>19. ASSUME NEW o \in Offset,
             Discard(o)
      PROVE  SlotInv'
  BY <1>19 DEF Discard, ConsumeDeferred, RootRuns, slotVars
<1>20. ASSUME NEW o \in Offset,
             DiscardFails(o)
      PROVE  SlotInv'
  BY <1>20 DEF DiscardFails, ConsumeDeferred, RootRuns, slotVars
<1> QED
  BY <1>1, <1>2, <1>3, <1>4, <1>5, <1>6, <1>7, <1>8, <1>9, <1>10, <1>11, <1>12, <1>13, <1>14, <1>15, <1>16, <1>17, <1>18, <1>19, <1>20
  DEF Next, ClientStep, ControlStep, SlotStep, ReceiveStep, MessageStep, DeferredStep,
      DropDeferred

-----------------------------------------------------------------------------
(***************************************************************************)
(* Reply authority                                                         *)
(***************************************************************************)

(* A request is a record of a client and a number, and is never NoMsg. *)
LEMMA RequestFacts ==
    /\ \A m \in Request : m # NoMsg /\ m.src \in Client /\ m.n \in Nat
                            /\ m = [src |-> m.src, n |-> m.n]
    /\ \A c \in Client, k \in 0..MaxCalls : [src |-> c, n |-> k] \in Request
BY IpcAssumption DEF Request, NoMsg

(* A client that queues takes nobody's authority. *)
LEMMA QueueAuth ==
    ASSUME TypeOK, AuthInv, NEW c \in Client, NEW e \in Endpoint,
           NEW how \in {"calling", "sending"}, Queue(c, e, how),
           calls' = [calls EXCEPT ![c] = IF how = "calling" THEN @ + 1 ELSE @],
           how = "calling" => calls[c] < MaxCalls
    PROVE  AuthInv'
<1> USE IpcAssumption, RequestFacts
<1> USE DEF TypeOK, AuthInv, AuthorityInv, Queue, poolVars
<1>1. QueueInv'
  BY DEF QueueInv
<1>2. HistoryInv'
  BY DEF HistoryInv, Older
<1>3. KernelInv'
  BY DEF KernelInv
<1>4. HeldInv'
  BY DEF HeldInv
<1>5. HeldHoldsAuthority'
  BY DEF HeldHoldsAuthority, Awaits
<1>6. DeferredHoldsAuthority'
  BY DEF DeferredHoldsAuthority, Awaits
<1>7. ReleasedSlotsEmpty'
  BY DEF ReleasedSlotsEmpty
<1>8. NoCallerLost'
  BY DEF NoCallerLost
<1> QED
  BY <1>1, <1>2, <1>3, <1>4, <1>5, <1>6, <1>7, <1>8

(* Suspending or resuming a client takes its authority back everywhere. *)
LEMMA CancelAuth ==
    ASSUME TypeOK, AuthInv, NEW c \in Client, NEW to \in {"suspended", "running"},
           phase' = [phase EXCEPT ![c] = to], CancelIpc(c),
           UNCHANGED <<calls, pending, held, occupied, deferred, waiting, abandoned>>
    PROVE  AuthInv'
<1> USE IpcAssumption, RequestFacts
<1> USE DEF TypeOK, AuthInv, AuthorityInv, CancelIpc
<1>1. QueueInv'
  BY DEF QueueInv
<1>2. HistoryInv'
  BY DEF HistoryInv, Older
<1>3. KernelInv'
  BY DEF KernelInv
<1>4. HeldInv'
  BY DEF HeldInv
<1>5. HeldHoldsAuthority'
  BY DEF HeldHoldsAuthority, Awaits
<1>6. DeferredHoldsAuthority'
  BY DEF DeferredHoldsAuthority, Awaits
<1>7. ReleasedSlotsEmpty'
  BY DEF ReleasedSlotsEmpty
<1>8. NoCallerLost'
  BY DEF NoCallerLost
<1> QED
  BY <1>1, <1>2, <1>3, <1>4, <1>5, <1>6, <1>7, <1>8

(* Entering the kernel with no message held loses nobody. *)
LEMMA OpenAuth ==
    ASSUME TypeOK, AuthInv, NEW e \in Endpoint, ~pending[e], MayReceive(e), Sequential, caller' = None,
           \A f \in Endpoint : pending[f] => pending'[f],
           UNCHANGED <<clientVars, held, poolVars, abandoned>>
    PROVE  AuthInv'
<1> USE IpcAssumption, RequestFacts
<1> USE DEF TypeOK, AuthInv, AuthorityInv, MayReceive, Sequential, clientVars, poolVars
<1>1. QueueInv'
  BY DEF QueueInv
<1>2. HistoryInv'
  BY DEF HistoryInv, Older
<1>3. KernelInv'
  BY DEF KernelInv
<1>4. HeldInv'
  BY DEF HeldInv
<1>5. HeldHoldsAuthority'
  BY DEF HeldHoldsAuthority, Awaits, HeldInv
<1>6. DeferredHoldsAuthority'
  BY DEF DeferredHoldsAuthority, Awaits
<1>7. ReleasedSlotsEmpty'
  BY DEF ReleasedSlotsEmpty
<1>8. NoCallerLost'
  BY DEF NoCallerLost, HeldInv
<1> QED
  BY <1>1, <1>2, <1>3, <1>4, <1>5, <1>6, <1>7, <1>8

(* Consuming a message with the implicit reply answers its own requester. *)
LEMMA AnswerAuth ==
    ASSUME TypeOK, AuthInv, NEW e \in Endpoint, Consume(e), KernelReply,
           pending' = [pending EXCEPT ![e] = FALSE],
           UNCHANGED <<target, calls, poolVars, waiting, abandoned>>
    PROVE  AuthInv'
<1> USE IpcAssumption, RequestFacts
<1> USE DEF TypeOK, AuthInv, AuthorityInv, Consume, KernelReply, RootRuns, poolVars
<1>1. QueueInv'
  BY DEF QueueInv, KernelInv
<1>2. HistoryInv'
  BY DEF HistoryInv, Older
<1>3. KernelInv'
  BY DEF KernelInv
<1>4. HeldInv'
  BY DEF HeldInv
<1>5. HeldHoldsAuthority'
  BY DEF HeldHoldsAuthority, Awaits
<1>6. DeferredHoldsAuthority'
  BY DEF DeferredHoldsAuthority, Awaits, KernelInv
<1>7. ReleasedSlotsEmpty'
  BY DEF ReleasedSlotsEmpty
<1>8. NoCallerLost'
  BY DEF NoCallerLost
<1> QED
  BY <1>1, <1>2, <1>3, <1>4, <1>5, <1>6, <1>7, <1>8

(* Deferring moves the authority along with the handle. *)
LEMMA DeferAuth ==
    ASSUME TypeOK, AuthInv, NEW e \in Endpoint, Defer(e)
    PROVE  AuthInv'
<1> USE IpcAssumption, RequestFacts
<1> USE DEF TypeOK, AuthInv, AuthorityInv, Defer, Consume, RootRuns, Lowest, clientVars
<1>1. QueueInv'
  BY DEF QueueInv
<1>2. HistoryInv'
  BY DEF HistoryInv, Older
<1>3. KernelInv'
  BY DEF KernelInv
<1>4. HeldInv'
  BY DEF HeldInv
<1>5. HeldHoldsAuthority'
  BY DEF HeldHoldsAuthority, Awaits, HeldInv
<1>6. DeferredHoldsAuthority'
  BY DEF DeferredHoldsAuthority, Awaits, HeldHoldsAuthority
<1>7. ReleasedSlotsEmpty'
  BY DEF ReleasedSlotsEmpty
<1>8. NoCallerLost'
  BY DEF NoCallerLost, HeldInv
<1> QED
  BY <1>1, <1>2, <1>3, <1>4, <1>5, <1>6, <1>7, <1>8

(* Dropping a message abandons its request only. *)
LEMMA DropAuth ==
    ASSUME TypeOK, AuthInv, NEW e \in Endpoint, DropReceived(e)
    PROVE  AuthInv'
<1> USE IpcAssumption, RequestFacts
<1> USE DEF TypeOK, AuthInv, AuthorityInv, DropReceived, Consume, RootRuns, clientVars, poolVars
<1>1. QueueInv'
  BY DEF QueueInv
<1>2. HistoryInv'
  BY DEF HistoryInv, Older
<1>3. KernelInv'
  BY DEF KernelInv
<1>4. HeldInv'
  BY DEF HeldInv
<1>5. HeldHoldsAuthority'
  BY DEF HeldHoldsAuthority, Awaits
<1>6. DeferredHoldsAuthority'
  BY DEF DeferredHoldsAuthority, Awaits
<1>7. ReleasedSlotsEmpty'
  BY DEF ReleasedSlotsEmpty
<1>8. NoCallerLost'
  BY DEF NoCallerLost
<1> QED
  BY <1>1, <1>2, <1>3, <1>4, <1>5, <1>6, <1>7, <1>8

(* A deferred reply answers its own requester. *)
LEMMA DeferredReplyAuth ==
    ASSUME TypeOK, AuthInv, NEW o \in Offset, DeferredReply(o)
    PROVE  AuthInv'
<1> USE IpcAssumption, RequestFacts
<1> USE DEF TypeOK, AuthInv, AuthorityInv, DeferredReply, ConsumeDeferred, RootRuns
<1>1. QueueInv'
  BY DEF QueueInv, KernelInv
<1>2. HistoryInv'
  BY DEF HistoryInv, Older
<1>3. KernelInv'
  BY DEF KernelInv
<1>4. HeldInv'
  BY DEF HeldInv
<1>5. HeldHoldsAuthority'
  BY DEF HeldHoldsAuthority, Awaits, KernelInv
<1>6. DeferredHoldsAuthority'
  BY DEF DeferredHoldsAuthority, Awaits, KernelInv
<1>7. ReleasedSlotsEmpty'
  BY DEF ReleasedSlotsEmpty
<1>8. NoCallerLost'
  BY DEF NoCallerLost
<1> QED
  BY <1>1, <1>2, <1>3, <1>4, <1>5, <1>6, <1>7, <1>8

(* A discarded reply abandons its request only, deleted or not. *)
LEMMA DiscardAuth ==
    ASSUME TypeOK, AuthInv, NEW o \in Offset, Discard(o) \/ DiscardFails(o)
    PROVE  AuthInv'
<1> USE IpcAssumption, RequestFacts
<1> USE DEF TypeOK, AuthInv, AuthorityInv, Discard, DiscardFails, ConsumeDeferred, RootRuns, clientVars
<1>1. QueueInv'
  BY DEF QueueInv
<1>2. HistoryInv'
  BY DEF HistoryInv, Older
<1>3. KernelInv'
  BY DEF KernelInv
<1>4. HeldInv'
  BY DEF HeldInv
<1>5. HeldHoldsAuthority'
  BY DEF HeldHoldsAuthority, Awaits
<1>6. DeferredHoldsAuthority'
  BY DEF DeferredHoldsAuthority, Awaits
<1>7. ReleasedSlotsEmpty'
  BY DEF ReleasedSlotsEmpty
<1>8. NoCallerLost'
  <2> SUFFICES ASSUME NEW c \in Client, phase[c] = "awaiting",
                      [src |-> c, n |-> calls[c]] \notin abandoned'
               PROVE  LET m == [src |-> c, n |-> calls[c]] IN
                        \/ \E e \in Endpoint : held[e] = m /\ caller = c
                        \/ \E p \in Offset : deferred'[p] = m /\ saved'[p] = c
    BY DEF NoCallerLost
  <2> DEFINE m == [src |-> c, n |-> calls[c]]
  <2>1. m # deferred[o] /\ m \notin abandoned
    OBVIOUS
  <2>2. CASE \E e \in Endpoint : held[e] = m /\ caller = c
    BY <2>2
  <2>3. CASE \E p \in Offset : deferred[p] = m /\ saved[p] = c
    <3>1. PICK p \in Offset : deferred[p] = m /\ saved[p] = c
      BY <2>3
    <3>2. p # o
      BY <2>1, <3>1
    <3>3. deferred'[p] = m /\ saved'[p] = c
      BY <3>1, <3>2
    <3> QED
      BY <3>3
  <2> QED
    BY <2>1, <2>2, <2>3 DEF NoCallerLost
<1> QED
  BY <1>1, <1>2, <1>3, <1>4, <1>5, <1>6, <1>7, <1>8

(* An accepted or rejected delivery makes one handle, with its authority, or none. *)
LEMMA DeliverAuth ==
    ASSUME TypeOK, AuthInv, NEW e \in Endpoint, NEW s \in Slot \cup {0}, NEW c \in Client,
           NEW info \in Info, NEW out \in {"accepted", "rejected"}, Deliver(e, s, c, info, out),
           \A f \in Endpoint : held[f] = NoMsg, waiting' = None
    PROVE  AuthInv'
<1> USE IpcAssumption, RequestFacts
<1> USE DEF TypeOK, AuthInv, AuthorityInv, Deliver, poolVars
<1>1. QueueInv'
  BY DEF QueueInv
<1>2. HistoryInv'
  BY DEF HistoryInv, Older
<1>3. KernelInv'
  BY DEF KernelInv, QueueInv
<1>4. HeldInv'
  BY DEF HeldInv
<1>5. HeldHoldsAuthority'
  <2> SUFFICES ASSUME NEW f \in Endpoint, held'[f] # NoMsg
               PROVE  caller' = IF Awaits(held[f])' THEN held'[f].src ELSE None
    BY DEF HeldHoldsAuthority
  <2> DEFINE m == [src |-> c, n |-> IF phase[c] = "calling" THEN calls[c] ELSE 0]
  <2>1. out = "accepted" /\ f = e /\ held'[f] = m
    OBVIOUS
  <2>2. m.src = c /\ m.n = IF phase[c] = "calling" THEN calls[c] ELSE 0
    OBVIOUS
  <2>3. phase[c] = "calling" => calls[c] # 0
    BY DEF QueueInv
  <2> QED
    BY <2>1, <2>2, <2>3 DEF Awaits
<1>6. DeferredHoldsAuthority'
  BY DEF DeferredHoldsAuthority, Awaits, QueueInv, HistoryInv, Older
<1>7. ReleasedSlotsEmpty'
  BY DEF ReleasedSlotsEmpty
<1>8. NoCallerLost'
  BY DEF NoCallerLost
<1> QED
  BY <1>1, <1>2, <1>3, <1>4, <1>5, <1>6, <1>7, <1>8

(* A step that touches no authority. *)
LEMMA StutterAuth ==
    ASSUME AuthInv, UNCHANGED <<clientVars, pending, held, caller, poolVars, waiting, abandoned>>
    PROVE  AuthInv'
BY DEF AuthInv, QueueInv, HistoryInv, Older, KernelInv, HeldInv, AuthorityInv,
       HeldHoldsAuthority, DeferredHoldsAuthority, Awaits, ReleasedSlotsEmpty, NoCallerLost,
       clientVars, poolVars

(* A badged message never looks like "nobody", and a reserved slot is never *)
(* refused: every delivery is accepted or rejected.                         *)
LEMMA OutcomeSound ==
    ASSUME NEW e, NEW s, NEW c \in Client, NEW info, NEW poll, ~SlotRefused(s)
    PROVE  Outcome(e, s, c, info, poll) \in {"accepted", "rejected"}
BY IpcAssumption DEF Outcome, LooksEmpty

(* The two receives deliver into a slot that is not refused. *)
LEMMA DestinationAccepted ==
    ASSUME TypeOK, SlotInv
    PROVE  /\ ~SlotRefused(armed)
           /\ \A e \in Endpoint, s \in Slot \cup {0} : SlotArgument(e, s) => ~SlotRefused(s)
BY DEF SlotInv, DestinationReady, SlotArgument, SlotRefused

LEMMA NoneHeld ==
    ASSUME AuthInv, Sequential, NEW e \in Endpoint, ~pending[e], MayReceive(e)
    PROVE  \A f \in Endpoint : held[f] = NoMsg
BY DEF AuthInv, HeldInv, MayReceive, Sequential

(* Every step keeps the authority invariant. *)
LEMMA AuthStep ==
    ASSUME IInv, Next, Sequential
    PROVE  AuthInv'
<1> USE DEF IInv
<1>1. ASSUME NEW c \in Client, NEW e \in Endpoint,
             Call(c, e)
      PROVE  AuthInv'
  BY <1>1, QueueAuth DEF Call
<1>2. ASSUME NEW c \in Client, NEW e \in Endpoint,
             Send(c, e)
      PROVE  AuthInv'
  <2>1. calls' = [calls EXCEPT ![c] = IF "sending" = "calling" THEN @ + 1 ELSE @]
    BY <1>2 DEF Send, TypeOK
  <2> QED
    BY <1>2, <2>1, QueueAuth DEF Send
<1>3. ASSUME NEW c \in Client,
             Suspend(c)
      PROVE  AuthInv'
  BY <1>3, CancelAuth DEF Suspend
<1>4. ASSUME NEW c \in Client,
             Resume(c)
      PROVE  AuthInv'
  BY <1>4, CancelAuth DEF Resume
<1>5. ASSUME NEW s \in Index,
             ReserveReceiveSlot(s)
      PROVE  AuthInv'
  BY <1>5, StutterAuth DEF ReserveReceiveSlot
<1>6. ASSUME DropReceiveSlot
      PROVE  AuthInv'
  BY <1>6, StutterAuth DEF DropReceiveSlot
<1>7. ASSUME NEW e \in Endpoint, NEW s \in Slot \cup {0},
             ReceivePending(e, s)
      PROVE  AuthInv'
  BY <1>7, StutterAuth DEF ReceivePending
<1>8. ASSUME NEW e \in Endpoint, NEW s \in Slot \cup {0},
             Receive(e, s)
      PROVE  AuthInv'
  <2>1. \A f \in Endpoint : pending[f] => pending'[f]
    BY <1>8 DEF Receive, TypeOK
  <2> QED
    BY <1>8, <2>1, OpenAuth DEF Receive
<1>9. ASSUME NEW e \in Endpoint, NEW s \in Slot \cup {0},
             TryReceiveNothing(e, s)
      PROVE  AuthInv'
  BY <1>9, OpenAuth DEF TryReceiveNothing
<1>10. ASSUME NEW e \in Endpoint, NEW s \in Slot \cup {0}, NEW c \in Client, NEW info \in Info,
             TryReceive(e, s, c, info)
      PROVE  AuthInv'
  <2>1. Outcome(e, s, c, info, TRUE) \in {"accepted", "rejected"}
    BY <1>10, OutcomeSound, DestinationAccepted DEF TryReceive
  <2>2. \A f \in Endpoint : held[f] = NoMsg
    BY <1>10, NoneHeld DEF TryReceive
  <2> QED
    BY <1>10, <2>1, <2>2, DeliverAuth DEF TryReceive, RootRuns
<1>11. ASSUME NEW c \in Client, NEW info \in Info,
             CompleteReceive(c, info)
      PROVE  AuthInv'
  <2>1. waiting \in Endpoint /\ armed \in Slot \cup {0}
    BY <1>11 DEF CompleteReceive, RootRuns, TypeOK
  <2>2. Outcome(waiting, armed, c, info, FALSE) \in {"accepted", "rejected"}
    BY OutcomeSound, DestinationAccepted
  <2>3. \A f \in Endpoint : held[f] = NoMsg
    BY <1>11 DEF CompleteReceive, RootRuns, AuthInv, HeldInv
  <2> QED
    BY <1>11, <2>1, <2>2, <2>3, DeliverAuth DEF CompleteReceive
<1>12. ASSUME NEW e \in Endpoint,
             Reply(e)
      PROVE  AuthInv'
  BY <1>12, AnswerAuth DEF Reply
<1>13. ASSUME NEW e \in Endpoint,
             Finish(e)
      PROVE  AuthInv'
  BY <1>13, AnswerAuth DEF Finish, ClearImplicitReply
<1>14. ASSUME NEW e \in Endpoint,
             Defer(e)
      PROVE  AuthInv'
  BY <1>14, DeferAuth
<1>15. ASSUME NEW e \in Endpoint,
             DeferExhausted(e)
      PROVE  AuthInv'
  BY <1>15, AnswerAuth DEF DeferExhausted, ClearImplicitReply
<1>16. ASSUME NEW e \in Endpoint,
             DeferRefused(e)
      PROVE  AuthInv'
  <2>1. occupied' = occupied
    BY <1>16 DEF DeferRefused, Lowest
  <2> QED
    BY <1>16, <2>1, AnswerAuth DEF DeferRefused, ClearImplicitReply, poolVars
<1>17. ASSUME NEW e \in Endpoint,
             DropReceived(e)
      PROVE  AuthInv'
  BY <1>17, DropAuth
<1>18. ASSUME NEW o \in Offset,
             DeferredReply(o)
      PROVE  AuthInv'
  BY <1>18, DeferredReplyAuth
<1>19. ASSUME NEW o \in Offset,
             Discard(o)
      PROVE  AuthInv'
  BY <1>19, DiscardAuth
<1>20. ASSUME NEW o \in Offset,
             DiscardFails(o)
      PROVE  AuthInv'
  BY <1>20, DiscardAuth
<1> QED
  BY <1>1, <1>2, <1>3, <1>4, <1>5, <1>6, <1>7, <1>8, <1>9, <1>10, <1>11, <1>12, <1>13, <1>14, <1>15, <1>16, <1>17, <1>18, <1>19, <1>20
  DEF Next, ClientStep, ControlStep, SlotStep, ReceiveStep, MessageStep, DeferredStep,
      DropDeferred

-----------------------------------------------------------------------------
(***************************************************************************)
(* Theorems                                                                *)
(***************************************************************************)

(* The first state satisfies the inductive invariant. *)
LEMMA InitInv == Init => IInv
<1> USE IpcAssumption DEF Init
<1>1. Init => TypeOK
  BY DEF TypeOK, Phase, Offset, Slot, Index
<1>2. Init => SlotInv
  BY DEF SlotInv, FreeSlotsAreEmpty, DestinationReady, Slot, Index, FREE, OCCUPIED
<1>3. Init => AuthInv
  BY DEF AuthInv, QueueInv, HistoryInv, KernelInv, HeldInv, AuthorityInv,
         HeldHoldsAuthority, DeferredHoldsAuthority, ReleasedSlotsEmpty, NoCallerLost
<1> QED
  BY <1>1, <1>2, <1>3 DEF IInv

LEMMA StutterTypeSlot ==
    ASSUME TypeOK, SlotInv, UNCHANGED vars
    PROVE  TypeOK' /\ SlotInv'
BY DEF TypeOK, SlotInv, FreeSlotsAreEmpty, DestinationReady, vars, clientVars, poolVars, slotVars

(* Type correctness of every reachable state. *)
THEOREM TypeCorrect == Spec => []TypeOK
<1>1. Init => TypeOK
  BY InitInv DEF IInv
<1>2. TypeOK /\ [Next]_vars => TypeOK'
  <2>1. ASSUME TypeOK, UNCHANGED vars PROVE TypeOK'
    BY <2>1 DEF TypeOK, vars, clientVars, poolVars, slotVars
  <2> QED
    BY <2>1, TypeStep
<1> QED
  BY <1>1, <1>2, PTL DEF Spec

(* The tracker and the kernel agree on which child slots are usable, and a  *)
(* receive never starts with a destination that is already taken, however   *)
(* the root uses its endpoints and whatever it drops.                       *)
THEOREM SlotsSafe == Spec => [](FreeSlotsAreEmpty /\ DestinationReady)
<1>1. Init => TypeOK /\ SlotInv
  BY InitInv DEF IInv
<1>2. TypeOK /\ SlotInv /\ [Next]_vars => TypeOK' /\ SlotInv'
  BY TypeStep, SlotStepInv, StutterTypeSlot
<1>3. SlotInv => FreeSlotsAreEmpty /\ DestinationReady
  BY DEF SlotInv
<1> QED
  BY <1>1, <1>2, <1>3, PTL DEF Spec

(* IInv is inductive for a root task that does not overlap endpoints. *)
LEMMA Inductive ==
    ASSUME Sequential
    PROVE  IInv /\ [Next]_vars => IInv'
<1>1. ASSUME IInv, Next PROVE IInv'
  BY <1>1, TypeStep, SlotStepInv, AuthStep DEF IInv
<1>2. ASSUME IInv, UNCHANGED vars PROVE IInv'
  BY <1>2, StutterTypeSlot, StutterAuth DEF IInv, vars
<1> QED
  BY <1>1, <1>2

(* Every handle of the root holds exactly the authority of the request it   *)
(* was made from, pool slots are reused only when empty, and no caller is   *)
(* lost: for any number of clients and any pool, provided the root does not *)
(* receive on one endpoint while it holds a message of another.             *)
THEOREM AuthoritySafe ==
    ASSUME Sequential
    PROVE  Spec => [](/\ HeldHoldsAuthority
                      /\ DeferredHoldsAuthority
                      /\ ReleasedSlotsEmpty
                      /\ NoCallerLost)
<1>1. IInv => AuthorityInv
  BY DEF IInv, AuthInv
<1> QED
  BY InitInv, Inductive, <1>1, PTL DEF Spec, AuthorityInv

-----------------------------------------------------------------------------
(***************************************************************************)
(* No endpoint is left refusing every receive                              *)
(***************************************************************************)
WedgeInv ==
    /\ EndpointNeverWedged
    /\ \A e \in Endpoint : waiting = e => held[e] = NoMsg

(* A delivery leaves the flag set exactly when it made a ReceivedMessage. *)
LEMMA DeliverWedge ==
    ASSUME TypeOK, WedgeInv, NEW e \in Endpoint, NEW s \in Slot \cup {0}, NEW c \in Client,
           NEW info \in Info, NEW out \in {"accepted", "rejected"}, Deliver(e, s, c, info, out),
           waiting \in {e, None}, waiting' = None, held[e] = NoMsg
    PROVE  WedgeInv'
<1> USE IpcAssumption, RequestFacts DEF TypeOK
<1>1. None \notin Endpoint
  OBVIOUS
<1>2. CASE out = "accepted"
  <2> DEFINE m == [src |-> c, n |-> IF phase[c] = "calling" THEN calls[c] ELSE 0]
  <2>1. m # NoMsg
    BY DEF NoMsg
  <2>2. pending' = [pending EXCEPT ![e] = TRUE] /\ held' = [held EXCEPT ![e] = m]
    BY <1>2 DEF Deliver
  <2> HIDE DEF m
  <2> QED
    BY <1>1, <2>1, <2>2 DEF WedgeInv, EndpointNeverWedged
<1>3. CASE out = "rejected"
  <2>1. (out \in {"accepted", "refused"}) = FALSE
    BY <1>3
  <2>2. pending' = [pending EXCEPT ![e] = FALSE]
    BY <2>1, Zenon DEF Deliver
  <2>3. held' = held
    BY <1>3 DEF Deliver
  <2> QED
    BY <1>1, <2>2, <2>3 DEF WedgeInv, EndpointNeverWedged
<1> QED
  BY <1>2, <1>3

LEMMA WedgeStep ==
    ASSUME TypeOK, SlotInv, WedgeInv, Next, ~Drops
    PROVE  WedgeInv'
<1>1. ASSUME NEW c \in Client, NEW e \in Endpoint,
             Call(c, e)
      PROVE  WedgeInv'
  BY <1>1, IpcAssumption DEF TypeOK, WedgeInv, EndpointNeverWedged, Call, Queue
<1>2. ASSUME NEW c \in Client, NEW e \in Endpoint,
             Send(c, e)
      PROVE  WedgeInv'
  BY <1>2, IpcAssumption DEF TypeOK, WedgeInv, EndpointNeverWedged, Send, Queue
<1>3. ASSUME NEW c \in Client,
             Suspend(c)
      PROVE  WedgeInv'
  BY <1>3, IpcAssumption DEF TypeOK, WedgeInv, EndpointNeverWedged, Suspend
<1>4. ASSUME NEW c \in Client,
             Resume(c)
      PROVE  WedgeInv'
  BY <1>4, IpcAssumption DEF TypeOK, WedgeInv, EndpointNeverWedged, Resume
<1>5. ASSUME NEW s \in Index,
             ReserveReceiveSlot(s)
      PROVE  WedgeInv'
  BY <1>5, IpcAssumption DEF TypeOK, WedgeInv, EndpointNeverWedged, ReserveReceiveSlot
<1>6. ASSUME DropReceiveSlot
      PROVE  WedgeInv'
  BY <1>6, IpcAssumption DEF TypeOK, WedgeInv, EndpointNeverWedged, DropReceiveSlot
<1>7. ASSUME NEW e \in Endpoint, NEW s \in Slot \cup {0},
             ReceivePending(e, s)
      PROVE  WedgeInv'
  BY <1>7, IpcAssumption DEF TypeOK, WedgeInv, EndpointNeverWedged, ReceivePending
<1>8. ASSUME NEW e \in Endpoint, NEW s \in Slot \cup {0},
             Receive(e, s)
      PROVE  WedgeInv'
  BY <1>8, IpcAssumption DEF TypeOK, WedgeInv, EndpointNeverWedged, Receive, RootRuns
<1>9. ASSUME NEW e \in Endpoint, NEW s \in Slot \cup {0},
             TryReceiveNothing(e, s)
      PROVE  WedgeInv'
  BY <1>9, IpcAssumption DEF TypeOK, WedgeInv, EndpointNeverWedged, TryReceiveNothing
<1>10. ASSUME NEW e \in Endpoint, NEW s \in Slot \cup {0}, NEW c \in Client, NEW info \in Info,
             TryReceive(e, s, c, info)
      PROVE  WedgeInv'
  <2>1. Outcome(e, s, c, info, TRUE) \in {"accepted", "rejected"}
    BY <1>10, OutcomeSound, DestinationAccepted DEF TryReceive
  <2>2. held[e] = NoMsg /\ waiting = None /\ waiting' = None
    BY <1>10 DEF TryReceive, RootRuns, WedgeInv, EndpointNeverWedged
  <2>3. Deliver(e, s, c, info, Outcome(e, s, c, info, TRUE))
    BY <1>10 DEF TryReceive
  <2> QED
    BY <2>1, <2>2, <2>3, DeliverWedge
<1>11. ASSUME NEW c \in Client, NEW info \in Info,
             CompleteReceive(c, info)
      PROVE  WedgeInv'
  <2>1. waiting \in Endpoint /\ armed \in Slot \cup {0}
    BY <1>11 DEF TypeOK, CompleteReceive, RootRuns
  <2>2. Outcome(waiting, armed, c, info, FALSE) \in {"accepted", "rejected"}
    BY OutcomeSound, DestinationAccepted
  <2>3. held[waiting] = NoMsg /\ waiting' = None
    BY <1>11, <2>1 DEF CompleteReceive, WedgeInv
  <2>4. Deliver(waiting, armed, c, info, Outcome(waiting, armed, c, info, FALSE))
    BY <1>11 DEF CompleteReceive
  <2> QED
    BY <2>1, <2>2, <2>3, <2>4, DeliverWedge
<1>12. ASSUME NEW e \in Endpoint,
             Reply(e)
      PROVE  WedgeInv'
  BY <1>12, IpcAssumption DEF TypeOK, WedgeInv, EndpointNeverWedged, Reply, Consume, RootRuns
<1>13. ASSUME NEW e \in Endpoint,
             Finish(e)
      PROVE  WedgeInv'
  BY <1>13, IpcAssumption DEF TypeOK, WedgeInv, EndpointNeverWedged, Finish, Consume, ClearImplicitReply, RootRuns
<1>14. ASSUME NEW e \in Endpoint,
             Defer(e)
      PROVE  WedgeInv'
  BY <1>14, IpcAssumption DEF TypeOK, WedgeInv, EndpointNeverWedged, Defer, Consume, RootRuns
<1>15. ASSUME NEW e \in Endpoint,
             DeferExhausted(e)
      PROVE  WedgeInv'
  BY <1>15, IpcAssumption DEF TypeOK, WedgeInv, EndpointNeverWedged, DeferExhausted, Consume, ClearImplicitReply, RootRuns
<1>16. ASSUME NEW e \in Endpoint,
             DeferRefused(e)
      PROVE  WedgeInv'
  BY <1>16, IpcAssumption DEF TypeOK, WedgeInv, EndpointNeverWedged, DeferRefused, Consume, ClearImplicitReply, RootRuns
<1>17. ASSUME NEW e \in Endpoint,
             DropReceived(e)
      PROVE  WedgeInv'
  BY <1>17, IpcAssumption DEF TypeOK, WedgeInv, EndpointNeverWedged, DropReceived
<1>18. ASSUME NEW o \in Offset,
             DeferredReply(o)
      PROVE  WedgeInv'
  BY <1>18, IpcAssumption DEF TypeOK, WedgeInv, EndpointNeverWedged, DeferredReply
<1>19. ASSUME NEW o \in Offset,
             Discard(o)
      PROVE  WedgeInv'
  BY <1>19, IpcAssumption DEF TypeOK, WedgeInv, EndpointNeverWedged, Discard
<1>20. ASSUME NEW o \in Offset,
             DiscardFails(o)
      PROVE  WedgeInv'
  BY <1>20, IpcAssumption DEF TypeOK, WedgeInv, EndpointNeverWedged, DiscardFails
<1> QED
  BY <1>1, <1>2, <1>3, <1>4, <1>5, <1>6, <1>7, <1>8, <1>9, <1>10, <1>11, <1>12, <1>13, <1>14, <1>15, <1>16, <1>17, <1>18, <1>19, <1>20
  DEF Next, ClientStep, ControlStep, SlotStep, ReceiveStep, MessageStep, DeferredStep,
      DropDeferred

(* If no handle is dropped, no path through receive, try_receive, reply,    *)
(* finish or defer leaves an endpoint's flag set with nothing to clear it,  *)
(* even when the root overlaps its endpoints.                               *)
THEOREM NeverWedged ==
    ASSUME ~Drops
    PROVE  Spec => []EndpointNeverWedged
<1> DEFINE I == TypeOK /\ SlotInv /\ WedgeInv
<1>1. Init => I
  <2>1. Init => WedgeInv
    BY IpcAssumption DEF Init, WedgeInv, EndpointNeverWedged
  <2> QED
    BY <2>1, InitInv DEF IInv
<1>2. I /\ [Next]_vars => I'
  <2>1. ASSUME WedgeInv, UNCHANGED vars PROVE WedgeInv'
    BY <2>1 DEF WedgeInv, EndpointNeverWedged, vars
  <2> QED
    BY <2>1, TypeStep, SlotStepInv, WedgeStep, StutterTypeSlot
<1>3. I => EndpointNeverWedged
  BY DEF WedgeInv
<1> QED
  BY <1>1, <1>2, <1>3, PTL DEF Spec

-----------------------------------------------------------------------------
(***************************************************************************)
(* Action properties                                                       *)
(***************************************************************************)

(* What a step may do to a waiting client c. *)
Answered(c) ==
    LET m == [src |-> c, n |-> calls[c]] IN
        \/ \E e \in Endpoint : held[e] = m /\ held'[e] = NoMsg
        \/ \E o \in Offset : deferred[o] = m /\ deferred'[o] = NoMsg
        \/ Resume(c)

(* The implicit reply wakes nobody but the requester of the message consumed. *)
LEMMA ReplyAnswers ==
    ASSUME IInv, NEW e \in Endpoint, Consume(e), KernelReply, NEW c \in Client,
           phase[c] = "awaiting", phase'[c] = "running"
    PROVE  Answered(c)
<1>1. caller = c /\ held[e] # NoMsg /\ held'[e] = NoMsg
  BY DEF IInv, TypeOK, Consume, KernelReply
<1>2. held[e] = [src |-> c, n |-> calls[c]]
  BY <1>1, RequestFacts, IpcAssumption
  DEF IInv, TypeOK, AuthInv, AuthorityInv, HeldHoldsAuthority, Awaits
<1> QED
  BY <1>1, <1>2 DEF Answered

LEMMA AnswerStep ==
    ASSUME IInv, Next, NEW x \in Client, phase[x] = "awaiting", phase'[x] = "running"
    PROVE  Answered(x)
<1> USE DEF IInv, TypeOK
<1>1. ASSUME NEW c \in Client, NEW e \in Endpoint,
             Call(c, e)
      PROVE  Answered(x)
  BY <1>1 DEF Call, Queue, clientVars
<1>2. ASSUME NEW c \in Client, NEW e \in Endpoint,
             Send(c, e)
      PROVE  Answered(x)
  BY <1>2 DEF Send, Queue, clientVars
<1>3. ASSUME NEW c \in Client,
             Suspend(c)
      PROVE  Answered(x)
  BY <1>3 DEF Suspend, clientVars
<1>4. ASSUME NEW c \in Client,
             Resume(c)
      PROVE  Answered(x)
  <2>1. x = c
    BY <1>4 DEF Resume
  <2> QED
    BY <1>4, <2>1 DEF Answered
<1>5. ASSUME NEW s \in Index,
             ReserveReceiveSlot(s)
      PROVE  Answered(x)
  BY <1>5 DEF ReserveReceiveSlot, clientVars
<1>6. ASSUME DropReceiveSlot
      PROVE  Answered(x)
  BY <1>6 DEF DropReceiveSlot, clientVars
<1>7. ASSUME NEW e \in Endpoint, NEW s \in Slot \cup {0},
             ReceivePending(e, s)
      PROVE  Answered(x)
  BY <1>7 DEF ReceivePending, clientVars
<1>8. ASSUME NEW e \in Endpoint, NEW s \in Slot \cup {0},
             Receive(e, s)
      PROVE  Answered(x)
  BY <1>8 DEF Receive, clientVars
<1>9. ASSUME NEW e \in Endpoint, NEW s \in Slot \cup {0},
             TryReceiveNothing(e, s)
      PROVE  Answered(x)
  BY <1>9 DEF TryReceiveNothing, clientVars
<1>10. ASSUME NEW e \in Endpoint, NEW s \in Slot \cup {0}, NEW c \in Client, NEW info \in Info,
             TryReceive(e, s, c, info)
      PROVE  Answered(x)
  BY <1>10, IpcAssumption DEF TryReceive, Deliver, AuthInv, QueueInv
<1>11. ASSUME NEW c \in Client, NEW info \in Info,
             CompleteReceive(c, info)
      PROVE  Answered(x)
  BY <1>11, IpcAssumption DEF CompleteReceive, Deliver, AuthInv, QueueInv, RootRuns
<1>12. ASSUME NEW e \in Endpoint,
             Reply(e)
      PROVE  Answered(x)
  BY <1>12, ReplyAnswers DEF Reply
<1>13. ASSUME NEW e \in Endpoint,
             Finish(e)
      PROVE  Answered(x)
  BY <1>13, ReplyAnswers DEF Finish, ClearImplicitReply
<1>14. ASSUME NEW e \in Endpoint,
             Defer(e)
      PROVE  Answered(x)
  BY <1>14 DEF Defer, clientVars
<1>15. ASSUME NEW e \in Endpoint,
             DeferExhausted(e)
      PROVE  Answered(x)
  BY <1>15, ReplyAnswers DEF DeferExhausted, ClearImplicitReply
<1>16. ASSUME NEW e \in Endpoint,
             DeferRefused(e)
      PROVE  Answered(x)
  BY <1>16, ReplyAnswers DEF DeferRefused, ClearImplicitReply
<1>17. ASSUME NEW e \in Endpoint,
             DropReceived(e)
      PROVE  Answered(x)
  BY <1>17 DEF DropReceived, clientVars
<1>18. ASSUME NEW o \in Offset,
             DeferredReply(o)
      PROVE  Answered(x)
  <2>1. saved[o] = x /\ deferred[o] # NoMsg /\ deferred'[o] = NoMsg
    BY <1>18 DEF DeferredReply, ConsumeDeferred
  <2>2. deferred[o] = [src |-> x, n |-> calls[x]]
    BY <2>1, RequestFacts, IpcAssumption DEF AuthInv, AuthorityInv, DeferredHoldsAuthority, Awaits
  <2> QED
    BY <2>1, <2>2 DEF Answered
<1>19. ASSUME NEW o \in Offset,
             Discard(o)
      PROVE  Answered(x)
  BY <1>19 DEF Discard, clientVars
<1>20. ASSUME NEW o \in Offset,
             DiscardFails(o)
      PROVE  Answered(x)
  BY <1>20 DEF DiscardFails, clientVars
<1> QED
  BY <1>1, <1>2, <1>3, <1>4, <1>5, <1>6, <1>7, <1>8, <1>9, <1>10, <1>11, <1>12, <1>13, <1>14, <1>15, <1>16, <1>17, <1>18, <1>19, <1>20
  DEF Next, ClientStep, ControlStep, SlotStep, ReceiveStep, MessageStep, DeferredStep,
      DropDeferred

(* A waiting client is answered through the handle made from this very call *)
(* or resumed, never through a handle of another request.                   *)
THEOREM OwnHandleOnly ==
    ASSUME Sequential
    PROVE  Spec => OnlyItsHandleAnswers
<1>1. IInv /\ [Next]_vars =>
        [\A c \in Client : phase[c] = "awaiting" /\ phase'[c] = "running" => Answered(c)]_vars
  BY AnswerStep
<1> QED
  BY <1>1, InitInv, Inductive, PTL DEF Spec, OnlyItsHandleAnswers, Answered

(* A delivered call is in the root's hands or was answered in the same step. *)
Handled(c) == \E e \in Endpoint : held'[e] = [src |-> c, n |-> calls[c]]

LEMMA DeliverHandles ==
    ASSUME TypeOK, NEW e \in Endpoint, NEW s, NEW c, NEW info,
           NEW out \in {"accepted", "rejected"}, Deliver(e, s, c, info, out),
           NEW x \in Client, phase[x] = "calling", phase'[x] = "awaiting"
    PROVE  Handled(x)
<1>1. x = c /\ out = "accepted"
  BY DEF TypeOK, Deliver
<1>2. held' = [held EXCEPT ![e] = [src |-> x, n |-> calls[x]]]
  BY <1>1 DEF Deliver
<1> QED
  BY <1>2 DEF TypeOK, Handled

LEMMA HandleStep ==
    ASSUME TypeOK, SlotInv, Next, NEW x \in Client, phase[x] = "calling", phase'[x] = "awaiting"
    PROVE  Handled(x)
<1>1. ASSUME NEW c \in Client, NEW e \in Endpoint,
             Call(c, e)
      PROVE  Handled(x)
  BY <1>1 DEF TypeOK, Call, Queue, clientVars
<1>2. ASSUME NEW c \in Client, NEW e \in Endpoint,
             Send(c, e)
      PROVE  Handled(x)
  BY <1>2 DEF TypeOK, Send, Queue, clientVars
<1>3. ASSUME NEW c \in Client,
             Suspend(c)
      PROVE  Handled(x)
  BY <1>3 DEF TypeOK, Suspend, clientVars
<1>4. ASSUME NEW c \in Client,
             Resume(c)
      PROVE  Handled(x)
  BY <1>4 DEF TypeOK, Resume, clientVars
<1>5. ASSUME NEW s \in Index,
             ReserveReceiveSlot(s)
      PROVE  Handled(x)
  BY <1>5 DEF TypeOK, ReserveReceiveSlot, clientVars
<1>6. ASSUME DropReceiveSlot
      PROVE  Handled(x)
  BY <1>6 DEF TypeOK, DropReceiveSlot, clientVars
<1>7. ASSUME NEW e \in Endpoint, NEW s \in Slot \cup {0},
             ReceivePending(e, s)
      PROVE  Handled(x)
  BY <1>7 DEF TypeOK, ReceivePending, clientVars
<1>8. ASSUME NEW e \in Endpoint, NEW s \in Slot \cup {0},
             Receive(e, s)
      PROVE  Handled(x)
  BY <1>8 DEF TypeOK, Receive, clientVars
<1>9. ASSUME NEW e \in Endpoint, NEW s \in Slot \cup {0},
             TryReceiveNothing(e, s)
      PROVE  Handled(x)
  BY <1>9 DEF TypeOK, TryReceiveNothing, clientVars
<1>10. ASSUME NEW e \in Endpoint, NEW s \in Slot \cup {0}, NEW c \in Client, NEW info \in Info,
             TryReceive(e, s, c, info)
      PROVE  Handled(x)
  <2>1. Outcome(e, s, c, info, TRUE) \in {"accepted", "rejected"}
    BY <1>10, OutcomeSound, DestinationAccepted DEF TryReceive
  <2> QED
    BY <1>10, <2>1, DeliverHandles DEF TryReceive
<1>11. ASSUME NEW c \in Client, NEW info \in Info,
             CompleteReceive(c, info)
      PROVE  Handled(x)
  <2>1. waiting \in Endpoint
    BY <1>11 DEF TypeOK, CompleteReceive, RootRuns
  <2>2. Outcome(waiting, armed, c, info, FALSE) \in {"accepted", "rejected"}
    BY OutcomeSound, DestinationAccepted
  <2> QED
    BY <1>11, <2>1, <2>2, DeliverHandles DEF CompleteReceive
<1>12. ASSUME NEW e \in Endpoint,
             Reply(e)
      PROVE  Handled(x)
  BY <1>12 DEF TypeOK, Reply, KernelReply, clientVars
<1>13. ASSUME NEW e \in Endpoint,
             Finish(e)
      PROVE  Handled(x)
  BY <1>13 DEF TypeOK, Finish, ClearImplicitReply, KernelReply, clientVars
<1>14. ASSUME NEW e \in Endpoint,
             Defer(e)
      PROVE  Handled(x)
  BY <1>14 DEF TypeOK, Defer, clientVars
<1>15. ASSUME NEW e \in Endpoint,
             DeferExhausted(e)
      PROVE  Handled(x)
  BY <1>15 DEF TypeOK, DeferExhausted, ClearImplicitReply, KernelReply, clientVars
<1>16. ASSUME NEW e \in Endpoint,
             DeferRefused(e)
      PROVE  Handled(x)
  BY <1>16 DEF TypeOK, DeferRefused, ClearImplicitReply, KernelReply, clientVars
<1>17. ASSUME NEW e \in Endpoint,
             DropReceived(e)
      PROVE  Handled(x)
  BY <1>17 DEF TypeOK, DropReceived, clientVars
<1>18. ASSUME NEW o \in Offset,
             DeferredReply(o)
      PROVE  Handled(x)
  BY <1>18 DEF TypeOK, DeferredReply, clientVars
<1>19. ASSUME NEW o \in Offset,
             Discard(o)
      PROVE  Handled(x)
  BY <1>19 DEF TypeOK, Discard, clientVars
<1>20. ASSUME NEW o \in Offset,
             DiscardFails(o)
      PROVE  Handled(x)
  BY <1>20 DEF TypeOK, DiscardFails, clientVars
<1> QED
  BY <1>1, <1>2, <1>3, <1>4, <1>5, <1>6, <1>7, <1>8, <1>9, <1>10, <1>11, <1>12, <1>13, <1>14, <1>15, <1>16, <1>17, <1>18, <1>19, <1>20
  DEF Next, ClientStep, ControlStep, SlotStep, ReceiveStep, MessageStep, DeferredStep,
      DropDeferred

(* No receive consumes a call without handing it to the root or answering   *)
(* it, however the root uses its endpoints: with nonzero badges try_receive *)
(* cannot mistake a message for an empty queue.                             *)
THEOREM DeliveredHandled == Spec => DeliveredIsHandled
<1>1. Init => TypeOK /\ SlotInv
  BY InitInv DEF IInv
<1>2. TypeOK /\ SlotInv /\ [Next]_vars => TypeOK' /\ SlotInv'
  BY TypeStep, SlotStepInv, StutterTypeSlot
<1>3. TypeOK /\ SlotInv /\ [Next]_vars =>
        [\A c \in Client : phase[c] = "calling" /\ phase'[c] = "awaiting" => Handled(c)]_vars
  BY HandleStep
<1> QED
  BY <1>1, <1>2, <1>3, PTL DEF Spec, DeliveredIsHandled, Handled
-----------------------------------------------------------------------------
(***************************************************************************)
(* The refinement of RequestReply                                          *)
(***************************************************************************)

(* No two live handles stand for the same call, so that consuming one       *)
(* really disposes of its request.                                          *)
UniqueInv ==
    /\ \A e \in Endpoint, o \in Offset : held[e].n # 0 => held[e] # deferred[o]
    /\ \A o, p \in Offset : deferred[o].n # 0 /\ deferred[o] = deferred[p] => o = p

ServiceInv == IInv /\ UniqueInv

ServiceStep == [Service!Next]_Service!vars

(* The abstract state of the clients. *)
Stages == [c \in Client |-> Stage(c)]

LEMMA StageIs ==
    ASSUME TypeOK, NEW c \in Client
    PROVE  Stages[c] = Stage(c)
BY DEF Stages

(* A request is owed exactly while a handle with a number stands for it. *)
LEMMA OwedIs ==
    \A m : m \in Owed <=> /\ m.n # 0
                          /\ \/ \E e \in Endpoint : held[e] = m
                             \/ \E o \in Offset : deferred[o] = m
BY DEF Owed

LEMMA OwedIsPrimed ==
    \A m : m \in Owed' <=> /\ m.n # 0
                           /\ \/ \E e \in Endpoint : held'[e] = m
                              \/ \E o \in Offset : deferred'[o] = m
BY DEF Owed

(* Consuming the one message the root holds disposes of its request. *)
LEMMA OwedConsumed ==
    ASSUME ServiceInv, NEW e \in Endpoint, held[e] # NoMsg,
           held' = [held EXCEPT ![e] = NoMsg], deferred' = deferred
    PROVE  Owed' = Owed \ {held[e]}
<1>1. \A f \in Endpoint : f # e => held[f] = NoMsg
  BY DEF ServiceInv, IInv, AuthInv, HeldInv
<1>2. \A f \in Endpoint : held'[f] = NoMsg
  BY <1>1 DEF ServiceInv, IInv, TypeOK
<1>3. \A o \in Offset : held[e].n # 0 => deferred[o] # held[e]
  BY DEF ServiceInv, UniqueInv
<1>4. NoMsg.n = 0
  BY DEF NoMsg
<1>5. ASSUME NEW m PROVE m \in Owed' <=> m \in Owed /\ m # held[e]
  BY <1>1, <1>2, <1>3, <1>4, OwedIs, OwedIsPrimed
<1> QED
  BY <1>5

LEMMA OwedDisposed ==
    ASSUME ServiceInv, NEW o \in Offset, deferred[o] # NoMsg,
           deferred' = [deferred EXCEPT ![o] = NoMsg], held' = held
    PROVE  Owed' = Owed \ {deferred[o]}
<1>1. \A p \in Offset : deferred'[p] = IF p = o THEN NoMsg ELSE deferred[p]
  BY DEF ServiceInv, IInv, TypeOK
<1>2. \A p \in Offset : p # o /\ deferred[o].n # 0 => deferred[p] # deferred[o]
  BY DEF ServiceInv, UniqueInv
<1>3. \A f \in Endpoint : deferred[o].n # 0 => held[f] # deferred[o]
  BY DEF ServiceInv, UniqueInv
<1>4. NoMsg.n = 0
  BY DEF NoMsg
<1>5. ASSUME NEW m PROVE m \in Owed' <=> m \in Owed /\ m # deferred[o]
  BY <1>1, <1>2, <1>3, <1>4, OwedIs, OwedIsPrimed
<1> QED
  BY <1>5

(* A step that moves no client between the abstract stages and no handle. *)
LEMMA ServiceStutter ==
    ASSUME calls' = calls, \A c \in Client : Stage(c)' = Stage(c), Owed' = Owed,
           {m \in abandoned : m.n # 0}' = {m \in abandoned : m.n # 0}
    PROVE  ServiceStep
BY DEF ServiceStep, Service!vars
(* What a client asks. *)
LEMMA CallService ==
    ASSUME ServiceInv, NEW c \in Client, NEW e \in Endpoint, Call(c, e)
    PROVE  Service!Ask(c)
<1> USE DEF ServiceInv, IInv, TypeOK, Call, Queue
<1>1. Stage(c) = "idle" /\ Stage(c)' = "asked"
  BY DEF Stage
<1>2. \A d \in Client : d # c => Stage(d)' = Stage(d)
  BY DEF Stage
<1>3. Stages' = [Stages EXCEPT ![c] = "asked"]
  BY <1>1, <1>2 DEF Stages
<1>4. Owed' = Owed
  BY DEF Owed, poolVars
<1> QED
  BY <1>1, <1>3, <1>4 DEF Service!Ask, Stages

LEMMA SendService ==
    ASSUME ServiceInv, NEW c \in Client, NEW e \in Endpoint, Send(c, e)
    PROVE  ServiceStep
<1>1. \A d \in Client : Stage(d)' = Stage(d)
  BY DEF ServiceInv, IInv, TypeOK, Send, Queue, Stage
<1>2. Owed' = Owed
  BY DEF Owed, Send, Queue, poolVars
<1> QED
  BY <1>1, <1>2, ServiceStutter DEF Send, Queue

(* Suspending or resuming a client cancels the request it has open, if any. *)
LEMMA CancelService ==
    ASSUME ServiceInv, NEW c \in Client, NEW p \in {"running", "suspended"},
           phase' = [phase EXCEPT ![c] = p],
           UNCHANGED <<calls, held, deferred, abandoned>>
    PROVE  Service!Cancel(c) \/ ServiceStep
<1> USE DEF ServiceInv, IInv, TypeOK
<1>1. Stage(c)' = "idle"
  BY DEF Stage
<1>2. \A d \in Client : d # c => Stage(d)' = Stage(d)
  BY DEF Stage
<1>3. Owed' = Owed
  BY DEF Owed
<1>4. CASE Stage(c) = "idle"
  BY <1>1, <1>2, <1>3, <1>4, ServiceStutter
<1>5. CASE Stage(c) # "idle"
  <2>1. Stages' = [Stages EXCEPT ![c] = "idle"]
    BY <1>1, <1>2 DEF Stages
  <2> QED
    BY <1>3, <1>5, <2>1 DEF Service!Cancel, Stages
<1> QED
  BY <1>4, <1>5

(* A delivered call is accepted or refused; a delivered send asks nothing. *)
LEMMA DeliverService ==
    ASSUME ServiceInv, NEW e \in Endpoint, NEW s, NEW c \in Client, NEW info,
           NEW out \in {"accepted", "rejected"}, Deliver(e, s, c, info, out),
           \A f \in Endpoint : held[f] = NoMsg
    PROVE  Service!Accept(c) \/ Service!Refuse(c) \/ ServiceStep
<1> DEFINE m == [src |-> c, n |-> IF phase[c] = "calling" THEN calls[c] ELSE 0]
<1>1. /\ calls' = calls /\ abandoned' = abandoned /\ deferred' = deferred
      /\ held' = IF out = "accepted" THEN [held EXCEPT ![e] = m] ELSE held
      /\ phase' = [phase EXCEPT ![c] = IF phase[c] = "calling" /\ out = "accepted"
                                       THEN "awaiting" ELSE "running"]
  BY DEF Deliver, poolVars
<1>2. phase[c] \in {"calling", "sending"}
  BY IpcAssumption DEF ServiceInv, IInv, TypeOK, AuthInv, QueueInv, Deliver
<1>3. \A d \in Client : d # c => Stage(d)' = Stage(d)
  BY <1>1 DEF ServiceInv, IInv, TypeOK, Stage
<1>4. NoMsg.n = 0
  BY DEF NoMsg
<1>5. CASE out = "rejected"
  <2>1. Owed' = Owed
    BY <1>1, <1>5 DEF Owed
  <2>2. Stage(c)' = "idle"
    BY <1>1, <1>5 DEF ServiceInv, IInv, TypeOK, Stage
  <2>3. CASE phase[c] = "calling"
    <3>1. Stage(c) = "asked"
      BY <2>3 DEF Stage
    <3>2. Stages' = [Stages EXCEPT ![c] = "idle"]
      BY <1>3, <2>2 DEF Stages
    <3> QED
      BY <1>1, <2>1, <3>1, <3>2 DEF Service!Refuse, Stages
  <2>4. CASE phase[c] = "sending"
    <3>1. Stage(c) = "idle"
      BY <2>4 DEF Stage
    <3> QED
      BY <1>1, <1>3, <2>1, <2>2, <3>1, ServiceStutter
  <2> QED
    BY <1>2, <2>3, <2>4
<1>6. CASE out = "accepted"
  <2>1. \A f \in Endpoint : held'[f] = IF f = e THEN m ELSE NoMsg
    BY <1>1, <1>6 DEF ServiceInv, IInv, TypeOK
  <2>2. CASE phase[c] = "calling"
    <3>1. Stage(c) = "asked" /\ Stage(c)' = "accepted"
      BY <1>1, <1>6, <2>2 DEF ServiceInv, IInv, TypeOK, Stage
    <3>2. Stages' = [Stages EXCEPT ![c] = "accepted"]
      BY <1>3, <3>1 DEF Stages
    <3>3. m = [src |-> c, n |-> calls[c]] /\ m.n # 0
      BY <2>2 DEF ServiceInv, IInv, AuthInv, QueueInv
    <3>4. ASSUME NEW r PROVE r \in Owed' <=> r \in Owed \/ r = m
      <4> HIDE DEF m
      <4> QED
        BY <1>1, <1>4, <2>1, <3>3, OwedIs, OwedIsPrimed
    <3>5. Owed' = Owed \cup {[src |-> c, n |-> calls[c]]}
      BY <3>3, <3>4
    <3> QED
      BY <1>1, <3>1, <3>2, <3>5 DEF Service!Accept, Service!Current, Stages
  <2>3. CASE phase[c] = "sending"
    <3>1. Stage(c) = "idle" /\ Stage(c)' = "idle"
      BY <1>1, <1>6, <2>3 DEF ServiceInv, IInv, TypeOK, Stage
    <3>2. m.n = 0
      BY <2>3
    <3>3. ASSUME NEW r PROVE r \in Owed' <=> r \in Owed
      <4> HIDE DEF m
      <4> QED
        BY <1>1, <1>4, <2>1, <3>2, OwedIs, OwedIsPrimed
    <3>4. Owed' = Owed
      BY <3>3
    <3> QED
      BY <1>1, <1>3, <3>1, <3>4, ServiceStutter
  <2> QED
    BY <1>2, <2>2, <2>3
<1> QED
  BY <1>5, <1>6

(* Consuming the handle of request r by waking its client, if that still    *)
(* waits for r, and nobody otherwise, answers r.                            *)
LEMMA AnswerStages ==
    ASSUME ServiceInv, NEW r \in Request, r.n # 0 => r \in Owed, Owed' = Owed \ {r},
           phase' = IF Awaits(r) THEN [phase EXCEPT ![r.src] = "running"] ELSE phase,
           UNCHANGED <<calls, abandoned>>
    PROVE  ServiceStep
<1>1. r.src \in Client
  BY RequestFacts
<1>2. CASE r.n = 0
  <2>1. Owed' = Owed
    BY <1>2, OwedIs
  <2>2. \A d \in Client : Stage(d)' = Stage(d)
    BY <1>2 DEF Stage, Awaits
  <2> QED
    BY <2>1, <2>2, ServiceStutter
<1>3. CASE r.n # 0
  <2>1. Awaits(r) <=> r = Service!Current(r.src) /\ Stages[r.src] = "accepted"
    <3>1. r = [src |-> r.src, n |-> calls[r.src]] <=> r.n = calls[r.src]
      BY RequestFacts
    <3> QED
      BY <1>1, <1>3, <3>1 DEF Awaits, Service!Current, Stages, Stage
  <2>2. Stages' = IF Awaits(r) THEN [Stages EXCEPT ![r.src] = "idle"] ELSE Stages
    <3>1. CASE Awaits(r)
      <4>1. Stage(r.src)' = "idle"
        BY <1>1, <3>1 DEF ServiceInv, IInv, TypeOK, Stage
      <4>2. \A d \in Client : d # r.src => Stage(d)' = Stage(d)
        BY <1>1, <3>1 DEF ServiceInv, IInv, TypeOK, Stage
      <4> QED
        BY <3>1, <4>1, <4>2 DEF Stages
    <3>2. CASE ~Awaits(r)
      BY <3>2 DEF Stages, Stage
    <3> QED
      BY <3>1, <3>2
  <2>3. Service!Answer(r)
    BY <1>3, <2>1, <2>2 DEF Service!Answer, Stages
  <2> QED
    BY <1>3, <2>3 DEF ServiceStep, Service!Next
<1> QED
  BY <1>2, <1>3

(* A reply through the caller slot. *)
LEMMA AnswerService ==
    ASSUME ServiceInv, NEW e \in Endpoint, Consume(e), KernelReply,
           UNCHANGED <<calls, deferred, abandoned>>
    PROVE  ServiceStep
<1>1. held[e] \in Request /\ held[e].src \in Client
  BY RequestFacts DEF ServiceInv, IInv, TypeOK, Consume
<1>2. PICK r \in Request : r = held[e]
  BY <1>1
<1>3. caller = IF Awaits(r) THEN r.src ELSE None
  BY <1>2 DEF ServiceInv, IInv, AuthInv, AuthorityInv, HeldHoldsAuthority, Consume, Awaits
<1>4. phase' = IF Awaits(r) THEN [phase EXCEPT ![r.src] = "running"] ELSE phase
  BY <1>1, <1>2, <1>3, IpcAssumption DEF KernelReply
<1>5. Owed' = Owed \ {r}
  BY <1>2, OwedConsumed DEF Consume
<1>6. r.n # 0 => r \in Owed
  BY <1>2, OwedIs
<1> QED
  BY <1>4, <1>5, <1>6, AnswerStages

(* A reply through the pool slot of a DeferredReply. *)
LEMMA DeferredReplyService ==
    ASSUME ServiceInv, NEW o \in Offset, DeferredReply(o)
    PROVE  ServiceStep
<1> USE DEF DeferredReply, ConsumeDeferred
<1>1. deferred[o] \in Request /\ deferred[o].src \in Client
  BY RequestFacts DEF ServiceInv, IInv, TypeOK
<1>2. PICK r \in Request : r = deferred[o]
  BY <1>1
<1>3. saved[o] = IF Awaits(r) THEN r.src ELSE None
  BY <1>2 DEF ServiceInv, IInv, AuthInv, AuthorityInv, DeferredHoldsAuthority, Awaits
<1>4. phase' = IF Awaits(r) THEN [phase EXCEPT ![r.src] = "running"] ELSE phase
  BY <1>1, <1>2, <1>3, IpcAssumption
<1>5. Owed' = Owed \ {r}
  BY <1>2, OwedDisposed
<1>6. r.n # 0 => r \in Owed
  BY <1>2, OwedIs
<1> QED
  BY <1>4, <1>5, <1>6, AnswerStages

(* Deferring moves the request from one handle to another. *)
LEMMA DeferService ==
    ASSUME ServiceInv, NEW e \in Endpoint, Defer(e)
    PROVE  ServiceStep
<1> USE DEF Defer, Consume, clientVars
<1>1. PICK o \in Offset : Lowest(o) /\ deferred' = [deferred EXCEPT ![o] = held[e]]
  OBVIOUS
<1>2. deferred[o] = NoMsg
  BY <1>1 DEF Lowest, ServiceInv, IInv, AuthInv, AuthorityInv, ReleasedSlotsEmpty
<1>3. \A p \in Offset : deferred'[p] = IF p = o THEN held[e] ELSE deferred[p]
  BY <1>1 DEF ServiceInv, IInv, TypeOK
<1>4. \A f \in Endpoint : f # e => held[f] = NoMsg
  BY DEF ServiceInv, IInv, AuthInv, HeldInv
<1>5. \A f \in Endpoint : held'[f] = NoMsg
  BY <1>4 DEF ServiceInv, IInv, TypeOK
<1>6. NoMsg.n = 0
  BY DEF NoMsg
<1>7. ASSUME NEW m PROVE m \in Owed' <=> m \in Owed
  BY <1>2, <1>3, <1>4, <1>5, <1>6, OwedIs, OwedIsPrimed
<1>8. Owed' = Owed
  BY <1>7
<1> QED
  BY <1>8, ServiceStutter DEF Stage

(* A handle that is dropped or discarded gives its request up. *)
LEMMA GiveUpService ==
    ASSUME NEW r, r.n # 0 => r \in Owed, Owed' = Owed \ {r},
           abandoned' = abandoned \cup {r}, UNCHANGED <<calls, phase>>
    PROVE  ServiceStep
<1>1. Stages' = Stages
  BY DEF Stages, Stage
<1>2. CASE r.n = 0
  <2>1. Owed' = Owed
    BY <1>2, OwedIs
  <2>2. {m \in abandoned : m.n # 0}' = {m \in abandoned : m.n # 0}
    BY <1>2
  <2> QED
    BY <2>1, <2>2, ServiceStutter DEF Stage
<1>3. CASE r.n # 0
  <2>1. {m \in abandoned : m.n # 0}' = {m \in abandoned : m.n # 0} \cup {r}
    BY <1>3
  <2>2. Service!GiveUp(r)
    BY <1>1, <1>3, <2>1 DEF Service!GiveUp, Stages
  <2> QED
    BY <1>3, <2>2 DEF ServiceStep, Service!Next
<1> QED
  BY <1>2, <1>3

LEMMA DropService ==
    ASSUME ServiceInv, NEW e \in Endpoint, DropReceived(e)
    PROVE  ServiceStep
<1>1. PICK r : r = held[e]
  OBVIOUS
<1>2. Owed' = Owed \ {r}
  BY <1>1, OwedConsumed DEF DropReceived, Consume, poolVars
<1>3. r.n # 0 => r \in Owed
  BY <1>1, OwedIs
<1> QED
  BY <1>1, <1>2, <1>3, GiveUpService DEF DropReceived, clientVars

LEMMA DiscardService ==
    ASSUME ServiceInv, NEW o \in Offset, Discard(o) \/ DiscardFails(o)
    PROVE  ServiceStep
<1>1. PICK r : r = deferred[o]
  OBVIOUS
<1>2. Owed' = Owed \ {r}
  BY <1>1, OwedDisposed DEF Discard, DiscardFails, ConsumeDeferred
<1>3. r.n # 0 => r \in Owed
  BY <1>1, OwedIs
<1> QED
  BY <1>1, <1>2, <1>3, GiveUpService DEF Discard, DiscardFails, clientVars

(* A step that touches neither clients nor handles. *)
LEMMA QuietService ==
    ASSUME UNCHANGED <<clientVars, held, poolVars, abandoned>>
    PROVE  ServiceStep
BY ServiceStutter DEF Stage, Owed, clientVars, poolVars

(* Only an accepted delivery makes a handle for a call, and that call was   *)
(* still queued: every older handle of its client has a smaller number.     *)
LEMMA DeliverUnique ==
    ASSUME ServiceInv, NEW e \in Endpoint, NEW s, NEW c \in Client, NEW info,
           NEW out \in {"accepted", "rejected"}, Deliver(e, s, c, info, out),
           \A f \in Endpoint : held[f] = NoMsg
    PROVE  UniqueInv'
<1> DEFINE m == [src |-> c, n |-> IF phase[c] = "calling" THEN calls[c] ELSE 0]
<1>1. deferred' = deferred /\ \A f \in Endpoint : held'[f] \in {NoMsg, m}
  BY DEF Deliver, poolVars, ServiceInv, IInv, TypeOK
<1>2. NoMsg.n = 0
  BY DEF NoMsg
<1>3. ASSUME NEW o \in Offset, m.n # 0 PROVE m # deferred[o]
  BY <1>3, IpcAssumption, RequestFacts
  DEF ServiceInv, IInv, TypeOK, AuthInv, HistoryInv, Older, NoMsg
<1> HIDE DEF m
<1> QED
  BY <1>1, <1>2, <1>3 DEF ServiceInv, UniqueInv

LEMMA ConsumeUnique ==
    ASSUME ServiceInv, NEW e \in Endpoint, Consume(e), deferred' = deferred
    PROVE  UniqueInv'
<1>1. NoMsg.n = 0
  BY DEF NoMsg
<1>2. \A f \in Endpoint : held'[f] = IF f = e THEN NoMsg ELSE held[f]
  BY DEF Consume, ServiceInv, IInv, TypeOK
<1> QED
  BY <1>1, <1>2 DEF ServiceInv, UniqueInv

LEMMA DeferUnique ==
    ASSUME ServiceInv, NEW e \in Endpoint, Defer(e)
    PROVE  UniqueInv'
<1>1. PICK o \in Offset : deferred' = [deferred EXCEPT ![o] = held[e]]
  BY DEF Defer
<1>2. \A p \in Offset : deferred'[p] = IF p = o THEN held[e] ELSE deferred[p]
  BY <1>1 DEF ServiceInv, IInv, TypeOK
<1>3. \A f \in Endpoint : held'[f] = NoMsg
  BY DEF Defer, Consume, ServiceInv, IInv, TypeOK, AuthInv, HeldInv
<1>4. NoMsg.n = 0
  BY DEF NoMsg
<1> QED
  BY <1>2, <1>3, <1>4 DEF ServiceInv, UniqueInv

LEMMA DisposeUnique ==
    ASSUME ServiceInv, NEW o \in Offset, ConsumeDeferred(o), held' = held
    PROVE  UniqueInv'
<1>1. NoMsg.n = 0
  BY DEF NoMsg
<1>2. \A p \in Offset : deferred'[p] = IF p = o THEN NoMsg ELSE deferred[p]
  BY DEF ConsumeDeferred, ServiceInv, IInv, TypeOK
<1> QED
  BY <1>1, <1>2 DEF ServiceInv, UniqueInv

LEMMA UniqueStep ==
    ASSUME ServiceInv, Next, Sequential
    PROVE  UniqueInv'
<1> USE DEF ServiceInv, IInv
<1>1. ASSUME NEW c \in Client, NEW e \in Endpoint,
             Call(c, e)
      PROVE  UniqueInv'
  BY <1>1 DEF UniqueInv, Call, Queue, poolVars
<1>2. ASSUME NEW c \in Client, NEW e \in Endpoint,
             Send(c, e)
      PROVE  UniqueInv'
  BY <1>2 DEF UniqueInv, Send, Queue, poolVars
<1>3. ASSUME NEW c \in Client,
             Suspend(c)
      PROVE  UniqueInv'
  BY <1>3 DEF UniqueInv, Suspend
<1>4. ASSUME NEW c \in Client,
             Resume(c)
      PROVE  UniqueInv'
  BY <1>4 DEF UniqueInv, Resume
<1>5. ASSUME NEW s \in Index,
             ReserveReceiveSlot(s)
      PROVE  UniqueInv'
  BY <1>5 DEF UniqueInv, ReserveReceiveSlot, poolVars
<1>6. ASSUME DropReceiveSlot
      PROVE  UniqueInv'
  BY <1>6 DEF UniqueInv, DropReceiveSlot, poolVars
<1>7. ASSUME NEW e \in Endpoint, NEW s \in Slot \cup {0},
             ReceivePending(e, s)
      PROVE  UniqueInv'
  BY <1>7 DEF UniqueInv, ReceivePending, poolVars
<1>8. ASSUME NEW e \in Endpoint, NEW s \in Slot \cup {0},
             Receive(e, s)
      PROVE  UniqueInv'
  BY <1>8 DEF UniqueInv, Receive, poolVars
<1>9. ASSUME NEW e \in Endpoint, NEW s \in Slot \cup {0},
             TryReceiveNothing(e, s)
      PROVE  UniqueInv'
  BY <1>9 DEF UniqueInv, TryReceiveNothing, poolVars
<1>10. ASSUME NEW e \in Endpoint, NEW s \in Slot \cup {0}, NEW c \in Client, NEW info \in Info,
             TryReceive(e, s, c, info)
      PROVE  UniqueInv'
  <2>1. Outcome(e, s, c, info, TRUE) \in {"accepted", "rejected"}
    BY <1>10, OutcomeSound, DestinationAccepted DEF TryReceive
  <2>2. \A f \in Endpoint : held[f] = NoMsg
    BY <1>10, NoneHeld DEF TryReceive
  <2> QED
    BY <1>10, <2>1, <2>2, DeliverUnique DEF TryReceive
<1>11. ASSUME NEW c \in Client, NEW info \in Info,
             CompleteReceive(c, info)
      PROVE  UniqueInv'
  <2> waiting \in Endpoint
    BY <1>11 DEF CompleteReceive, RootRuns, TypeOK
  <2>1. Outcome(waiting, armed, c, info, FALSE) \in {"accepted", "rejected"}
    BY <1>11, OutcomeSound, DestinationAccepted DEF CompleteReceive
  <2>2. \A f \in Endpoint : held[f] = NoMsg
    BY <1>11 DEF CompleteReceive, RootRuns, AuthInv, HeldInv
  <2> QED
    BY <1>11, <2>1, <2>2, DeliverUnique DEF CompleteReceive
<1>12. ASSUME NEW e \in Endpoint,
             Reply(e)
      PROVE  UniqueInv'
  BY <1>12, ConsumeUnique DEF Reply, poolVars
<1>13. ASSUME NEW e \in Endpoint,
             Finish(e)
      PROVE  UniqueInv'
  BY <1>13, ConsumeUnique DEF Finish, poolVars
<1>14. ASSUME NEW e \in Endpoint,
             Defer(e)
      PROVE  UniqueInv'
  BY <1>14, DeferUnique
<1>15. ASSUME NEW e \in Endpoint,
             DeferExhausted(e)
      PROVE  UniqueInv'
  BY <1>15, ConsumeUnique DEF DeferExhausted, poolVars
<1>16. ASSUME NEW e \in Endpoint,
             DeferRefused(e)
      PROVE  UniqueInv'
  BY <1>16, ConsumeUnique DEF DeferRefused
<1>17. ASSUME NEW e \in Endpoint,
             DropReceived(e)
      PROVE  UniqueInv'
  BY <1>17, ConsumeUnique DEF DropReceived, poolVars
<1>18. ASSUME NEW o \in Offset,
             DeferredReply(o)
      PROVE  UniqueInv'
  BY <1>18, DisposeUnique DEF DeferredReply
<1>19. ASSUME NEW o \in Offset,
             Discard(o)
      PROVE  UniqueInv'
  BY <1>19, DisposeUnique DEF Discard
<1>20. ASSUME NEW o \in Offset,
             DiscardFails(o)
      PROVE  UniqueInv'
  BY <1>20, DisposeUnique DEF DiscardFails
<1> QED
  BY <1>1, <1>2, <1>3, <1>4, <1>5, <1>6, <1>7, <1>8, <1>9, <1>10,
     <1>11, <1>12, <1>13, <1>14, <1>15, <1>16, <1>17, <1>18, <1>19, <1>20
  DEF Next, ClientStep, ControlStep, SlotStep, ReceiveStep, MessageStep, DeferredStep,
      DropDeferred

(* Every step is a step of the abstract service or leaves it unchanged. *)
LEMMA ServiceNext ==
    ASSUME ServiceInv, Next, Sequential
    PROVE  ServiceStep
<1> USE DEF ServiceInv, IInv
<1>1. ASSUME NEW c \in Client, NEW e \in Endpoint,
             Call(c, e)
      PROVE  ServiceStep
  BY <1>1, CallService DEF ServiceStep, Service!Next
<1>2. ASSUME NEW c \in Client, NEW e \in Endpoint,
             Send(c, e)
      PROVE  ServiceStep
  BY <1>2, SendService
<1>3. ASSUME NEW c \in Client,
             Suspend(c)
      PROVE  ServiceStep
  BY <1>3, CancelService DEF Suspend, ServiceStep, Service!Next
<1>4. ASSUME NEW c \in Client,
             Resume(c)
      PROVE  ServiceStep
  BY <1>4, CancelService DEF Resume, ServiceStep, Service!Next
<1>5. ASSUME NEW s \in Index,
             ReserveReceiveSlot(s)
      PROVE  ServiceStep
  BY <1>5, QuietService DEF ReserveReceiveSlot
<1>6. ASSUME DropReceiveSlot
      PROVE  ServiceStep
  BY <1>6, QuietService DEF DropReceiveSlot
<1>7. ASSUME NEW e \in Endpoint, NEW s \in Slot \cup {0},
             ReceivePending(e, s)
      PROVE  ServiceStep
  BY <1>7, QuietService DEF ReceivePending
<1>8. ASSUME NEW e \in Endpoint, NEW s \in Slot \cup {0},
             Receive(e, s)
      PROVE  ServiceStep
  BY <1>8, QuietService DEF Receive
<1>9. ASSUME NEW e \in Endpoint, NEW s \in Slot \cup {0},
             TryReceiveNothing(e, s)
      PROVE  ServiceStep
  BY <1>9, QuietService DEF TryReceiveNothing
<1>10. ASSUME NEW e \in Endpoint, NEW s \in Slot \cup {0}, NEW c \in Client, NEW info \in Info,
             TryReceive(e, s, c, info)
      PROVE  ServiceStep
  <2>1. Outcome(e, s, c, info, TRUE) \in {"accepted", "rejected"}
    BY <1>10, OutcomeSound, DestinationAccepted DEF TryReceive
  <2>2. \A f \in Endpoint : held[f] = NoMsg
    BY <1>10, NoneHeld DEF TryReceive
  <2> QED
    BY <1>10, <2>1, <2>2, DeliverService DEF TryReceive, ServiceStep, Service!Next
<1>11. ASSUME NEW c \in Client, NEW info \in Info,
             CompleteReceive(c, info)
      PROVE  ServiceStep
  <2> waiting \in Endpoint
    BY <1>11 DEF CompleteReceive, RootRuns, TypeOK
  <2>1. Outcome(waiting, armed, c, info, FALSE) \in {"accepted", "rejected"}
    BY <1>11, OutcomeSound, DestinationAccepted DEF CompleteReceive
  <2>2. \A f \in Endpoint : held[f] = NoMsg
    BY <1>11 DEF CompleteReceive, RootRuns, AuthInv, HeldInv
  <2> QED
    BY <1>11, <2>1, <2>2, DeliverService DEF CompleteReceive, ServiceStep, Service!Next
<1>12. ASSUME NEW e \in Endpoint,
             Reply(e)
      PROVE  ServiceStep
  BY <1>12, AnswerService DEF Reply, poolVars
<1>13. ASSUME NEW e \in Endpoint,
             Finish(e)
      PROVE  ServiceStep
  BY <1>13, AnswerService DEF Finish, ClearImplicitReply, poolVars
<1>14. ASSUME NEW e \in Endpoint,
             Defer(e)
      PROVE  ServiceStep
  BY <1>14, DeferService
<1>15. ASSUME NEW e \in Endpoint,
             DeferExhausted(e)
      PROVE  ServiceStep
  BY <1>15, AnswerService DEF DeferExhausted, ClearImplicitReply, poolVars
<1>16. ASSUME NEW e \in Endpoint,
             DeferRefused(e)
      PROVE  ServiceStep
  BY <1>16, AnswerService DEF DeferRefused, ClearImplicitReply
<1>17. ASSUME NEW e \in Endpoint,
             DropReceived(e)
      PROVE  ServiceStep
  BY <1>17, DropService
<1>18. ASSUME NEW o \in Offset,
             DeferredReply(o)
      PROVE  ServiceStep
  BY <1>18, DeferredReplyService
<1>19. ASSUME NEW o \in Offset,
             Discard(o)
      PROVE  ServiceStep
  BY <1>19, DiscardService
<1>20. ASSUME NEW o \in Offset,
             DiscardFails(o)
      PROVE  ServiceStep
  BY <1>20, DiscardService
<1> QED
  BY <1>1, <1>2, <1>3, <1>4, <1>5, <1>6, <1>7, <1>8, <1>9, <1>10,
     <1>11, <1>12, <1>13, <1>14, <1>15, <1>16, <1>17, <1>18, <1>19, <1>20
  DEF Next, ClientStep, ControlStep, SlotStep, ReceiveStep, MessageStep, DeferredStep,
      DropDeferred

(* The IPC code implements RequestReply for any clients, endpoints and pool *)
(* size, whatever the root drops, provided it does not receive on one       *)
(* endpoint while it holds a message of another: every reply, error return, *)
(* deferral, suspend and dropped handle does to the open requests what one  *)
(* action of the abstract service allows, and nothing else.                 *)
THEOREM ServiceImplemented ==
    ASSUME Sequential
    PROVE  Spec => ImplementsService
<1>1. Init => ServiceInv /\ Service!Init
  <2>1. Init => UniqueInv
    BY DEF Init, UniqueInv, NoMsg
  <2>2. Init => Service!Init
    BY DEF Init, Service!Init, Stage, Owed, NoMsg
  <2> QED
    BY <2>1, <2>2, InitInv DEF ServiceInv
<1>2. ServiceInv /\ [Next]_vars => ServiceInv'
  <2>1. ASSUME UniqueInv, UNCHANGED vars PROVE UniqueInv'
    BY <2>1 DEF UniqueInv, vars, poolVars
  <2> QED
    BY <2>1, UniqueStep, Inductive DEF ServiceInv
<1>3. ServiceInv /\ [Next]_vars => [Service!Next]_Service!vars
  <2>1. ASSUME UNCHANGED vars PROVE ServiceStep
    BY <2>1, QuietService DEF vars
  <2> QED
    BY <2>1, ServiceNext DEF ServiceStep
<1> QED
  BY <1>1, <1>2, <1>3, PTL DEF Spec, ImplementsService, Service!Spec

=============================================================================
