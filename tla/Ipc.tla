-------------------------------- MODULE Ipc --------------------------------
(***************************************************************************)
(* Request/reply IPC of the root task: crates/substrate/src/ipc.rs, with   *)
(* the slot bookkeeping of ipc_state.rs, the fault adapter of fault.rs and *)
(* the task controls of task.rs and thread.rs that cancel IPC.             *)
(*                                                                         *)
(* The root task is one thread; every client is another seL4 thread.  A    *)
(* client blocks in a call (or a fault) until somebody uses the reply      *)
(* capability the kernel made for it.  The classic kernel keeps that       *)
(* capability in ONE caller slot of the receiving thread, while the code   *)
(* keeps one flag, implicit_reply_pending, PER Endpoint value.             *)
(***************************************************************************)
EXTENDS Naturals, FiniteSets

CONSTANTS
    Client,          \* threads that call, send and fault
    Endpoint,        \* Endpoint values the root task owns
    FaultEndpoint,   \* those wrapped by fault.rs
    None,            \* "no client", "no endpoint"
    Badge,           \* badge minted on each client's endpoint capability
    Info,            \* message shapes the kernel may report
    MessageCapacity, \* MESSAGE_CAPACITY
    ExtraCapacity,   \* EXTRA_CAPACITY
    ReplyCapacity,   \* slots of the ReplyPool
    MaxSlots,        \* SlotTracker::MAX_SLOTS
    CSpaceSize,      \* capacity of the child CSpace (2^size_bits)
    MaxCalls,        \* bound: calls per client
    Overlap,         \* may the root receive while it holds another endpoint's message?
    Drops            \* may the root drop a #[must_use] handle?

ASSUME IpcAssumption ==
    /\ None \notin Client \cup Endpoint
    /\ FaultEndpoint \subseteq Endpoint
    /\ Badge \in [Client -> Nat \ {0}]
    /\ Info \subseteq [length : Nat, extra : Nat, unwrapped : Nat, decodes : BOOLEAN]
    /\ MessageCapacity \in Nat /\ ExtraCapacity \in Nat
    /\ ReplyCapacity \in 1..64
    /\ MaxSlots \in Nat
    /\ CSpaceSize \in 1..MaxSlots
    /\ MaxCalls \in Nat
    /\ Overlap \in BOOLEAN /\ Drops \in BOOLEAN

Offset == 0..(ReplyCapacity - 1)   \* offsets into ReplyPool.slots
Index == 0..(MaxSlots - 1)         \* indices of SlotTracker.states
Slot == 1..(CSpaceSize - 1)        \* slots of the child CNode but the null slot

FREE == "free"
RESERVED == "reserved"
OCCUPIED == "occupied"

VARIABLES
    phase,       \* thread state of each client
    target,      \* endpoint a queued client is blocked on
    calls,       \* history: number of calls each client has made
    pending,     \* implicit_reply_pending of each Endpoint
    held,        \* the live ReceivedMessage of each Endpoint
    caller,      \* kernel: caller capability of the root thread
    saved,       \* kernel: reply capability in each pool slot
    occupied,    \* the set bits of ReplyPool.occupied
    deferred,    \* the live DeferredReply of each pool slot
    waiting,     \* endpoint the root thread is blocked receiving on
    armed,       \* slot given to that receive
    reservation, \* slot of the live ReceiveSlot value
    tracker,     \* SlotTracker.states
    cnode,       \* kernel: is there a capability in this child slot?
    abandoned    \* history: requests whose reply authority was given up unused

clientVars == <<phase, target, calls>>
poolVars == <<saved, occupied, deferred>>
slotVars == <<reservation, tracker, cnode>>
vars == <<clientVars, pending, held, caller, poolVars, waiting, armed, slotVars,
          abandoned>>

(***************************************************************************)
(* A handle of the root remembers, as history, which request it stands     *)
(* for: call number n of client src, or a one-way send (n = 0).            *)
(***************************************************************************)
NoMsg == [src |-> None, n |-> 0]
Request == [src : Client, n : 0..MaxCalls]

Phase == {"running", "calling", "sending", "awaiting", "suspended"}

(* Each variable ranges over the values its Rust or kernel type allows. *)
TypeOK ==
    /\ phase \in [Client -> Phase]
    /\ target \in [Client -> Endpoint \cup {None}]
    /\ calls \in [Client -> 0..MaxCalls]
    /\ pending \in [Endpoint -> BOOLEAN]
    /\ held \in [Endpoint -> Request \cup {NoMsg}]
    /\ caller \in Client \cup {None}
    /\ saved \in [Offset -> Client \cup {None}]
    /\ occupied \in SUBSET Offset
    /\ deferred \in [Offset -> Request \cup {NoMsg}]
    /\ waiting \in Endpoint \cup {None}
    /\ armed \in Slot \cup {0}
    /\ reservation \in Slot \cup {0}
    /\ tracker \in [Index -> {FREE, RESERVED, OCCUPIED}]
    /\ cnode \in [Slot -> BOOLEAN]
    /\ abandoned \in SUBSET Request

Init ==
    /\ phase = [c \in Client |-> "suspended"]
    /\ target = [c \in Client |-> None]
    /\ calls = [c \in Client |-> 0]
    /\ pending = [e \in Endpoint |-> FALSE]
    /\ held = [e \in Endpoint |-> NoMsg]
    /\ caller = None
    /\ saved = [o \in Offset |-> None]
    /\ occupied = {}
    /\ deferred = [o \in Offset |-> NoMsg]
    /\ waiting = None
    /\ armed = 0
    /\ reservation = 0
    /\ cnode \in [Slot -> BOOLEAN]   \* the capabilities CSpace::create minted
    /\ tracker = [s \in Index |-> IF s \in Slot /\ cnode[s] THEN OCCUPIED ELSE FREE]
    /\ abandoned = {}

-----------------------------------------------------------------------------
(***************************************************************************)
(* The kernel, as the code in src/ uses it.                                *)
(***************************************************************************)

(* seL4_Reply: wakes whoever the caller slot names; a no-op when it is empty. *)
KernelReply ==
    /\ phase' = IF caller = None THEN phase ELSE [phase EXCEPT ![caller] = "running"]
    /\ caller' = None

(* Cancelling the IPC of a blocked thread takes it out of the endpoint's    *)
(* queue and deletes the reply capability somebody may hold for it.         *)
CancelIpc(c) ==
    /\ target' = [target EXCEPT ![c] = None]
    /\ caller' = IF caller = c THEN None ELSE caller
    /\ saved' = [o \in Offset |-> IF saved[o] = c THEN None ELSE saved[o]]

(* Capability transfer: a capability to the endpoint itself arrives as an   *)
(* unwrapped badge; one other capability fits if there is an empty slot.    *)
Transferable(info, s) ==
    \/ info.extra = info.unwrapped
    \/ /\ s # 0
       /\ ~cnode[s]
       /\ info.extra = info.unwrapped + 1

Installed(info) == info.extra > info.unwrapped

(* The root thread runs unless a receive has blocked it. *)
RootRuns == waiting = None

-----------------------------------------------------------------------------
(***************************************************************************)
(* Clients                                                                 *)
(***************************************************************************)
Queue(c, e, how) ==
    /\ phase[c] = "running"
    /\ phase' = [phase EXCEPT ![c] = how]
    /\ target' = [target EXCEPT ![c] = e]
    /\ UNCHANGED <<pending, held, caller, poolVars, waiting, armed, slotVars, abandoned>>

(* A call through a badged endpoint capability, or a fault on a fault route. *)
Call(c, e) ==
    /\ calls[c] < MaxCalls
    /\ calls' = [calls EXCEPT ![c] = @ + 1]
    /\ Queue(c, e, "calling")

Send(c, e) == Queue(c, e, "sending") /\ UNCHANGED calls

-----------------------------------------------------------------------------
(***************************************************************************)
(* Task controls: TCB suspend and TCB resume on a client.                  *)
(***************************************************************************)
Suspend(c) ==
    /\ RootRuns
    /\ phase' = [phase EXCEPT ![c] = "suspended"]
    /\ CancelIpc(c)
    /\ UNCHANGED <<calls, pending, held, occupied, deferred, waiting, armed, slotVars,
                   abandoned>>

(* Resuming a blocked thread cancels its IPC; it restarts where it called. *)
Resume(c) ==
    /\ RootRuns
    /\ phase[c] # "running"
    /\ phase' = [phase EXCEPT ![c] = "running"]
    /\ CancelIpc(c)
    /\ UNCHANGED <<calls, pending, held, occupied, deferred, waiting, armed, slotVars,
                   abandoned>>

-----------------------------------------------------------------------------
(***************************************************************************)
(* Receive slots                                                           *)
(***************************************************************************)

(* Mutant: the bound is off by one. *)
AddressableBound(s) == s # 0 /\ s <= CSpaceSize

(* SlotTracker::state_mut: neither the null slot nor one beyond the CNode. *)
Addressable(s) == s # 0 /\ s < CSpaceSize

(* Mutant: only a reservation refuses a reservation. *)
ReserveUnreserved(s) ==
    /\ RootRuns
    /\ reservation = 0
    /\ Addressable(s)
    /\ tracker[s] # RESERVED
    /\ tracker' = [tracker EXCEPT ![s] = RESERVED]
    /\ reservation' = s
    /\ UNCHANGED <<clientVars, pending, held, caller, poolVars, waiting, armed, cnode,
                   abandoned>>

(* Task::receive_slot.  The ReceiveSlot borrows the tracker, so one lives at a time. *)
ReserveReceiveSlot(s) ==
    /\ RootRuns
    /\ reservation = 0
    /\ Addressable(s)
    /\ tracker[s] = FREE
    /\ tracker' = [tracker EXCEPT ![s] = RESERVED]
    /\ reservation' = s
    /\ UNCHANGED <<clientVars, pending, held, caller, poolVars, waiting, armed, cnode,
                   abandoned>>

(* ReceiveSlot is not #[must_use] and has no Drop: its slot stays RESERVED. *)
DropReceiveSlot ==
    /\ RootRuns
    /\ reservation # 0
    /\ reservation' = 0
    /\ UNCHANGED <<clientVars, pending, held, caller, poolVars, waiting, armed, tracker,
                   cnode, abandoned>>

(* ReceiveSlot::finish: commit or cancel, refused unless the slot is RESERVED. *)
SlotRefused(s) == s # 0 /\ tracker[s] # RESERVED

(* Mutant: every receive cancels its reservation. *)
FinishSlotCancels(s, received) ==
    tracker' = IF s = 0 \/ SlotRefused(s) THEN tracker
               ELSE [tracker EXCEPT ![s] = FREE]

FinishSlot(s, received) ==
    tracker' = IF s = 0 \/ SlotRefused(s) THEN tracker
               ELSE [tracker EXCEPT ![s] = IF received THEN OCCUPIED ELSE FREE]

-----------------------------------------------------------------------------
(***************************************************************************)
(* Endpoint::receive, Endpoint::try_receive and FaultEndpoint::receive     *)
(***************************************************************************)

(* The slot argument: none, or the live ReceiveSlot, which is moved in.     *)
(* FaultEndpoint::receive always passes None.                               *)
SlotArgument(e, s) == s = 0 \/ (s = reservation /\ e \notin FaultEndpoint)
Moved(s) == reservation' = IF s = 0 THEN reservation ELSE 0

(* Nothing but the caller's discipline keeps a second endpoint from being   *)
(* received on while a message of the first is unanswered.                  *)
MayReceive(e) == Overlap \/ \A f \in Endpoint \ {e} : held[f] = NoMsg

(* The flag is already set: ReplyPending.  The slot argument is dropped.    *)
ReceivePending(e, s) ==
    /\ RootRuns
    /\ pending[e]
    /\ SlotArgument(e, s)
    /\ Moved(s)
    /\ UNCHANGED <<clientVars, pending, held, caller, poolVars, waiting, armed, tracker,
                   cnode, abandoned>>

(* Mutant: the flag is set but not tested. *)
ReceiveUntested(e, s) ==
    /\ RootRuns
    /\ MayReceive(e)
    /\ SlotArgument(e, s)
    /\ pending' = [pending EXCEPT ![e] = TRUE]
    /\ waiting' = e
    /\ armed' = s
    /\ Moved(s)
    /\ caller' = None
    /\ UNCHANGED <<clientVars, held, poolVars, tracker, cnode, abandoned>>

(* receive, up to the system call: the kernel deletes the caller capability *)
(* of the receiving thread before it blocks.                                *)
Receive(e, s) ==
    /\ RootRuns
    /\ MayReceive(e)
    /\ ~pending[e]
    /\ SlotArgument(e, s)
    /\ pending' = [pending EXCEPT ![e] = TRUE]
    /\ waiting' = e
    /\ armed' = s
    /\ Moved(s)
    /\ caller' = None
    /\ UNCHANGED <<clientVars, held, poolVars, tracker, cnode, abandoned>>

(* Mutant: the flag is not taken back when nothing was there. *)
TryReceiveStuck(e, s) ==
    /\ RootRuns
    /\ MayReceive(e)
    /\ e \notin FaultEndpoint
    /\ ~pending[e]
    /\ \A c \in Client : target[c] # e
    /\ SlotArgument(e, s)
    /\ Moved(s)
    /\ FinishSlot(s, FALSE)
    /\ caller' = None
    /\ pending' = [pending EXCEPT ![e] = TRUE]
    /\ UNCHANGED <<clientVars, held, poolVars, waiting, armed, cnode, abandoned>>

(* try_receive with nobody queued: the kernel reports an empty message.     *)
(* The caller capability has been deleted all the same.                     *)
TryReceiveNothing(e, s) ==
    /\ RootRuns
    /\ MayReceive(e)
    /\ e \notin FaultEndpoint
    /\ ~pending[e]
    /\ \A c \in Client : target[c] # e
    /\ SlotArgument(e, s)
    /\ Moved(s)
    /\ FinishSlot(s, FALSE)
    /\ caller' = None
    /\ UNCHANGED <<clientVars, pending, held, poolVars, waiting, armed, cnode, abandoned>>

(* Mutant: a badged but empty message is taken for none. *)
LooksEmptyUnbadged(c, info) == info.length = 0 /\ info.extra = 0

(* try_receive takes a message for "nobody was there" by these three tests. *)
LooksEmpty(c, info) == Badge[c] = 0 /\ info.length = 0 /\ info.extra = 0

(* Message::received bounds the copy out of the IPC buffer. *)
TooLarge(info) == info.length > MessageCapacity \/ info.extra > ExtraCapacity

(* FaultEndpoint::receive wants a badge, no capability and a known fault. *)
NotAFault(c, info) ==
    Badge[c] = 0 \/ info.unwrapped # 0 \/ info.extra # 0 \/ ~info.decodes

(* The validations that answer the sender with an empty reply.              *)
Rejected(e, s, c, info) ==
    \/ info.extra > (IF s = 0 THEN 0 ELSE 1)
    \/ TooLarge(info)
    \/ e \in FaultEndpoint /\ NotAFault(c, info)

(* The early returns, in the order the code makes them. *)
Outcome(e, s, c, info, poll) ==
    IF poll /\ LooksEmpty(c, info) THEN "none"
    ELSE IF SlotRefused(s) THEN "refused"
    ELSE IF Rejected(e, s, c, info) THEN "rejected"
    ELSE "accepted"

(* Delivery of c's message to the root and everything the receive does next *)
(* with the result out: bookkeeping of the slot, validation, and either a   *)
(* ReceivedMessage or clear_implicit_reply.                                 *)
Deliver(e, s, c, info, out) ==
    /\ target[c] = e
    /\ Transferable(info, s)
    /\ target' = [target EXCEPT ![c] = None]
    /\ phase' = [phase EXCEPT ![c] =
                   IF phase[c] = "calling" /\ out # "rejected" THEN "awaiting" ELSE "running"]
    /\ caller' = IF phase[c] = "calling" /\ out # "rejected" THEN c ELSE None
    /\ FinishSlot(s, info.extra # 0)
    /\ cnode' = IF s # 0 /\ Installed(info) THEN [cnode EXCEPT ![s] = TRUE] ELSE cnode
    /\ pending' = [pending EXCEPT ![e] = out \in {"accepted", "refused"}]
    /\ held' = IF out # "accepted" THEN held
               ELSE [held EXCEPT ![e] =
                      [src |-> c, n |-> IF phase[c] = "calling" THEN calls[c] ELSE 0]]
    /\ UNCHANGED <<calls, poolVars, abandoned>>

(* The blocked receive completes. *)
CompleteReceive(c, info) ==
    /\ ~RootRuns
    /\ Deliver(waiting, armed, c, info, Outcome(waiting, armed, c, info, FALSE))
    /\ waiting' = None
    /\ armed' = 0
    /\ UNCHANGED reservation

(* try_receive with c at the head of the queue. *)
TryReceive(e, s, c, info) ==
    /\ RootRuns
    /\ MayReceive(e)
    /\ e \notin FaultEndpoint
    /\ ~pending[e]
    /\ SlotArgument(e, s)
    /\ Moved(s)
    /\ Deliver(e, s, c, info, Outcome(e, s, c, info, TRUE))
    /\ UNCHANGED <<waiting, armed>>

-----------------------------------------------------------------------------
(***************************************************************************)
(* ReceivedMessage: reply, finish, defer.  Each consumes the handle.       *)
(***************************************************************************)
Consume(e) ==
    /\ RootRuns
    /\ held[e] # NoMsg
    /\ held' = [held EXCEPT ![e] = NoMsg]

(* Mutant: the flag stays set after the reply. *)
ReplyKeepsFlag(e) ==
    /\ Consume(e)
    /\ KernelReply
    /\ UNCHANGED <<target, calls, pending, poolVars, waiting, armed, slotVars, abandoned>>

(* reply, and FaultEndpoint::reply *)
Reply(e) ==
    /\ Consume(e)
    /\ KernelReply
    /\ pending' = [pending EXCEPT ![e] = FALSE]
    /\ UNCHANGED <<target, calls, poolVars, waiting, armed, slotVars, abandoned>>

ClearImplicitReply(e) == KernelReply /\ pending' = [pending EXCEPT ![e] = FALSE]

Finish(e) ==
    /\ e \notin FaultEndpoint
    /\ Consume(e)
    /\ ClearImplicitReply(e)
    /\ UNCHANGED <<target, calls, poolVars, waiting, armed, slotVars, abandoned>>

(* ReplyPool::reserve picks the lowest clear bit. *)
Lowest(o) == o \in Offset \ occupied /\ \A p \in Offset \ occupied : o <= p

(* CNode_SaveCaller: with no caller capability the kernel either reports an *)
(* error or succeeds and moves nothing.                                     *)
SaveCallerFails(o) == caller = None \/ saved[o] # None

(* Mutant: the error return forgets the caller. *)
DeferExhaustedSilent(e) ==
    /\ e \notin FaultEndpoint
    /\ occupied = Offset
    /\ Consume(e)
    /\ pending' = [pending EXCEPT ![e] = FALSE]
    /\ UNCHANGED <<clientVars, caller, poolVars, waiting, armed, slotVars, abandoned>>

(* defer with a full pool: NoReplySlots *)
DeferExhausted(e) ==
    /\ e \notin FaultEndpoint
    /\ occupied = Offset
    /\ Consume(e)
    /\ ClearImplicitReply(e)
    /\ UNCHANGED <<target, calls, poolVars, waiting, armed, slotVars, abandoned>>

(* defer whose save_caller fails releases the slot again: NoReplyAuthority *)
DeferRefused(e) ==
    /\ e \notin FaultEndpoint
    /\ Consume(e)
    /\ \E o \in Offset :
         /\ Lowest(o)
         /\ SaveCallerFails(o)
         /\ occupied' = occupied \ {o}
    /\ ClearImplicitReply(e)
    /\ UNCHANGED <<target, calls, saved, deferred, waiting, armed, slotVars, abandoned>>

(* Mutant: the reply capability is not saved. *)
DeferUnsaved(e) ==
    /\ e \notin FaultEndpoint
    /\ Consume(e)
    /\ \E o \in Offset :
         /\ Lowest(o)
         /\ occupied' = occupied \cup {o}
         /\ deferred' = [deferred EXCEPT ![o] = held[e]]
    /\ pending' = [pending EXCEPT ![e] = FALSE]
    /\ UNCHANGED <<clientVars, caller, saved, waiting, armed, slotVars, abandoned>>

(* defer, saving the caller capability in the lowest free pool slot *)
Defer(e) ==
    /\ e \notin FaultEndpoint
    /\ Consume(e)
    /\ \E o \in Offset :
         /\ Lowest(o)
         /\ saved[o] = None
         /\ occupied' = occupied \cup {o}
         /\ saved' = [saved EXCEPT ![o] = caller]
         /\ deferred' = [deferred EXCEPT ![o] = held[e]]
    /\ caller' = None
    /\ pending' = [pending EXCEPT ![e] = FALSE]
    /\ UNCHANGED <<clientVars, waiting, armed, slotVars, abandoned>>

(* Dropping the handle: the flag stays set and the caller stays blocked. *)
DropReceived(e) ==
    /\ Drops
    /\ Consume(e)
    /\ abandoned' = abandoned \cup {held[e]}
    /\ UNCHANGED <<clientVars, pending, caller, poolVars, waiting, armed, slotVars>>

-----------------------------------------------------------------------------
(***************************************************************************)
(* DeferredReply: reply, discard.                                          *)
(***************************************************************************)
ConsumeDeferred(o) ==
    /\ RootRuns
    /\ deferred[o] # NoMsg
    /\ deferred' = [deferred EXCEPT ![o] = NoMsg]

(* Mutant: answers through the implicit authority. *)
DeferredReplyImplicit(o) ==
    /\ ConsumeDeferred(o)
    /\ KernelReply
    /\ occupied' = occupied \ {o}
    /\ UNCHANGED <<target, calls, pending, held, saved, waiting, armed, slotVars,
                   abandoned>>

(* Sending on the saved capability uses it up; on an empty slot it is lost. *)
DeferredReply(o) ==
    /\ ConsumeDeferred(o)
    /\ phase' = IF saved[o] = None THEN phase ELSE [phase EXCEPT ![saved[o]] = "running"]
    /\ saved' = [saved EXCEPT ![o] = None]
    /\ occupied' = occupied \ {o}
    /\ UNCHANGED <<target, calls, pending, held, caller, waiting, armed, slotVars,
                   abandoned>>

Discard(o) ==
    /\ ConsumeDeferred(o)
    /\ saved' = [saved EXCEPT ![o] = None]
    /\ occupied' = occupied \ {o}
    /\ abandoned' = abandoned \cup {deferred[o]}
    /\ UNCHANGED <<clientVars, pending, held, caller, waiting, armed, slotVars>>

(* The kernel refused the delete: the handle is gone and the bit stays set. *)
DiscardFails(o) ==
    /\ ConsumeDeferred(o)
    /\ abandoned' = abandoned \cup {deferred[o]}
    /\ UNCHANGED <<clientVars, pending, held, caller, saved, occupied, waiting, armed,
                   slotVars>>

DropDeferred(o) ==
    /\ Drops
    /\ DiscardFails(o)

-----------------------------------------------------------------------------
ClientStep == \E c \in Client, e \in Endpoint : Call(c, e) \/ Send(c, e)

ControlStep == \E c \in Client : Suspend(c) \/ Resume(c)

SlotStep == (\E s \in Index : ReserveReceiveSlot(s)) \/ DropReceiveSlot

ReceiveStep ==
    \/ \E e \in Endpoint, s \in Slot \cup {0} :
         \/ ReceivePending(e, s)
         \/ Receive(e, s)
         \/ TryReceiveNothing(e, s)
         \/ \E c \in Client, info \in Info : TryReceive(e, s, c, info)
    \/ \E c \in Client, info \in Info : CompleteReceive(c, info)

MessageStep ==
    \E e \in Endpoint :
        \/ Reply(e) \/ Finish(e)
        \/ Defer(e) \/ DeferExhausted(e) \/ DeferRefused(e)
        \/ DropReceived(e)

DeferredStep ==
    \E o \in Offset : DeferredReply(o) \/ Discard(o) \/ DiscardFails(o) \/ DropDeferred(o)

Next == ClientStep \/ ControlStep \/ SlotStep \/ ReceiveStep \/ MessageStep \/ DeferredStep

Spec == Init /\ [][Next]_vars

-----------------------------------------------------------------------------
(***************************************************************************)
(* Safety                                                                  *)
(***************************************************************************)

(* Request m is a call whose client still waits for its answer. *)
Awaits(m) == m.n # 0 /\ phase[m.src] = "awaiting" /\ calls[m.src] = m.n

(* A live ReceivedMessage has exactly its own authority behind it: the      *)
(* caller slot names its requester while that call still waits, and is      *)
(* empty once the call was cancelled (ipc.rs, ReceivedMessage::reply).      *)
HeldHoldsAuthority ==
    \A e \in Endpoint : held[e] # NoMsg =>
        caller = IF Awaits(held[e]) THEN held[e].src ELSE None

(* The same for a DeferredReply: its pool slot holds the capability of the  *)
(* request it was made from, whatever was received, deferred, answered or   *)
(* suspended since (ipc.rs, DeferredReply::reply).                          *)
DeferredHoldsAuthority ==
    \A o \in Offset : deferred[o] # NoMsg =>
        saved[o] = IF Awaits(deferred[o]) THEN deferred[o].src ELSE None

(* A pool slot whose bit is clear is empty in the kernel, so the next       *)
(* save_caller into it cannot be refused (ReplyPool::release).              *)
ReleasedSlotsEmpty == \A o \in Offset \ occupied : saved[o] = None /\ deferred[o] = NoMsg

(* A client blocked for a reply can still get one through a handle the root *)
(* owns, unless the root gave that request up: no path of receive, defer or *)
(* of an error return loses a caller.                                       *)
NoCallerLost ==
    \A c \in Client : phase[c] = "awaiting" =>
        LET m == [src |-> c, n |-> calls[c]] IN
            \/ \E e \in Endpoint : held[e] = m /\ caller = c
            \/ \E o \in Offset : deferred[o] = m /\ saved[o] = c
            \/ m \in abandoned

(* implicit_reply_pending is set exactly while a ReceivedMessage lives or   *)
(* the receive that will make one is blocked: no early return leaves an     *)
(* endpoint refusing every later receive with ReplyPending.                 *)
EndpointNeverWedged ==
    \A e \in Endpoint : pending[e] <=> (held[e] # NoMsg \/ waiting = e)

(* A child slot the tracker calls FREE is empty in the kernel, so a receive *)
(* slot handed out is a real destination (SlotTracker, CSpace::receive_slot). *)
FreeSlotsAreEmpty == \A s \in Slot : tracker[s] = FREE => ~cnode[s]

(* The destination of a receive under way, and of a live ReceiveSlot, is    *)
(* reserved for it and empty: the kernel never finds it taken.              *)
DestinationReady ==
    \A s \in {armed, reservation} \ {0} : tracker[s] = RESERVED /\ ~cnode[s]

(* A waiting client runs again only because the handle made from this very  *)
(* call was consumed, or because the root resumed it.                       *)
OnlyItsHandleAnswers ==
    [][\A c \in Client :
         phase[c] = "awaiting" /\ phase'[c] = "running" =>
            LET m == [src |-> c, n |-> calls[c]] IN
                \/ \E e \in Endpoint : held[e] = m /\ held'[e] = NoMsg
                \/ \E o \in Offset : deferred[o] = m /\ deferred'[o] = NoMsg
                \/ Resume(c)]_vars

(* A client that leaves an endpoint's queue by delivery is answered at once *)
(* with an error reply or is the source of a ReceivedMessage: no message is *)
(* consumed without the root being told (Endpoint::try_receive).            *)
DeliveredIsHandled ==
    [][\A c \in Client :
         phase[c] = "calling" /\ phase'[c] = "awaiting" =>
            \E e \in Endpoint : held'[e] = [src |-> c, n |-> calls[c]]]_vars

-----------------------------------------------------------------------------
(***************************************************************************)
(* What the documentation says and the code does not keep                  *)
(***************************************************************************)

(* cspace.rs: a receive_slot is reserved "until the receive completes".     *)
ReservedOnlyDuringReceive ==
    \A s \in Slot : tracker[s] = RESERVED => s \in {armed, reservation}

(* ipc_state.rs: commit happens "after seL4 installed a capability".        *)
OccupiedMeansInstalled == \A s \in Slot : tracker[s] = OCCUPIED => cnode[s]

-----------------------------------------------------------------------------
(***************************************************************************)
(* Liveness, for a root task that serves: it answers what it holds, never  *)
(* blocks in receive while a deferred reply is due, and the endpoint queue *)
(* is first-in first-out, so no queued client is passed over for ever.     *)
(***************************************************************************)
ServerNext == Next /\ (waiting' # None => \A o \in Offset : deferred[o] = NoMsg)

ServeClient(c) ==
    \E info \in Info :
        \/ CompleteReceive(c, info)
        \/ \E e \in Endpoint, s \in Slot \cup {0} : TryReceive(e, s, c, info)

ServerSpec ==
    /\ Init /\ [][ServerNext]_vars
    /\ \A c \in Client : SF_vars(ServeClient(c))
    /\ \A e \in Endpoint : WF_vars(Reply(e))
    /\ \A o \in Offset : WF_vars(DeferredReply(o))

(* Every call is answered, cancelled by a suspend, or deliberately discarded. *)
CallsAnswered ==
    \A c \in Client :
        phase[c] = "calling" ~>
            \/ phase[c] \in {"running", "suspended"}
            \/ [src |-> c, n |-> calls[c]] \in abandoned

=============================================================================
