------------------------------ MODULE Outbound ------------------------------
(***************************************************************************)
(* The root as a sender: Message::with_capabilities and prepare, and       *)
(* Endpoint::send, try_send and call of ipc.rs, towards tasks that were    *)
(* given receive rights on the endpoint; with the receive path, the one    *)
(* field of the root's IPC buffer that names the slot a transferred        *)
(* capability goes to, and the bookkeeping of that slot.                   *)
(*                                                                         *)
(* The reply to a call is a transfer like any other, but only receive and  *)
(* try_receive configure the receive path: a call gets its reply along the *)
(* path of the receive before it, whose slot is no longer lent.  The root  *)
(* is one thread: while it is blocked it does nothing with its reply pool  *)
(* either.                                                                 *)
(***************************************************************************)
EXTENDS ReplyPool

CONSTANTS
    Server,        \* tasks that receive on the endpoint
    Slot,          \* slots of a child CSpace, without the null slot
    SendCaps,      \* numbers of capabilities the root puts in a message
    ReplyCaps,     \* numbers of capabilities a server puts in a reply
    ExtraCapacity, \* EXTRA_CAPACITY
    BufferExtra    \* kernel: capability words of an IPC buffer

ASSUME OutboundAssumption ==
    /\ Slot \subseteq Nat \ {0}
    /\ SendCaps \subseteq Nat /\ ReplyCaps \subseteq {0, 1}
    /\ ExtraCapacity \in Nat /\ BufferExtra \in Nat

VARIABLES
    root,        \* "running", "sending", "calling", "awaiting" or "panicked"
    server,      \* "ready" (receiving), "busy" or "serving" (owes the root a reply)
    path,        \* receive path in the root's IPC buffer, 0 for none
    given,       \* history: slot argument of the last receive
    exposed,     \* history: slots that were given to the last receive before a call
    reservation, \* slot of the live ReceiveSlot
    tracker,     \* SlotTracker.states
    cnode        \* kernel: child slots that hold a capability

slotVars == <<path, given, exposed, reservation, tracker, cnode>>
vars == <<root, server, slotVars, poolVars>>

(* Between two calls of the root program, none of them in progress *)
RootRuns == root = "running" /\ reserved = None

Init ==
    /\ PoolInit
    /\ root = "running"
    /\ server = [v \in Server |-> "busy"]
    /\ path = 0 /\ given = 0 /\ exposed = {} /\ reservation = 0
    /\ cnode \in SUBSET Slot
    /\ tracker = [s \in Slot |-> IF s \in cnode THEN "occupied" ELSE "free"]

-----------------------------------------------------------------------------
(***************************************************************************)
(* Receiving from clients (module Ipc), as far as the slots go             *)
(***************************************************************************)
ReserveReceiveSlot(s) ==
    /\ RootRuns /\ reservation = 0
    /\ tracker[s] = "free"
    /\ tracker' = [tracker EXCEPT ![s] = "reserved"]
    /\ reservation' = s
    /\ UNCHANGED <<root, server, path, given, exposed, cnode, poolVars>>

(* Mutant: without a slot the buffer is left alone. *)
ConfigureReceivePathKeeps(s) == path' = IF s = 0 THEN path ELSE s

ConfigureReceivePath(s) == path' = s

(* The kernel's transfer of one capability, along the configured path *)
Transfer(p, transferred) ==
    cnode' = IF transferred /\ p # 0 THEN cnode \cup {p} ELSE cnode

(* receive or try_receive with the live slot; a capability comes or not. *)
Receive(transferred) ==
    /\ RootRuns
    /\ reservation # 0
    /\ transferred => reservation \notin cnode
    /\ ConfigureReceivePath(reservation)
    /\ given' = reservation
    /\ Transfer(path', transferred)
    /\ tracker' = [tracker EXCEPT ![reservation] =
                     IF transferred THEN "occupied" ELSE "free"]
    /\ reservation' = 0
    /\ UNCHANGED <<root, server, exposed, poolVars>>

(* receive or try_receive without a slot; nothing can be transferred. *)
ReceiveNone ==
    /\ RootRuns
    /\ ConfigureReceivePath(0)
    /\ given' = 0
    /\ UNCHANGED <<root, server, exposed, reservation, tracker, cnode, poolVars>>

-----------------------------------------------------------------------------
(***************************************************************************)
(* Sending                                                                 *)
(***************************************************************************)

(* A longer list is refused before there is a message to send. *)
with_capabilities(n) == n <= ExtraCapacity

(* prepare copies into the buffer; past the end of the slice it panics. *)
Prepare(n, next) ==
    /\ RootRuns
    /\ with_capabilities(n)
    /\ root' = IF n > BufferExtra THEN "panicked" ELSE next

Send(n) == Prepare(n, "sending") /\ UNCHANGED <<server, slotVars, poolVars>>

(* Delivered to a server that is waiting, or lost. *)
TrySend(n) ==
    /\ Prepare(n, "running")
    /\ server' \in IF n <= BufferExtra /\ \E v \in Server : server[v] = "ready"
                   THEN { [server EXCEPT ![v] = "busy"] : v \in {w \in Server : server[w] = "ready"} }
                   ELSE {server}
    /\ UNCHANGED <<slotVars, poolVars>>

(* Mutant: a send, then a receive: the server owes no reply. *)
CallSendReceive(n) ==
    /\ \E v \in Server : server[v] = "ready" /\ server' = [server EXCEPT ![v] = "busy"]
    /\ Prepare(n, "awaiting")
    /\ UNCHANGED <<slotVars, poolVars>>

(* The receive path stays what the last receive made it. *)
Call(n) ==
    /\ Prepare(n, "calling")
    /\ exposed' = exposed \cup ({given} \ {0})
    /\ UNCHANGED <<server, path, given, reservation, tracker, cnode, poolVars>>

-----------------------------------------------------------------------------
(***************************************************************************)
(* The reply pool                                                          *)
(***************************************************************************)

(* ReceivedMessage::defer, in its steps *)
Defer ==
    /\ root = "running"
    /\ Reserve \/ Saved \/ SaveCallerFails
    /\ UNCHANGED <<root, server, slotVars>>

(* A send on a saved reply capability does not block. *)
DeferredReply(slot, n) ==
    /\ Prepare(n, "running")
    /\ IF n > BufferExtra THEN UNCHANGED poolVars ELSE Consume(slot)
    /\ UNCHANGED <<server, slotVars>>

Discard(slot) == RootRuns /\ Consume(slot) /\ UNCHANGED <<root, server, slotVars>>

(* The delete is refused: discard returns an error, and the handle is gone. *)
DiscardFails(slot) == RootRuns /\ Abandon(slot) /\ UNCHANGED <<root, server, slotVars>>

(* must_use is only a lint. *)
DropDeferred(slot) == RootRuns /\ Abandon(slot) /\ UNCHANGED <<root, server, slotVars>>

-----------------------------------------------------------------------------
(***************************************************************************)
(* Servers and the kernel                                                  *)
(***************************************************************************)
ServerReceive(v) ==
    /\ server[v] = "busy"
    /\ server' = [server EXCEPT ![v] = "ready"]
    /\ UNCHANGED <<root, slotVars, poolVars>>

(* A server that polls, or waits for something else, when nobody sends. *)
ServerLeaves(v) ==
    /\ server[v] = "ready"
    /\ root \notin {"sending", "calling"}
    /\ server' = [server EXCEPT ![v] = "busy"]
    /\ UNCHANGED <<root, slotVars, poolVars>>

(* The kernel pairs a waiting receiver with the blocked root. *)
Rendezvous(v) ==
    /\ server[v] = "ready"
    /\ \/ /\ root = "sending"
          /\ root' = "running" /\ server' = [server EXCEPT ![v] = "busy"]
       \/ /\ root = "calling"
          /\ root' = "awaiting" /\ server' = [server EXCEPT ![v] = "serving"]
    /\ UNCHANGED <<slotVars, poolVars>>

(* The reply completes the call, with whatever it carries: nothing is      *)
(* configured before and nothing is recorded after.                        *)
ServerReply(v, n) ==
    /\ server[v] = "serving"
    /\ n = 1 => path = 0 \/ path \notin cnode
    /\ server' = [server EXCEPT ![v] = "busy"]
    /\ root' = "running"
    /\ Transfer(path, n = 1)
    /\ UNCHANGED <<path, given, exposed, reservation, tracker, poolVars>>

ServerStep(v) == ServerReceive(v) \/ Rendezvous(v) \/ \E n \in ReplyCaps : ServerReply(v, n)

-----------------------------------------------------------------------------
Next ==
    \/ \E s \in Slot : ReserveReceiveSlot(s)
    \/ \E transferred \in BOOLEAN : Receive(transferred)
    \/ ReceiveNone
    \/ \E n \in SendCaps : Send(n) \/ TrySend(n) \/ Call(n)
    \/ Defer
    \/ \E slot \in live :
         \/ Discard(slot) \/ DiscardFails(slot) \/ DropDeferred(slot)
         \/ \E n \in SendCaps : DeferredReply(slot, n)
    \/ \E v \in Server : ServerStep(v) \/ ServerLeaves(v)

(* Servers are scheduled, and do nothing but serve: none of them waits for *)
(* the root while it owes the root a reply.                                *)
Spec == Init /\ [][Next]_vars /\ \A v \in Server : WF_vars(ServerStep(v))

-----------------------------------------------------------------------------
(* Each variable ranges over the values its Rust or kernel type allows. *)
TypeOK ==
    /\ root \in {"running", "sending", "calling", "awaiting", "panicked"}
    /\ server \in [Server -> {"ready", "busy", "serving"}]
    /\ path \in Slot \cup {0} /\ given \in Slot \cup {0}
    /\ reservation \in Slot \cup {0}
    /\ tracker \in [Slot -> {"free", "reserved", "occupied"}]
    /\ cnode \subseteq Slot /\ exposed \subseteq Slot
    /\ PoolTypeOK

(* What fills a slot behind the tracker is the reply to a call made while   *)
(* that slot, given to the last receive, was still in the IPC buffer.       *)
FilledOnlyByCalls ==
    \A s \in Slot : tracker[s] # "occupied" /\ s \in cnode => s \in exposed

(* However receives, sends, calls and replies that carry capabilities       *)
(* follow each other, the tracker of the child's slots is wrong at most     *)
(* for a slot whose receive was followed by a call, with no receive in      *)
(* between: a transfer never goes to a slot other than the one last given.  *)
OutboundInv == TypeOK /\ FilledOnlyByCalls

(* A slot that is lent to a receive is empty: "Reserves one known-empty     *)
(* destination until the receive completes" (cspace.rs:141).  This fails:   *)
(* the reply to a call may have filled the slot of an earlier receive.      *)
LentIsEmpty == reservation # 0 => reservation \notin cnode

(* The root never stays blocked in send or call, try_send never blocks it,  *)
(* and it waits for a reply only while a server owes it one.                *)
SendsEnd == root \in {"sending", "calling", "awaiting"} ~> root = "running"

=============================================================================
