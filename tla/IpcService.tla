----------------------------- MODULE IpcService -----------------------------
(***************************************************************************)
(* The IPC of the root task as an implementation of RequestReply.  Queues, *)
(* the pending flags, the caller slot, the pool and the receive slots      *)
(* disappear: what is left of the state is which request each client has   *)
(* open and which requests the root's live handles stand for.              *)
(***************************************************************************)
EXTENDS Ipc

Stage(c) ==
    IF phase[c] = "calling" THEN "asked"
    ELSE IF phase[c] = "awaiting" THEN "accepted"
    ELSE "idle"

(* One-way sends (n = 0) ask for nothing. *)
Owed ==
    {m \in {held[e] : e \in Endpoint} \cup {deferred[o] : o \in Offset} : m.n # 0}

Service == INSTANCE RequestReply WITH
    last <- calls,
    stage <- [c \in Client |-> Stage(c)],
    owed <- Owed,
    dropped <- {m \in abandoned : m.n # 0}

(* Every step of the root, its clients and the kernel is a step of the      *)
(* abstract service or leaves it unchanged: deferring, polling, dropped     *)
(* slots, full pools and every error return included.                       *)
ImplementsService == Service!Spec

=============================================================================
