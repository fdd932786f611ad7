---------------------------- MODULE RequestReply ----------------------------
(***************************************************************************)
(* What request/reply IPC promises, without endpoints, flags, pools or     *)
(* capabilities.  A client has at most one request open.  The server       *)
(* refuses it unseen or accepts it and then owes an answer.  An answer     *)
(* reaches the request it is for or, once that was cancelled, nobody; it   *)
(* never closes another request, nor a later one of the same client.       *)
(***************************************************************************)
EXTENDS Naturals

CONSTANTS Client, MaxCalls

VARIABLES
    last,    \* number of each client's last request
    stage,   \* "idle", or how far that request has come: "asked", "accepted"
    owed,    \* requests the server has accepted and not disposed of
    dropped  \* requests whose answer the server gave up

vars == <<last, stage, owed, dropped>>

Request == [src : Client, n : 1..MaxCalls]
Current(c) == [src |-> c, n |-> last[c]]

Init ==
    /\ last = [c \in Client |-> 0]
    /\ stage = [c \in Client |-> "idle"]
    /\ owed = {}
    /\ dropped = {}

Ask(c) ==
    /\ stage[c] = "idle"
    /\ last[c] < MaxCalls
    /\ last' = [last EXCEPT ![c] = @ + 1]
    /\ stage' = [stage EXCEPT ![c] = "asked"]
    /\ UNCHANGED <<owed, dropped>>

Accept(c) ==
    /\ stage[c] = "asked"
    /\ stage' = [stage EXCEPT ![c] = "accepted"]
    /\ owed' = owed \cup {Current(c)}
    /\ UNCHANGED <<last, dropped>>

(* An error reply to a request the server never got to see. *)
Refuse(c) ==
    /\ stage[c] = "asked"
    /\ stage' = [stage EXCEPT ![c] = "idle"]
    /\ UNCHANGED <<last, owed, dropped>>

(* Closes request r if its client still waits for it, and nothing else. *)
Answer(r) ==
    /\ r \in owed
    /\ owed' = owed \ {r}
    /\ stage' = IF r = Current(r.src) /\ stage[r.src] = "accepted"
                THEN [stage EXCEPT ![r.src] = "idle"] ELSE stage
    /\ UNCHANGED <<last, dropped>>

(* The request's client is suspended or resumed. *)
Cancel(c) ==
    /\ stage[c] # "idle"
    /\ stage' = [stage EXCEPT ![c] = "idle"]
    /\ UNCHANGED <<last, owed, dropped>>

GiveUp(r) ==
    /\ r \in owed
    /\ owed' = owed \ {r}
    /\ dropped' = dropped \cup {r}
    /\ UNCHANGED <<last, stage>>

Next ==
    \/ \E c \in Client : Ask(c) \/ Accept(c) \/ Refuse(c) \/ Cancel(c)
    \/ \E r \in owed : Answer(r) \/ GiveUp(r)

Spec == Init /\ [][Next]_vars

=============================================================================
