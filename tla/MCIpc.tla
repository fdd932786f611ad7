------------------------------- MODULE MCIpc -------------------------------
(* Small instances of Ipc. *)
EXTENDS IpcService, TLC

CONSTANTS c1, c2, e1, e2, f1

Shape(length, extra, unwrapped, decodes) ==
    [length |-> length, extra |-> extra, unwrapped |-> unwrapped, decodes |-> decodes]

(* An empty message, an ordinary one, one carrying a capability, and one    *)
(* carrying a capability to the endpoint itself.                            *)
MCInfo == {Shape(0, 0, 0, TRUE), Shape(1, 0, 0, FALSE), Shape(0, 1, 0, TRUE),
           Shape(0, 1, 1, TRUE)}
(* The same without the capability that needs a receive slot. *)
PlainInfo == MCInfo \ {Shape(0, 1, 0, TRUE)}

MCBadge == [c \in Client |-> 1]

Symmetry == Permutations(Client)

=============================================================================
