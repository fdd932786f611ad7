--------------------------- MODULE MCNotification ---------------------------
(* Small instances of Notification: words of three bits. *)
EXTENDS Notification

CONSTANTS t1, t2

MCBits == [b \in 0..MaxWord |-> {i \in Bit : (b \div 2^i) % 2 = 1}]

=============================================================================
