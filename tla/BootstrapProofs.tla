-------------------------- MODULE BootstrapProofs --------------------------
(***************************************************************************)
(* Proofs about Bootstrap, for any slot range and any task configuration.  *)
(***************************************************************************)
EXTENDS Bootstrap, FiniteSetTheorems, SequenceTheorems, TLAPS

(* A construction has written nothing below its checkpoint, and above it    *)
(* the root CNode was empty.                                                *)
BuildInv ==
    phase # "idle" =>
        /\ op # "none"
        /\ checkpoint <= start
        /\ before.start = checkpoint
        /\ before.root \in [Slot -> Content]
        /\ \A s \in Slot : before.root[s] = IF s < checkpoint THEN root[s] ELSE "empty"

(* A rollback has emptied everything from its cursor on. *)
RollbackInv ==
    phase = "rollback" =>
        /\ checkpoint <= cursor /\ cursor <= start
        /\ \A s \in cursor..(End - 1) : root[s] = "empty"

(* Where a recovery mapping stands, and how many slots it has taken so far. *)
RecoveryInv ==
    phase = "build" /\ op = "mapping" =>
        \/ todo = <<"aligned", "mapping", "frame_map">> /\ start = checkpoint
        \/ todo = <<"mapping", "frame_map">> /\ start = checkpoint
        \/ todo = <<"frame_map">> /\ start = checkpoint + 1
        \/ todo = <<>> /\ start = checkpoint + 1

Covered(s) == \E h \in handles : s \in h.lo..(h.hi - 1)

AccountInv == \A s \in First..(Unowned - 1) : Covered(s)

IInv ==
    /\ TypeOK /\ FreeSuffixEmpty /\ HandlesDisjoint
    /\ BuildInv /\ RollbackInv /\ RecoveryInv /\ AccountInv

-----------------------------------------------------------------------------
(* What is left of a recovery after each of its steps. *)
LEMMA RecoverySteps ==
    /\ RecoveryScript = <<"aligned", "mapping", "frame_map">>
    /\ Head(<<"aligned", "mapping", "frame_map">>) \notin Object
    /\ Tail(<<"aligned", "mapping", "frame_map">>) = <<"mapping", "frame_map">>
    /\ Head(<<"mapping", "frame_map">>) \in Object
    /\ Tail(<<"mapping", "frame_map">>) = <<"frame_map">>
    /\ Head(<<"frame_map">>) \notin Object
    /\ Tail(<<"frame_map">>) = <<>>
BY DEF RecoveryScript, MapFrameScript, Object

(* The first state. *)
LEMMA InitInv == Init => IInv
BY BootstrapAssumption
DEF Init, IInv, TypeOK, FreeSuffixEmpty, HandlesDisjoint, Unowned, BuildInv, RollbackInv,
    RecoveryInv, AccountInv, Slot, Content, NoConstruction

(* Handing out the unowned slots up to hi keeps ownership exact. *)
LEMMA HandOver ==
    ASSUME TypeOK, HandlesDisjoint, AccountInv, NEW kind, NEW hi \in First..End, NEW script,
           Unowned <= hi, Unowned' = hi,
           handles' = handles \cup {Handle(kind, Unowned, hi, script)}
    PROVE  HandlesDisjoint' /\ AccountInv'
<1> DEFINE new == Handle(kind, Unowned, hi, script)
<1>1. Unowned \in Int /\ new.lo = Unowned /\ new.hi = hi
  BY BootstrapAssumption DEF TypeOK, Unowned, Handle
<1>2. \A h \in handles : h.lo \in Int /\ h.hi \in Int /\ h.lo <= h.hi /\ h.hi <= Unowned
  BY BootstrapAssumption DEF TypeOK, HandlesDisjoint
<1>3. First \in Int /\ End \in Int
  BY BootstrapAssumption
<1> HIDE DEF new
<1>4. HandlesDisjoint'
  BY <1>1, <1>2, <1>3 DEF HandlesDisjoint, new
<1>5. AccountInv'
  <2> SUFFICES ASSUME NEW s \in First..(hi - 1)
               PROVE  \E h \in handles' : s \in h.lo..(h.hi - 1)
    BY DEF AccountInv, Covered
  <2>1. CASE s < Unowned
    BY <2>1, <1>1, <1>3 DEF AccountInv, Covered
  <2>2. CASE s >= Unowned
    <3>1. s \in new.lo..(new.hi - 1) /\ new \in handles'
      BY <2>2, <1>1, <1>3 DEF new
    <3> QED
      BY <3>1
  <2> QED
    BY <2>1, <2>2, <1>1, <1>3
<1> QED
  BY <1>4, <1>5

LEMMA Inductive ==
    ASSUME IInv, Next
    PROVE  IInv'
<1> USE BootstrapAssumption DEF IInv
<1>1. ASSUME NEW kind \in Kinds, Allocate(kind)
      PROVE  IInv'
  <2>1. TypeOK'
    BY <1>1 DEF Allocate, Fill, Handle, local, TypeOK, Slot, Content, Object
  <2>2. FreeSuffixEmpty'
    BY <1>1 DEF Allocate, Fill, Handle, local, TypeOK, FreeSuffixEmpty, Slot
  <2>3. HandlesDisjoint'
    <3>1. /\ Unowned' = start + 1 /\ Unowned <= start + 1 /\ start + 1 \in First..End
          /\ handles' = handles \cup {Handle("object", Unowned, start + 1, <<kind>>)}
      BY <1>1 DEF Allocate, Fill, Unowned, TypeOK, local
    <3> QED
      BY <3>1, HandOver
  <2>4. BuildInv'
    BY <1>1 DEF Allocate, Fill, Handle, local, TypeOK, BuildInv, FreeSuffixEmpty, Slot
  <2>5. RollbackInv'
    BY <1>1 DEF Allocate, Fill, Handle, local, TypeOK, RollbackInv, BuildInv, FreeSuffixEmpty, Slot
  <2>6. RecoveryInv'
    BY <1>1 DEF Allocate, Fill, Handle, local, TypeOK, RecoveryInv
  <2>7. AccountInv'
    <3>1. /\ Unowned' = start + 1 /\ Unowned <= start + 1 /\ start + 1 \in First..End
          /\ handles' = handles \cup {Handle("object", Unowned, start + 1, <<kind>>)}
      BY <1>1 DEF Allocate, Fill, Unowned, TypeOK, local
    <3> QED
      BY <3>1, HandOver
  <2> QED
    BY <2>1, <2>2, <2>3, <2>4, <2>5, <2>6, <2>7
<1>2. ASSUME AllocateFails
      PROVE  IInv'
  <2>1. TypeOK'
    BY <1>2 DEF AllocateFails, local, TypeOK, Slot, Content, Object
  <2>2. FreeSuffixEmpty'
    BY <1>2 DEF AllocateFails, local, TypeOK, FreeSuffixEmpty, Slot
  <2>3. HandlesDisjoint'
    BY <1>2 DEF AllocateFails, local, TypeOK, HandlesDisjoint, Unowned, Slot
  <2>4. BuildInv'
    BY <1>2 DEF AllocateFails, local, TypeOK, BuildInv, FreeSuffixEmpty, Slot
  <2>5. RollbackInv'
    BY <1>2 DEF AllocateFails, local, TypeOK, RollbackInv, BuildInv, FreeSuffixEmpty, Slot
  <2>6. RecoveryInv'
    BY <1>2 DEF AllocateFails, local, TypeOK, RecoveryInv
  <2>7. AccountInv'
    BY <1>2 DEF AllocateFails, local, TypeOK, AccountInv, Covered, Unowned, BuildInv
  <2> QED
    BY <2>1, <2>2, <2>3, <2>4, <2>5, <2>6, <2>7
<1>3. ASSUME NEW n \in PoolSizes, AllocateReplyPool(n)
      PROVE  IInv'
  <2>1. TypeOK'
    BY <1>3 DEF AllocateReplyPool, Handle, local, TypeOK, Slot, Content, Object
  <2>2. FreeSuffixEmpty'
    BY <1>3 DEF AllocateReplyPool, Handle, local, TypeOK, FreeSuffixEmpty, Slot
  <2>3. HandlesDisjoint'
    <3>1. /\ Unowned' = start + n /\ Unowned <= start + n /\ start + n \in First..End
          /\ handles' = handles \cup {Handle("pool", Unowned, start + n, <<>>)}
      BY <1>3 DEF AllocateReplyPool, Unowned, TypeOK, local
    <3> QED
      BY <3>1, HandOver
  <2>4. BuildInv'
    BY <1>3 DEF AllocateReplyPool, Handle, local, TypeOK, BuildInv, FreeSuffixEmpty, Slot
  <2>5. RollbackInv'
    BY <1>3 DEF AllocateReplyPool, Handle, local, TypeOK, RollbackInv, BuildInv, FreeSuffixEmpty, Slot
  <2>6. RecoveryInv'
    BY <1>3 DEF AllocateReplyPool, Handle, local, TypeOK, RecoveryInv
  <2>7. AccountInv'
    <3>1. /\ Unowned' = start + n /\ Unowned <= start + n /\ start + n \in First..End
          /\ handles' = handles \cup {Handle("pool", Unowned, start + n, <<>>)}
      BY <1>3 DEF AllocateReplyPool, Unowned, TypeOK, local
    <3> QED
      BY <3>1, HandOver
  <2> QED
    BY <2>1, <2>2, <2>3, <2>4, <2>5, <2>6, <2>7
<1>4. ASSUME NEW s \in Slot, SaveCaller(s)
      PROVE  IInv'
  <2>1. TypeOK'
    BY <1>4 DEF SaveCaller, local, TypeOK, Slot, Content, Object
  <2>2. FreeSuffixEmpty'
    <3>1. s < start
      BY <1>4 DEF SaveCaller, Owns, HandlesDisjoint, Unowned, TypeOK
    <3> QED
      BY <1>4, <3>1 DEF SaveCaller, TypeOK, FreeSuffixEmpty, Slot
  <2>3. HandlesDisjoint'
    BY <1>4 DEF SaveCaller, local, TypeOK, HandlesDisjoint, Unowned, Slot
  <2>4. BuildInv'
    BY <1>4 DEF SaveCaller, local, TypeOK, BuildInv, FreeSuffixEmpty, Slot
  <2>5. RollbackInv'
    BY <1>4 DEF SaveCaller, local, TypeOK, RollbackInv, BuildInv, FreeSuffixEmpty, Slot
  <2>6. RecoveryInv'
    BY <1>4 DEF SaveCaller, local, TypeOK, RecoveryInv
  <2>7. AccountInv'
    BY <1>4 DEF SaveCaller, local, TypeOK, AccountInv, Covered, Unowned, BuildInv
  <2> QED
    BY <2>1, <2>2, <2>3, <2>4, <2>5, <2>6, <2>7
<1>5. ASSUME NEW s \in Slot, DeleteReply(s)
      PROVE  IInv'
  <2>1. TypeOK'
    BY <1>5 DEF DeleteReply, local, TypeOK, Slot, Content, Object
  <2>2. FreeSuffixEmpty'
    BY <1>5 DEF DeleteReply, local, TypeOK, FreeSuffixEmpty, Slot
  <2>3. HandlesDisjoint'
    BY <1>5 DEF DeleteReply, local, TypeOK, HandlesDisjoint, Unowned, Slot
  <2>4. BuildInv'
    BY <1>5 DEF DeleteReply, local, TypeOK, BuildInv, FreeSuffixEmpty, Slot
  <2>5. RollbackInv'
    BY <1>5 DEF DeleteReply, local, TypeOK, RollbackInv, BuildInv, FreeSuffixEmpty, Slot
  <2>6. RecoveryInv'
    BY <1>5 DEF DeleteReply, local, TypeOK, RecoveryInv
  <2>7. AccountInv'
    BY <1>5 DEF DeleteReply, local, TypeOK, AccountInv, Covered, Unowned, BuildInv
  <2> QED
    BY <2>1, <2>2, <2>3, <2>4, <2>5, <2>6, <2>7
<1>6. ASSUME NEW m \in Mints, NEW t \in Tables, CreateTask(m, t)
      PROVE  IInv'
  <2>1. TypeOK'
    BY <1>6 DEF CreateTask, Begin, TypeOK, Slot, Content, Object
  <2>2. FreeSuffixEmpty'
    BY <1>6 DEF CreateTask, Begin, TypeOK, FreeSuffixEmpty, Slot
  <2>3. HandlesDisjoint'
    BY <1>6 DEF CreateTask, Begin, TypeOK, HandlesDisjoint, Unowned, Slot
  <2>4. BuildInv'
    BY <1>6 DEF CreateTask, Begin, TypeOK, BuildInv, FreeSuffixEmpty, Slot
  <2>5. RollbackInv'
    BY <1>6 DEF CreateTask, Begin, TypeOK, RollbackInv, BuildInv, FreeSuffixEmpty, Slot
  <2>6. RecoveryInv'
    BY <1>6 DEF CreateTask, Begin, TypeOK, RecoveryInv
  <2>7. AccountInv'
    BY <1>6 DEF CreateTask, Begin, TypeOK, AccountInv, Covered, Unowned, BuildInv
  <2> QED
    BY <2>1, <2>2, <2>3, <2>4, <2>5, <2>6, <2>7
<1>7. ASSUME MapRecoveryFrame
      PROVE  IInv'
  <2>1. TypeOK'
    BY <1>7 DEF MapRecoveryFrame, Begin, TypeOK, Slot, Content, Object
  <2>2. FreeSuffixEmpty'
    BY <1>7 DEF MapRecoveryFrame, Begin, TypeOK, FreeSuffixEmpty, Slot
  <2>3. HandlesDisjoint'
    BY <1>7 DEF MapRecoveryFrame, Begin, TypeOK, HandlesDisjoint, Unowned, Slot
  <2>4. BuildInv'
    BY <1>7 DEF MapRecoveryFrame, Begin, TypeOK, BuildInv, FreeSuffixEmpty, Slot
  <2>5. RollbackInv'
    BY <1>7 DEF MapRecoveryFrame, Begin, TypeOK, RollbackInv, BuildInv, FreeSuffixEmpty, Slot
  <2>6. RecoveryInv'
    BY <1>7, RecoverySteps DEF MapRecoveryFrame, Begin, RecoveryInv
  <2>7. AccountInv'
    BY <1>7 DEF MapRecoveryFrame, Begin, TypeOK, AccountInv, Covered, Unowned, BuildInv
  <2> QED
    BY <2>1, <2>2, <2>3, <2>4, <2>5, <2>6, <2>7
<1>8. ASSUME StepObject
      PROVE  IInv'
  <2>1. TypeOK'
    BY <1>8 DEF StepObject, Fill, TypeOK, Slot, Content, Object
  <2>2. FreeSuffixEmpty'
    BY <1>8 DEF StepObject, Fill, TypeOK, FreeSuffixEmpty, Slot
  <2>3. HandlesDisjoint'
    BY <1>8 DEF StepObject, Fill, TypeOK, HandlesDisjoint, Unowned, Slot
  <2>4. BuildInv'
    BY <1>8 DEF StepObject, Fill, TypeOK, BuildInv, FreeSuffixEmpty, Slot
  <2>5. RollbackInv'
    BY <1>8 DEF StepObject, Fill, TypeOK, RollbackInv, BuildInv, FreeSuffixEmpty, Slot
  <2>6. RecoveryInv'
    BY <1>8, RecoverySteps DEF StepObject, Fill, TypeOK, RecoveryInv
  <2>7. AccountInv'
    BY <1>8 DEF StepObject, Fill, TypeOK, AccountInv, Covered, Unowned, BuildInv
  <2> QED
    BY <2>1, <2>2, <2>3, <2>4, <2>5, <2>6, <2>7
<1>9. ASSUME StepInvoke
      PROVE  IInv'
  <2>1. TypeOK'
    BY <1>9 DEF StepInvoke, TypeOK, Slot, Content, Object
  <2>2. FreeSuffixEmpty'
    BY <1>9 DEF StepInvoke, TypeOK, FreeSuffixEmpty, Slot
  <2>3. HandlesDisjoint'
    BY <1>9 DEF StepInvoke, TypeOK, HandlesDisjoint, Unowned, Slot
  <2>4. BuildInv'
    BY <1>9 DEF StepInvoke, TypeOK, BuildInv, FreeSuffixEmpty, Slot
  <2>5. RollbackInv'
    BY <1>9 DEF StepInvoke, TypeOK, RollbackInv, BuildInv, FreeSuffixEmpty, Slot
  <2>6. RecoveryInv'
    BY <1>9, RecoverySteps DEF StepInvoke, TypeOK, RecoveryInv
  <2>7. AccountInv'
    BY <1>9 DEF StepInvoke, TypeOK, AccountInv, Covered, Unowned, BuildInv
  <2> QED
    BY <2>1, <2>2, <2>3, <2>4, <2>5, <2>6, <2>7
<1>10. ASSUME StepFails
      PROVE  IInv'
  <2>1. TypeOK'
    BY <1>10 DEF StepFails, local, TypeOK, Slot, Content, Object
  <2>2. FreeSuffixEmpty'
    BY <1>10 DEF StepFails, local, TypeOK, FreeSuffixEmpty, Slot
  <2>3. HandlesDisjoint'
    BY <1>10 DEF StepFails, local, TypeOK, HandlesDisjoint, Unowned, Slot
  <2>4. BuildInv'
    BY <1>10 DEF StepFails, local, TypeOK, BuildInv, FreeSuffixEmpty, Slot
  <2>5. RollbackInv'
    BY <1>10 DEF StepFails, local, TypeOK, RollbackInv, BuildInv, FreeSuffixEmpty, Slot
  <2>6. RecoveryInv'
    BY <1>10 DEF StepFails, local, TypeOK, RecoveryInv
  <2>7. AccountInv'
    BY <1>10 DEF StepFails, local, TypeOK, AccountInv, Covered, Unowned, BuildInv
  <2> QED
    BY <2>1, <2>2, <2>3, <2>4, <2>5, <2>6, <2>7
<1>11. ASSUME Commit
      PROVE  IInv'
  <2>1. TypeOK'
    BY <1>11 DEF Commit, Return, Handle, TypeOK, BuildInv
  <2>2. FreeSuffixEmpty'
    BY <1>11 DEF Commit, Return, Handle, TypeOK, FreeSuffixEmpty, Slot
  <2>3. HandlesDisjoint'
    <3>1. /\ Unowned' = start /\ Unowned <= start /\ start \in First..End
          /\ handles' = handles \cup {Handle(op, Unowned, start, before.script)}
      BY <1>11 DEF Commit, Return, Unowned, TypeOK, BuildInv, RecoveryInv
    <3> QED
      BY <3>1, HandOver
  <2>4. BuildInv'
    BY <1>11 DEF Commit, Return, Handle, TypeOK, BuildInv, FreeSuffixEmpty, Slot
  <2>5. RollbackInv'
    BY <1>11 DEF Commit, Return, Handle, TypeOK, RollbackInv, BuildInv, FreeSuffixEmpty, Slot
  <2>6. RecoveryInv'
    BY <1>11 DEF Commit, Return, Handle, TypeOK, RecoveryInv
  <2>7. AccountInv'
    <3>1. /\ Unowned' = start /\ Unowned <= start /\ start \in First..End
          /\ handles' = handles \cup {Handle(op, Unowned, start, before.script)}
      BY <1>11 DEF Commit, Return, Unowned, TypeOK, BuildInv, RecoveryInv
    <3> QED
      BY <3>1, HandOver
  <2> QED
    BY <2>1, <2>2, <2>3, <2>4, <2>5, <2>6, <2>7
<1>12. ASSUME RollbackDelete
      PROVE  IInv'
  <2>1. TypeOK'
    BY <1>12 DEF RollbackDelete, local, TypeOK, Slot, Content, Object
  <2>2. FreeSuffixEmpty'
    BY <1>12 DEF RollbackDelete, local, TypeOK, FreeSuffixEmpty, Slot
  <2>3. HandlesDisjoint'
    BY <1>12 DEF RollbackDelete, local, TypeOK, HandlesDisjoint, Unowned, Slot
  <2>4. BuildInv'
    BY <1>12 DEF RollbackDelete, local, TypeOK, BuildInv, FreeSuffixEmpty, Slot
  <2>5. RollbackInv'
    BY <1>12 DEF RollbackDelete, local, TypeOK, RollbackInv, BuildInv, FreeSuffixEmpty, Slot
  <2>6. RecoveryInv'
    BY <1>12 DEF RollbackDelete, local, TypeOK, RecoveryInv
  <2>7. AccountInv'
    BY <1>12 DEF RollbackDelete, local, TypeOK, AccountInv, Covered, Unowned, BuildInv
  <2> QED
    BY <2>1, <2>2, <2>3, <2>4, <2>5, <2>6, <2>7
<1>13. ASSUME RollbackDeleteFails
      PROVE  IInv'
  <2>1. TypeOK'
    BY <1>13 DEF RollbackDeleteFails, Return, Handle, TypeOK, Slot, Content, Object
  <2>2. FreeSuffixEmpty'
    BY <1>13 DEF RollbackDeleteFails, Return, Handle, TypeOK, FreeSuffixEmpty, Slot
  <2>3. HandlesDisjoint'
    <3>1. /\ Unowned' = start /\ Unowned <= start /\ start \in First..End
          /\ handles' = handles \cup {Handle("leaked", Unowned, start, <<>>)}
      BY <1>13 DEF RollbackDeleteFails, Return, Unowned, TypeOK, BuildInv
    <3> QED
      BY <3>1, HandOver
  <2>4. BuildInv'
    BY <1>13 DEF RollbackDeleteFails, Return, Handle, TypeOK, BuildInv, FreeSuffixEmpty, Slot
  <2>5. RollbackInv'
    BY <1>13 DEF RollbackDeleteFails, Return, Handle, TypeOK, RollbackInv, BuildInv, FreeSuffixEmpty, Slot
  <2>6. RecoveryInv'
    BY <1>13 DEF RollbackDeleteFails, Return, Handle, TypeOK, RecoveryInv
  <2>7. AccountInv'
    <3>1. /\ Unowned' = start /\ Unowned <= start /\ start \in First..End
          /\ handles' = handles \cup {Handle("leaked", Unowned, start, <<>>)}
      BY <1>13 DEF RollbackDeleteFails, Return, Unowned, TypeOK, BuildInv
    <3> QED
      BY <3>1, HandOver
  <2> QED
    BY <2>1, <2>2, <2>3, <2>4, <2>5, <2>6, <2>7
<1>14. ASSUME RollbackRewind
      PROVE  IInv'
  <2>1. TypeOK'
    BY <1>14 DEF RollbackRewind, Return, TypeOK, Slot, Content, Object
  <2>2. FreeSuffixEmpty'
    BY <1>14 DEF RollbackRewind, Return, TypeOK, FreeSuffixEmpty, RollbackInv
  <2>3. HandlesDisjoint'
    BY <1>14 DEF RollbackRewind, Return, TypeOK, HandlesDisjoint, Unowned, Slot
  <2>4. BuildInv'
    BY <1>14 DEF RollbackRewind, Return, TypeOK, BuildInv, FreeSuffixEmpty, Slot
  <2>5. RollbackInv'
    BY <1>14 DEF RollbackRewind, Return, TypeOK, RollbackInv, BuildInv, FreeSuffixEmpty, Slot
  <2>6. RecoveryInv'
    BY <1>14 DEF RollbackRewind, Return, TypeOK, RecoveryInv
  <2>7. AccountInv'
    BY <1>14 DEF RollbackRewind, Return, TypeOK, AccountInv, Covered, Unowned, BuildInv
  <2> QED
    BY <2>1, <2>2, <2>3, <2>4, <2>5, <2>6, <2>7
<1> QED
  BY <1>1, <1>2, <1>3, <1>4, <1>5, <1>6, <1>7, <1>8, <1>9, <1>10, <1>11, <1>12, <1>13, <1>14 DEF Next, Construct

(* IInv also survives stuttering. *)
LEMMA InductiveBox == IInv /\ [Next]_vars => IInv'
<1>1. ASSUME IInv, UNCHANGED vars PROVE IInv'
  BY <1>1 DEF IInv, TypeOK, FreeSuffixEmpty, HandlesDisjoint, Unowned, BuildInv, RollbackInv,
              RecoveryInv, AccountInv, Covered, vars
<1> QED
  BY <1>1, Inductive

-----------------------------------------------------------------------------
(***************************************************************************)
(* Theorems                                                                *)
(***************************************************************************)

(* At every moment, also half way through a construction or a rollback, the *)
(* slots still to be handed out are empty, no slot has two owners, and      *)
(* between operations every slot taken has one.                             *)
THEOREM OwnershipSafe == Spec => []OwnershipInv
<1>1. IInv => OwnershipInv
  BY DEF IInv, AccountInv, Covered, Unowned, SlotsAccounted, OwnershipInv
<1> QED
  BY InitInv, InductiveBox, <1>1, PTL DEF Spec

(* An ordinary failure of create_task or map_recovery_frame is invisible in *)
(* the root CNode and in the allocator.                                     *)
THEOREM RollbackRestores == Spec => FailureRestores
<1> DEFINE A == phase = "rollback" /\ phase' = "idle" /\ result' = "error" =>
                  start' = before.start /\ root' = before.root
<1>1. ASSUME IInv, Next, phase = "rollback", phase' = "idle", result' = "error"
      PROVE  start' = before.start /\ root' = before.root
  <2>1. RollbackRewind
    BY <1>1 DEF Next, Construct, Allocate, AllocateFails, AllocateReplyPool, SaveCaller,
                DeleteReply, CreateTask, MapRecoveryFrame, Begin, StepObject, StepInvoke,
                StepFails, Commit, RollbackDelete, RollbackDeleteFails, Return
  <2>2. start' = before.start /\ root' = root /\ cursor = checkpoint
    BY <1>1, <2>1 DEF RollbackRewind, IInv, BuildInv
  <2>3. root \in [Slot -> Content] /\ before.root \in [Slot -> Content]
    BY <1>1 DEF IInv, TypeOK, BuildInv
  <2>4. \A s \in Slot : root[s] = before.root[s]
    <3> SUFFICES ASSUME NEW s \in Slot PROVE root[s] = before.root[s]
      OBVIOUS
    <3>1. CASE s < checkpoint
      BY <1>1, <3>1 DEF IInv, BuildInv
    <3>2. CASE ~(s < checkpoint)
      BY <1>1, <2>2, <3>2, BootstrapAssumption DEF IInv, TypeOK, BuildInv, RollbackInv, Slot
    <3> QED
      BY <3>1, <3>2
  <2> QED
    BY <2>2, <2>3, <2>4
<1>2. IInv /\ [Next]_vars => [A]_vars
  BY <1>1
<1> QED
  BY InitInv, InductiveBox, <1>2, PTL DEF Spec, FailureRestores

(* The slot count map_recovery_frame checks is always the one it expects. *)
THEOREM SuccessReturned == Spec => SuccessIsReturned
<1> DEFINE A == phase = "build" /\ phase' = "idle" => result' = "ok"
<1>1. ASSUME IInv, Next, phase = "build", phase' = "idle"
      PROVE  result' = "ok"
  <2>1. Commit
    BY <1>1 DEF Next, Construct, Allocate, AllocateFails, AllocateReplyPool, SaveCaller,
                DeleteReply, CreateTask, MapRecoveryFrame, Begin, StepObject, StepInvoke,
                StepFails, RollbackDelete, RollbackDeleteFails, RollbackRewind
  <2>2. op = "mapping" => start - checkpoint = 1
    BY <1>1, <2>1, BootstrapAssumption DEF Commit, IInv, TypeOK, RecoveryInv
  <2> QED
    BY <2>1, <2>2 DEF Commit, Return
<1>2. IInv /\ [Next]_vars => [A]_vars
  BY <1>1
<1> QED
  BY InitInv, InductiveBox, <1>2, PTL DEF Spec, SuccessIsReturned

(* What a step may do to the slots of handle h. *)
LEMMA StableStep ==
    ASSUME IInv, Next, NEW h \in handles, h.kind # "pool", NEW x \in h.lo..(h.hi - 1)
    PROVE  root'[x] = root[x]
<1> USE BootstrapAssumption
<1>1. x \in Slot /\ x < Unowned /\ x < start
  BY DEF IInv, TypeOK, HandlesDisjoint, Unowned, BuildInv, Slot
<1>2. ASSUME NEW kind \in Kinds, Allocate(kind)
      PROVE  root'[x] = root[x]
  <2>1. x # start
    BY <1>1 DEF IInv, TypeOK, Slot
  <2> QED
    BY <1>2, <1>1, <2>1 DEF Allocate, Fill, IInv, TypeOK
<1>3. ASSUME AllocateFails
      PROVE  root'[x] = root[x]
  BY <1>3 DEF AllocateFails
<1>4. ASSUME NEW n \in PoolSizes, AllocateReplyPool(n)
      PROVE  root'[x] = root[x]
  BY <1>4 DEF AllocateReplyPool
<1>5. ASSUME NEW s \in Slot, SaveCaller(s)
      PROVE  root'[x] = root[x]
  <2>1. x # s
    BY <1>5 DEF SaveCaller, Owns, IInv, TypeOK, HandlesDisjoint
  <2> QED
    BY <1>5, <2>1 DEF SaveCaller, IInv, TypeOK
<1>6. ASSUME NEW s \in Slot, DeleteReply(s)
      PROVE  root'[x] = root[x]
  <2>1. x # s
    BY <1>6 DEF DeleteReply, Owns, IInv, TypeOK, HandlesDisjoint
  <2> QED
    BY <1>6, <2>1 DEF DeleteReply, IInv, TypeOK
<1>7. ASSUME NEW m \in Mints, NEW t \in Tables, CreateTask(m, t)
      PROVE  root'[x] = root[x]
  BY <1>7 DEF CreateTask, Begin
<1>8. ASSUME MapRecoveryFrame
      PROVE  root'[x] = root[x]
  BY <1>8 DEF MapRecoveryFrame, Begin
<1>9. ASSUME StepObject
      PROVE  root'[x] = root[x]
  <2>1. x # start
    BY <1>1 DEF IInv, TypeOK, Slot
  <2> QED
    BY <1>9, <1>1, <2>1 DEF StepObject, Fill, IInv, TypeOK
<1>10. ASSUME StepInvoke
      PROVE  root'[x] = root[x]
  BY <1>10 DEF StepInvoke
<1>11. ASSUME StepFails
      PROVE  root'[x] = root[x]
  BY <1>11 DEF StepFails
<1>12. ASSUME Commit
      PROVE  root'[x] = root[x]
  BY <1>12 DEF Commit
<1>13. ASSUME RollbackDelete
      PROVE  root'[x] = root[x]
  <2>1. x < cursor - 1
    BY <1>13, <1>1 DEF RollbackDelete, IInv, TypeOK, RollbackInv, Unowned
  <2> QED
    BY <1>13, <2>1 DEF RollbackDelete, IInv, TypeOK
<1>14. ASSUME RollbackDeleteFails
      PROVE  root'[x] = root[x]
  BY <1>14 DEF RollbackDeleteFails
<1>15. ASSUME RollbackRewind
      PROVE  root'[x] = root[x]
  BY <1>15 DEF RollbackRewind
<1> QED
  BY <1>2, <1>3, <1>4, <1>5, <1>6, <1>7, <1>8, <1>9, <1>10, <1>11, <1>12, <1>13, <1>14, <1>15 DEF Next, Construct

-----------------------------------------------------------------------------
(***************************************************************************)
(* What the slots of a handle hold                                         *)
(***************************************************************************)

(* The steps of the constructions. *)
Step ==
    Object \cup
    {"validate", "tracker", "mint", "mark_occupied", "asid", "table_map", "aligned",
     "frame_map", "addresses", "configure", "registers"}

(* All of a script but `rest` is done: its slots, from `first` on, hold what *)
(* its steps put there, and `free` is the slot after them.                   *)
Progress(script, rest, first, free, cnode) ==
    LET done == Len(script) - Len(rest) IN
    /\ script \in Seq(Step) /\ rest \in Seq(Step) /\ Len(rest) <= Len(script)
    /\ \A i \in 1..Len(rest) : rest[i] = script[done + i]
    /\ free = first + Taken(script, done)
    /\ \A i \in 1..done : script[i] \in Object => cnode[first + Taken(script, i) - 1] = script[i]

ScriptInv ==
    /\ \A h \in handles : h.script \in Seq(Step)
    /\ phase = "build" => Progress(before.script, todo, checkpoint, start, root)

(* What HandlesIntact says of one handle. *)
Intact(h) ==
    IF h.kind = "pool"
    THEN \A s \in h.lo..(h.hi - 1) : root[s] \in {"empty", "reply"}
    ELSE /\ h.hi = h.lo + Taken(h.script, Len(h.script))
         /\ \A i \in 1..Len(h.script) : h.script[i] \in Object =>
               root[h.lo + Taken(h.script, i) - 1] = h.script[i]

IntactInv == IInv /\ ScriptInv /\ HandlesIntact

(* How the number of slots taken grows along a script. *)
LEMMA TakenNat ==
    ASSUME NEW script, NEW n \in Nat
    PROVE  /\ Taken(script, n) \in Nat
           /\ IsFiniteSet({i \in 1..n : script[i] \in Object})
<1>1. IsFiniteSet(1..n)
  BY FS_Interval
<1>2. IsFiniteSet({i \in 1..n : script[i] \in Object})
  BY <1>1, FS_Subset
<1> QED
  BY <1>2, FS_CardinalityType DEF Taken

LEMMA TakenZero == \A script : Taken(script, 0) = 0
<1>1. \A script : {i \in 1..0 : script[i] \in Object} = {}
  OBVIOUS
<1> QED
  BY <1>1, FS_EmptySet DEF Taken

LEMMA TakenNext ==
    ASSUME NEW script, NEW n \in Nat
    PROVE  Taken(script, n + 1) =
             IF script[n + 1] \in Object THEN Taken(script, n) + 1 ELSE Taken(script, n)
<1> DEFINE T(k) == {i \in 1..k : script[i] \in Object}
<1>1. n + 1 \notin T(n) /\ IsFiniteSet(T(n)) /\ Cardinality(T(n)) \in Nat
  BY TakenNat DEF Taken
<1>2. CASE script[n + 1] \in Object
  <2>1. T(n + 1) = T(n) \cup {n + 1}
    BY <1>2
  <2>2. Cardinality(T(n) \cup {n + 1}) = Cardinality(T(n)) + 1
    <3> HIDE DEF T
    <3> QED BY <1>1, FS_AddElement
  <2> QED
    BY <1>2, <2>1, <2>2 DEF Taken
<1>3. CASE script[n + 1] \notin Object
  <2>1. T(n + 1) = T(n)
    BY <1>3
  <2> QED
    BY <1>3, <2>1 DEF Taken
<1> QED
  BY <1>2, <1>3

LEMMA TakenGrows ==
    ASSUME NEW script, NEW n \in Nat, NEW k \in 1..n
    PROVE  /\ Taken(script, k) <= Taken(script, n)
           /\ script[k] \in Object => 1 <= Taken(script, k)
<1>1. IsFiniteSet({i \in 1..n : script[i] \in Object})
  BY TakenNat
<1>2. {i \in 1..k : script[i] \in Object} \subseteq {i \in 1..n : script[i] \in Object}
  OBVIOUS
<1>3. Taken(script, k) <= Taken(script, n)
  BY <1>1, <1>2, FS_Subset DEF Taken
<1>4. ASSUME script[k] \in Object
      PROVE  1 <= Taken(script, k)
  <2>1. k - 1 \in Nat /\ (k - 1) + 1 = k
    OBVIOUS
  <2>2. Taken(script, (k - 1) + 1) = Taken(script, k - 1) + 1
    BY <1>4, <2>1, TakenNext
  <2>3. Taken(script, k - 1) \in Nat
    BY <2>1, TakenNat
  <2> QED
    BY <2>1, <2>2, <2>3
<1> QED
  BY <1>3, <1>4

(* Constructions are sequences of steps. *)
LEMMA ShortScripts ==
    ASSUME NEW a \in Step, NEW b \in Step, NEW c \in Step, NEW d \in Step
    PROVE  /\ <<a>> \in Seq(Step) /\ <<a>> # <<>>
           /\ <<a, b>> \in Seq(Step) /\ <<a, b>> # <<>>
           /\ <<a, b, c>> \in Seq(Step)
           /\ <<a, b, c, d>> \in Seq(Step) /\ <<a, b, c, d>> # <<>>
OBVIOUS

LEMMA RepeatIsScript ==
    ASSUME NEW step \in Seq(Step), step # <<>>, NEW n \in Nat
    PROVE  Repeat(step, n) \in Seq(Step)
<1>1. PICK k \in Nat \ {0} : k = Len(step)
  BY EmptySeq
<1>2. \A j \in 1..k : step[j] \in Step
  BY <1>1, ElementOfSeq
<1>3. n * k \in Nat
  OBVIOUS
<1>4. \A i \in 1..(n * k) : ((i - 1) % k) + 1 \in 1..k
  BY <1>3
<1>5. Repeat(step, n) = [i \in 1..(n * k) |-> step[((i - 1) % k) + 1]]
  BY <1>1, Zenon DEF Repeat
<1>6. Repeat(step, n) \in [1..(n * k) -> Step]
  BY <1>2, <1>4, <1>5
<1> QED
  BY <1>3, <1>6, SeqDef

LEMMA TaskIsScript ==
    ASSUME NEW m \in Mints, NEW t \in Tables
    PROVE  TaskScript(m, t) \in Seq(Step)
<1>1. m \in Nat /\ t \in Nat /\ 3 \in Nat
  BY BootstrapAssumption
<1>2. CSpaceScript(m) \in Seq(Step)
  <2>1. <<"validate", "cnode", "tracker">> \in Seq(Step)
    BY ShortScripts DEF Step, Object
  <2>2. Repeat(<<"mint", "mark_occupied">>, m) \in Seq(Step)
    BY <1>1, ShortScripts, RepeatIsScript DEF Step
  <2> QED
    BY <2>1, <2>2, ConcatProperties, Zenon DEF CSpaceScript
<1>3. VSpaceScript(t) \in Seq(Step)
  <2>1. <<"vspace", "asid">> \in Seq(Step)
    BY ShortScripts DEF Step, Object
  <2>2. Repeat(<<"table", "table_map">>, t) \in Seq(Step)
    BY <1>1, ShortScripts, RepeatIsScript DEF Step, Object
  <2> QED
    BY <2>1, <2>2, ConcatProperties, Zenon DEF VSpaceScript
<1>4. MapFrameScript \in Seq(Step) /\ ThreadScript \in Seq(Step)
  BY ShortScripts DEF MapFrameScript, ThreadScript, Step, Object
<1>5. Repeat(<<"frame">> \o MapFrameScript, 3) \in Seq(Step)
  <2>1. "frame" \in Step
    BY DEF Step, Object
  <2>2. PICK f \in Seq(Step) : f = <<"frame">> /\ f # <<>>
    BY <2>1, ShortScripts, Zenon
  <2>3. PICK s \in Seq(Step) : s = f \o MapFrameScript /\ Len(s) = Len(f) + Len(MapFrameScript)
    BY <1>4, <2>2, ConcatProperties, Zenon
  <2>4. Len(f) \in Nat /\ Len(MapFrameScript) \in Nat /\ Len(f) >= 1
    BY <1>4, <2>2, LenProperties, EmptySeq
  <2>5. s # <<>>
    BY <2>3, <2>4, EmptySeq
  <2>6. s = <<"frame">> \o MapFrameScript
    BY <2>2, <2>3, Zenon
  <2>7. Repeat(s, 3) \in Seq(Step)
    BY <1>1, <2>5, RepeatIsScript
  <2> QED
    BY <2>6, <2>7, Zenon
<1> QED
  BY <1>2, <1>3, <1>4, <1>5, ConcatProperties, Zenon DEF TaskScript

(* Nothing done yet. *)
LEMMA ProgressBegins ==
    ASSUME NEW script \in Seq(Step), NEW first \in Int, NEW cnode
    PROVE  Progress(script, script, first, first, cnode)
<1>1. Len(script) \in Nat /\ Len(script) - Len(script) = 0
  BY LenProperties
<1>2. \A i \in 1..Len(script) : script[i] = script[0 + i]
  BY <1>1
<1>3. first = first + Taken(script, 0)
  BY TakenZero
<1>4. \A i \in 1..0 : cnode[first + Taken(script, i) - 1] = script[i]
  OBVIOUS
<1> QED
  BY <1>1, <1>2, <1>3, <1>4 DEF Progress

(* One step of the script: a slot is filled if the step is an object. *)
LEMMA ProgressStep ==
    ASSUME NEW script, NEW rest, NEW first \in Int, NEW free, NEW cnode,
           Progress(script, rest, first, free, cnode), rest # <<>>,
           NEW free2, NEW cnode2,
           IF Head(rest) \in Object
           THEN free2 = free + 1 /\ cnode2[free] = Head(rest)
           ELSE free2 = free,
           \A x \in first..(free - 1) : cnode2[x] = cnode[x]
    PROVE  Progress(script, Tail(rest), first, free2, cnode2)
<1> DEFINE d == Len(script) - Len(rest)
           t == Tail(rest)
<1>1. /\ script \in Seq(Step) /\ rest \in Seq(Step) /\ Len(rest) <= Len(script)
      /\ \A i \in 1..Len(rest) : rest[i] = script[d + i]
      /\ free = first + Taken(script, d)
      /\ \A i \in 1..d : script[i] \in Object => cnode[first + Taken(script, i) - 1] = script[i]
  BY DEF Progress
<1>2. Len(script) \in Nat /\ Len(rest) \in Nat /\ Len(rest) >= 1
  BY <1>1, LenProperties, EmptySeq
<1>3. /\ t \in Seq(Step) /\ Len(t) = Len(rest) - 1
      /\ \A i \in 1..Len(t) : t[i] = rest[i + 1]
  BY <1>1, HeadTailProperties
<1>4. Head(rest) = rest[1]
  BY <1>1
<1> HIDE DEF t
<1>5. PICK n \in Nat : n = d
  <2>1. Len(rest) <= Len(script)
    BY <1>1
  <2>2. d \in Nat
    BY <1>2, <2>1
  <2> QED
    BY <2>2, Zenon
<1>6. Len(script) - Len(t) = n + 1 /\ Len(t) <= Len(script)
  BY <1>2, <1>3, <1>5, <1>1
<1> HIDE DEF d
<1>7. Head(rest) = script[n + 1]
  BY <1>1, <1>2, <1>4, <1>5
<1>8. ASSUME NEW i \in 1..Len(t)
      PROVE  t[i] = script[(n + 1) + i]
  <2>1. i + 1 \in 1..Len(rest) /\ n + (i + 1) = (n + 1) + i
    BY <1>2, <1>3
  <2> QED
    BY <1>1, <1>3, <1>5, <2>1
<1>9. free2 = first + Taken(script, n + 1)
  <2>1. PICK k \in Nat : k = Taken(script, n)
    BY TakenNat, Zenon
  <2>2. free = first + k
    BY <1>1, <1>5, <2>1, Zenon
  <2>3. Taken(script, n + 1) = IF Head(rest) \in Object THEN k + 1 ELSE k
    BY <1>7, <2>1, TakenNext, Zenon
  <2> QED
    BY <2>2, <2>3
<1>10. ASSUME NEW i \in 1..(n + 1), script[i] \in Object
       PROVE  cnode2[first + Taken(script, i) - 1] = script[i]
  <2>1. CASE i <= n
    <3>1. i \in 1..n /\ i \in Nat
      BY <2>1
    <3>2. Taken(script, i) <= Taken(script, n) /\ 1 <= Taken(script, i)
      BY <1>10, <3>1, TakenGrows
    <3>3. Taken(script, i) \in Nat /\ Taken(script, n) \in Nat
      BY <3>1, TakenNat
    <3>4. first + Taken(script, i) - 1 \in first..(free - 1)
      <4>1. free = first + Taken(script, n)
        BY <1>1, <1>5, Zenon
      <4> QED
        BY <3>2, <3>3, <4>1
    <3> QED
      BY <1>1, <1>5, <1>10, <3>1, <3>4
  <2>2. CASE i = n + 1
    <3>1. Taken(script, n + 1) = Taken(script, n) + 1 /\ Taken(script, n) \in Nat
      BY <1>10, <2>2, TakenNext, TakenNat
    <3>2. first + Taken(script, i) - 1 = free
      BY <1>1, <1>5, <2>2, <3>1
    <3> QED
      BY <1>7, <1>10, <2>2, <3>2
  <2> QED
    BY <2>1, <2>2
<1>11. Progress(script, t, first, free2, cnode2)
  BY <1>1, <1>3, <1>6, <1>8, <1>9, <1>10, Zenon DEF Progress
<1> QED
  BY <1>11 DEF t

(* All steps done: what a handle for the script promises. *)
LEMMA ProgressEnds ==
    ASSUME NEW script, NEW first, NEW free, NEW cnode,
           Progress(script, <<>>, first, free, cnode)
    PROVE  /\ script \in Seq(Step)
           /\ free = first + Taken(script, Len(script))
           /\ \A i \in 1..Len(script) : script[i] \in Object =>
                 cnode[first + Taken(script, i) - 1] = script[i]
<1>1. script \in Seq(Step)
  BY DEF Progress
<1>2. Len(<<>>) = 0 /\ Len(script) \in Nat
  BY <1>1, EmptySeq, LenProperties
<1>3. Len(script) - 0 = Len(script)
  BY <1>2
<1> QED
  BY <1>1, <1>2, <1>3, Zenon DEF Progress

(* The handles of pools and leaks have no script. *)
LEMMA NoScript ==
    ASSUME NEW kind, NEW lo, NEW hi
    PROVE  Handle(kind, lo, hi, <<>>).script \in Seq(Step)
<1>1. Handle(kind, lo, hi, <<>>).script = <<>>
  BY DEF Handle
<1>2. <<>> \in Seq(Step)
  BY EmptySeq
<1> QED
  BY <1>1, <1>2, Zenon

(* The scripts of the handles, and how far the construction under way is.   *)
LEMMA ScriptStep ==
    ASSUME IInv, ScriptInv, Next
    PROVE  ScriptInv'
<1> USE BootstrapAssumption
<1>0. /\ \A h \in handles : h.script \in Seq(Step)
      /\ phase = "build" => Progress(before.script, todo, checkpoint, start, root)
      /\ checkpoint \in Int /\ start \in Int
  BY DEF ScriptInv, IInv, TypeOK
<1>1. ASSUME NEW kind \in Kinds, Allocate(kind)
      PROVE  ScriptInv'
  <2>1. <<kind>> \in Seq(Step)
    BY ShortScripts DEF Step, Object
  <2>2. \A h \in handles' : h.script \in Seq(Step)
    BY <1>0, <1>1, <2>1 DEF Allocate, Handle
  <2>3. phase' # "build"
    BY <1>1 DEF Allocate
  <2> QED
    BY <2>2, <2>3 DEF ScriptInv
<1>2. ASSUME NEW n \in PoolSizes, AllocateReplyPool(n)
      PROVE  ScriptInv'
  <2>1. \A h \in handles' : h.script \in Seq(Step)
    BY <1>0, <1>2, NoScript, Zenon DEF AllocateReplyPool
  <2>2. phase' # "build"
    BY <1>2 DEF AllocateReplyPool
  <2> QED
    BY <2>1, <2>2 DEF ScriptInv
<1>3. ASSUME handles' = handles, phase' # "build"
      PROVE  ScriptInv'
  BY <1>0, <1>3 DEF ScriptInv
<1>4. ASSUME AllocateFails \/ \E s \in Slot : SaveCaller(s) \/ DeleteReply(s)
      PROVE  ScriptInv'
  BY <1>3, <1>4 DEF AllocateFails, SaveCaller, DeleteReply
<1>5. ASSUME NEW name, NEW script \in Seq(Step), Begin(name, script)
      PROVE  ScriptInv'
  <2>1. /\ before'.script = script /\ todo' = script /\ checkpoint' = start /\ start' = start
        /\ handles' = handles /\ root' = root
    BY <1>5 DEF Begin
  <2>2. Progress(script, script, start, start, root)
    BY <1>0, ProgressBegins
  <2> QED
    BY <1>0, <2>1, <2>2 DEF ScriptInv
<1>6. ASSUME NEW m \in Mints, NEW t \in Tables, CreateTask(m, t)
      PROVE  ScriptInv'
  BY <1>5, <1>6, TaskIsScript DEF CreateTask
<1>7. ASSUME MapRecoveryFrame
      PROVE  ScriptInv'
  <2>1. RecoveryScript \in Seq(Step)
    BY RecoverySteps, ShortScripts DEF Step, Object
  <2> QED
    BY <1>5, <1>7, <2>1 DEF MapRecoveryFrame
<1>8. ASSUME StepObject
      PROVE  ScriptInv'
  <2>1. /\ phase = "build" /\ todo # <<>> /\ Head(todo) \in Object /\ start < End
        /\ root' = [root EXCEPT ![start] = Head(todo)] /\ start' = start + 1
        /\ todo' = Tail(todo) /\ UNCHANGED <<handles, phase, checkpoint, before>>
    BY <1>8 DEF StepObject, Fill
  <2>2. start \in Slot /\ root \in [Slot -> Content] /\ checkpoint \in First..End
    BY <2>1 DEF IInv, TypeOK, Slot
  <2>3. root'[start] = Head(todo) /\ \A x \in checkpoint..(start - 1) : root'[x] = root[x]
    BY <2>1, <2>2 DEF Slot
  <2>4. Progress(before.script, Tail(todo), checkpoint, start + 1, root')
    <3>1. IF Head(todo) \in Object
          THEN start + 1 = start + 1 /\ root'[start] = Head(todo) ELSE start + 1 = start
      BY <2>1, <2>3
    <3>2. Progress(before.script, todo, checkpoint, start, root)
      BY <1>0, <2>1
    <3>3. PICK script, rest, first, free, cn, cn2 :
            /\ script = before.script /\ rest = todo /\ first = checkpoint /\ free = start
            /\ cn = root /\ cn2 = root'
      OBVIOUS
    <3>4. /\ Progress(script, rest, first, free, cn) /\ first \in Int /\ rest # <<>>
          /\ IF Head(rest) \in Object
             THEN free + 1 = free + 1 /\ cn2[free] = Head(rest) ELSE free + 1 = free
          /\ \A x \in first..(free - 1) : cn2[x] = cn[x]
      BY <1>0, <2>1, <2>3, <3>1, <3>2, <3>3, Zenon
    <3>5. Progress(script, Tail(rest), first, free + 1, cn2)
      BY <3>4, ProgressStep
    <3> QED
      BY <3>3, <3>5
  <2> QED
    BY <1>0, <2>1, <2>4 DEF ScriptInv
<1>9. ASSUME StepInvoke
      PROVE  ScriptInv'
  <2>1. /\ phase = "build" /\ todo # <<>> /\ Head(todo) \notin Object
        /\ todo' = Tail(todo) /\ UNCHANGED <<start, root, handles, phase, checkpoint, before>>
    BY <1>9 DEF StepInvoke
  <2>2. Progress(before.script, Tail(todo), checkpoint, start, root)
    BY <1>0, <2>1, ProgressStep
  <2> QED
    BY <1>0, <2>1, <2>2 DEF ScriptInv
<1>10. ASSUME StepFails \/ RollbackDelete \/ RollbackRewind
       PROVE  ScriptInv'
  BY <1>3, <1>10 DEF StepFails, RollbackDelete, RollbackRewind, Return
<1>11. ASSUME Commit
       PROVE  ScriptInv'
  <2>1. before.script \in Seq(Step)
    BY <1>0, <1>11 DEF Commit, Progress
  <2>2. /\ phase' # "build"
        /\ handles' \subseteq handles \cup {Handle(op, checkpoint, start, before.script)}
    BY <1>11 DEF Commit, Return
  <2> QED
    BY <1>0, <2>1, <2>2 DEF ScriptInv, Handle
<1>12. ASSUME RollbackDeleteFails
       PROVE  ScriptInv'
  <2>1. \A h \in handles' : h.script \in Seq(Step)
    BY <1>0, <1>12, NoScript, Zenon DEF RollbackDeleteFails
  <2>2. phase' # "build"
    BY <1>12 DEF RollbackDeleteFails, Return
  <2> QED
    BY <2>1, <2>2 DEF ScriptInv
<1> QED
  BY <1>1, <1>2, <1>4, <1>6, <1>7, <1>8, <1>9, <1>10, <1>11, <1>12 DEF Next, Construct

(* A handle is as intact after a step as before it. *)
LEMMA StillIntact ==
    ASSUME IInv, ScriptInv, Next, NEW h \in handles, Intact(h)
    PROVE  Intact(h)'
<1> USE BootstrapAssumption
<1>1. CASE h.kind # "pool"
  <2>1. PICK script \in Seq(Step) : script = h.script
    BY DEF ScriptInv
  <2>2. Len(script) \in Nat /\ h.lo \in Int /\ h.hi \in Int
    BY <2>1, LenProperties DEF IInv, TypeOK
  <2>3. /\ h.hi = h.lo + Taken(script, Len(script))
        /\ \A i \in 1..Len(script) : script[i] \in Object =>
              root[h.lo + Taken(script, i) - 1] = script[i]
    BY <1>1, <2>1 DEF Intact
  <2>4. ASSUME NEW i \in 1..Len(script), script[i] \in Object
        PROVE  root'[h.lo + Taken(script, i) - 1] = script[i]
    <3>1. /\ Taken(script, i) <= Taken(script, Len(script)) /\ 1 <= Taken(script, i)
          /\ Taken(script, i) \in Nat /\ Taken(script, Len(script)) \in Nat
      <4>1. i \in Nat
        BY <2>2
      <4> QED
        BY <2>2, <2>4, <4>1, TakenGrows, TakenNat, Zenon
    <3>2. h.lo + Taken(script, i) - 1 \in h.lo..(h.hi - 1)
      BY <2>2, <2>3, <3>1
    <3> QED
      BY <1>1, <2>3, <2>4, <3>2, StableStep
  <2> QED
    BY <1>1, <2>1, <2>3, <2>4 DEF Intact
<1>2. CASE h.kind = "pool"
  <2> SUFFICES ASSUME NEW x \in h.lo..(h.hi - 1)
               PROVE  root'[x] \in {"empty", "reply"}
    BY <1>2 DEF Intact
  <2>1. x \in Slot /\ x < start /\ root[x] \in {"empty", "reply"} /\ root \in [Slot -> Content]
    BY <1>2 DEF Intact, IInv, TypeOK, HandlesDisjoint, Unowned, BuildInv, Slot
  <2>2. ASSUME NEW kind, Fill(kind)
        PROVE  root'[x] \in {"empty", "reply"}
    BY <2>1, <2>2 DEF Fill, IInv, TypeOK
  <2>3. ASSUME root' = root
        PROVE  root'[x] \in {"empty", "reply"}
    BY <2>1, <2>3
  <2>4. ASSUME \E s : root' = [root EXCEPT ![s] = "empty"] \/ root' = [root EXCEPT ![s] = "reply"]
        PROVE  root'[x] \in {"empty", "reply"}
    BY <2>1, <2>4
  <2> QED
    BY <2>2, <2>3, <2>4
    DEF Next, Construct, Allocate, AllocateFails, AllocateReplyPool, SaveCaller, DeleteReply,
        CreateTask, MapRecoveryFrame, Begin, StepObject, StepInvoke, StepFails, Commit,
        RollbackDelete, RollbackDeleteFails, RollbackRewind
<1> QED
  BY <1>1, <1>2

(* A handle is intact when it is handed out. *)
LEMMA BornIntact ==
    ASSUME IInv, ScriptInv, Next, NEW h \in handles' \ handles, h.kind # "leaked"
    PROVE  Intact(h)'
<1> USE BootstrapAssumption
<1>0. start \in Int /\ checkpoint \in Int /\ root \in [Slot -> Content] /\ start \in First..End
  BY DEF IInv, TypeOK
<1>1. ASSUME NEW kind \in Kinds, Allocate(kind)
      PROVE  Intact(h)'
  <2>1. /\ h = Handle("object", start, start + 1, <<kind>>) /\ kind \in Object
        /\ start < End /\ root' = [root EXCEPT ![start] = kind]
    BY <1>1 DEF Allocate, Fill, Object
  <2>2. PICK script \in Seq(Step) : script = <<kind>>
    BY <2>1, ShortScripts DEF Step
  <2>3. Len(script) = 1 /\ script[1] = kind
    BY <2>2
  <2>4. Taken(script, 0 + 1) = Taken(script, 0) + 1
    BY <2>1, <2>3, TakenNext
  <2>5. Taken(script, 1) = 1
    BY <2>4, TakenZero
  <2>6. root'[start] = kind
    BY <1>0, <2>1 DEF Slot
  <2>7. h.kind = "object" /\ h.lo = start /\ h.hi = start + 1 /\ h.script = script
    BY <2>1, <2>2 DEF Handle
  <2>8. ASSUME NEW i \in 1..Len(script)
        PROVE  root'[start + Taken(script, i) - 1] = script[i]
    <3>1. i = 1
      BY <2>3
    <3>2. start + 1 - 1 = start
      BY <1>0
    <3> QED
      BY <2>3, <2>5, <2>6, <3>1, <3>2
  <2> QED
    BY <2>3, <2>5, <2>7, <2>8 DEF Intact
<1>2. ASSUME NEW n \in PoolSizes, AllocateReplyPool(n)
      PROVE  Intact(h)'
  <2>1. /\ h = Handle("pool", start, start + n, <<>>) /\ root' = root
        /\ n \in Nat /\ start + n <= End
    BY <1>2 DEF AllocateReplyPool
  <2>2. h.kind = "pool" /\ h.lo = start /\ h.hi = start + n
    BY <2>1 DEF Handle
  <2>3. \A s \in start..(start + n - 1) : root'[s] = "empty"
    BY <1>0, <2>1 DEF IInv, FreeSuffixEmpty
  <2>4. ASSUME NEW s \in h.lo..(h.hi - 1)
        PROVE  root'[s] \in {"empty", "reply"}
    <3>1. s \in start..((start + n) - 1)
      BY <2>2, Zenon
    <3> QED
      BY <1>0, <2>1, <2>3, <3>1
  <2> QED
    BY <2>2, <2>4 DEF Intact
<1>3. ASSUME Commit
      PROVE  Intact(h)'
  <2>1. /\ h = Handle(op, checkpoint, start, before.script) /\ root' = root
        /\ phase = "build" /\ todo = <<>>
    BY <1>3 DEF Commit
  <2>2. /\ h.kind = op /\ op # "pool" /\ h.lo = checkpoint /\ h.hi = start
        /\ h.script = before.script
    BY <2>1 DEF Handle, IInv, TypeOK
  <2>3. PICK script : script = before.script
    OBVIOUS
  <2>4. Progress(script, <<>>, checkpoint, start, root)
    BY <2>1, <2>3 DEF ScriptInv
  <2>5. /\ start = checkpoint + Taken(script, Len(script))
        /\ \A i \in 1..Len(script) : script[i] \in Object =>
              root[checkpoint + Taken(script, i) - 1] = script[i]
    BY <2>4, ProgressEnds
  <2> QED
    BY <2>1, <2>2, <2>3, <2>5 DEF Intact
<1>4. ASSUME RollbackDeleteFails
      PROVE  FALSE
  BY <1>4 DEF RollbackDeleteFails, Handle
<1> QED
  BY <1>1, <1>2, <1>3, <1>4
  DEF Next, Construct, AllocateFails, SaveCaller, DeleteReply, CreateTask, MapRecoveryFrame,
      Begin, StepObject, StepInvoke, StepFails, RollbackDelete, RollbackRewind

(* Whatever is constructed, fails or is rolled back meanwhile, the slots of *)
(* a handle hold what the steps of its constructor put there, in their      *)
(* order, and the slots of a pool nothing but reply capabilities.           *)
THEOREM HandlesStayIntact == Spec => []HandlesIntact
<1>1. Init => IntactInv
  BY InitInv DEF Init, IntactInv, ScriptInv, HandlesIntact
<1>2. IntactInv /\ [Next]_vars => IntactInv'
  <2>1. ASSUME IntactInv, Next
        PROVE  IntactInv'
    <3>1. \A h \in handles : h.kind # "leaked" => Intact(h)
      BY <2>1 DEF IntactInv, HandlesIntact, Intact
    <3>2. \A h \in handles' : h.kind # "leaked" => Intact(h)'
      BY <2>1, <3>1, StillIntact, BornIntact DEF IntactInv
    <3>3. HandlesIntact'
      BY <3>2 DEF HandlesIntact, Intact
    <3> QED
      BY <2>1, <3>3, Inductive, ScriptStep DEF IntactInv
  <2>2. ASSUME IntactInv, UNCHANGED vars
        PROVE  IntactInv'
    BY <2>2, InductiveBox DEF IntactInv, ScriptInv, HandlesIntact, vars
  <2> QED
    BY <2>1, <2>2
<1>3. IntactInv => HandlesIntact
  BY DEF IntactInv
<1> QED
  BY <1>1, <1>2, <1>3, PTL DEF Spec

=============================================================================
