---------------------------- MODULE Notification ----------------------------
(***************************************************************************)
(* Notifications and badges: BadgeSequence (ipc_state.rs), Badge and       *)
(* BadgeAllocator, Notification::signal, wait and poll (ipc.rs), and the   *)
(* delegation of signalling authority (cspace.rs).                         *)
(*                                                                         *)
(* A notification is one word in the kernel.  A signal or-s the badge of   *)
(* the capability it was sent through into that word, or hands the badge   *)
(* to the thread that waits; a wait or a poll takes the whole word.  The   *)
(* root sees only the resulting word, and sees zero as None.               *)
(***************************************************************************)
EXTENDS Naturals, Sequences

CONSTANTS
    Task,      \* tasks the root may delegate the notification to
    MaxWord,   \* usize::MAX
    Bit,       \* bit positions of a word
    Bits,      \* the positions set in each word
    RawBadges, \* values the root may pass to Badge::new itself
    Unbadged,  \* may the root delegate with DelegatedCapability::notification?
    NoCap      \* "not delegated", "no badge in hand"

Word == 0..MaxWord

ASSUME NotificationAssumption ==
    /\ MaxWord \in Nat \ {0}
    /\ NoCap \notin Word
    /\ Bits \in [Word -> SUBSET Bit]
    /\ \A b \in Word : Bits[b] = {} <=> b = 0
    /\ RawBadges \subseteq Word
    /\ Unbadged \in BOOLEAN

VARIABLES
    next,     \* BadgeSequence.next
    issued,   \* history: badges the allocator returned, in order
    hand,     \* a Badge the root has and not used yet
    path,     \* history: the Badge the root meant for each task, 0 for none
    cap,      \* kernel: badge of the task's notification capability
    active,   \* kernel: has the notification been signalled?
    word,     \* kernel: the badge bits gathered
    waiting,  \* is the root blocked in wait?
    observed, \* bits of the badge the last wait or poll returned
    merged,   \* history: tasks whose signals are in the word
    credited, \* history: tasks whose signals the last observation took
    lost      \* history: tasks whose signal a poll took and reported as None

badgeVars == <<next, issued, hand, path, cap>>
kernelVars == <<active, word>>
vars == <<badgeVars, kernelVars, waiting, observed, merged, credited, lost>>

(* BadgeAllocator::new refuses zero. *)
Init ==
    /\ next \in Word \ {0}
    /\ issued = <<>> /\ hand = NoCap
    /\ path = [t \in Task |-> NoCap] /\ cap = [t \in Task |-> NoCap]
    /\ active = FALSE /\ word = {}
    /\ waiting = FALSE /\ observed = {}
    /\ merged = {} /\ credited = {} /\ lost = {}

-----------------------------------------------------------------------------
(***************************************************************************)
(* Badges and delegation.  The root thread does one thing at a time.       *)
(***************************************************************************)

(* Mutant: the successor wraps. *)
AllocateBadgeWraps ==
    /\ ~waiting /\ hand = NoCap
    /\ hand' = next
    /\ issued' = Append(issued, next)
    /\ next' = (next + 1) % (MaxWord + 1)
    /\ UNCHANGED <<path, cap, kernelVars, waiting, observed, merged, credited, lost>>

(* allocate: a badge is returned only if its successor exists, so the last  *)
(* word is never issued.  When it does not, nothing changes.                *)
AllocateBadge ==
    /\ ~waiting /\ hand = NoCap
    /\ next + 1 <= MaxWord
    /\ hand' = next
    /\ issued' = Append(issued, next)
    /\ next' = next + 1
    /\ UNCHANGED <<path, cap, kernelVars, waiting, observed, merged, credited, lost>>

(* Badge::new on a value of the root's own choice *)
MakeBadge(raw) ==
    /\ ~waiting /\ hand = NoCap
    /\ raw # 0
    /\ hand' = raw
    /\ UNCHANGED <<next, issued, path, cap, kernelVars, waiting, observed, merged,
                   credited, lost>>

(* A task is created with a capability minted from the root's, with         *)
(* signalling rights only.                                                  *)
Delegate(t, meant, badge) ==
    /\ ~waiting
    /\ cap[t] = NoCap
    /\ path' = [path EXCEPT ![t] = meant]
    /\ cap' = [cap EXCEPT ![t] = badge]
    /\ UNCHANGED <<next, issued, kernelVars, waiting, observed, merged, credited, lost>>

DelegateUnbadged(t) == Unbadged /\ Delegate(t, 0, 0) /\ UNCHANGED hand

(* Mutant: the badge is not passed on. *)
DelegateBadgedForgets(t) == hand # NoCap /\ Delegate(t, hand, 0) /\ hand' = NoCap

DelegateBadged(t) == hand # NoCap /\ Delegate(t, hand, hand) /\ hand' = NoCap

-----------------------------------------------------------------------------
(***************************************************************************)
(* Signals                                                                 *)
(***************************************************************************)

(* The kernel: a waiting thread gets the badge, otherwise it is or-ed in.   *)
KernelSignal(badge, from) ==
    IF waiting
    THEN /\ waiting' = FALSE
         /\ observed' = Bits[badge]
         /\ credited' = from
         /\ UNCHANGED <<kernelVars, merged>>
    ELSE /\ active' = TRUE
         /\ word' = word \cup Bits[badge]
         /\ merged' = merged \cup from
         /\ UNCHANGED <<waiting, observed, credited>>

TaskSignal(t) ==
    /\ cap[t] # NoCap
    /\ KernelSignal(cap[t], {t})
    /\ UNCHANGED <<badgeVars, lost>>

(* Notification::signal through the root's own capability, which is unbadged *)
Signal ==
    /\ ~waiting
    /\ KernelSignal(0, {})
    /\ UNCHANGED <<badgeVars, lost>>

(* A wait or a poll that finds the notification active takes the word. *)
Take ==
    /\ active' = FALSE
    /\ word' = {}
    /\ observed' = word
    /\ credited' = merged
    /\ merged' = {}

(* wait returns at once if there is something, and blocks otherwise. *)
Wait ==
    /\ ~waiting
    /\ IF active THEN Take /\ UNCHANGED waiting
       ELSE waiting' = TRUE /\ UNCHANGED <<kernelVars, observed, credited, merged>>
    /\ UNCHANGED <<badgeVars, lost>>

(* Mutant: a poll clears the notification and reports only a clean badge. *)
PollExact ==
    /\ ~waiting
    /\ active' = FALSE /\ word' = {} /\ merged' = {}
    /\ observed' = IF \E t \in Task : cap[t] # NoCap /\ Bits[cap[t]] = word THEN word ELSE {}
    /\ credited' = IF observed' = {} THEN {} ELSE merged
    /\ lost' = IF observed' = {} THEN lost \cup merged ELSE lost
    /\ UNCHANGED <<badgeVars, waiting>>

(* poll: an inactive notification reads as zero.  Badge::new(0) is None, so *)
(* an active one without badge bits is taken and reported as nothing.       *)
Poll ==
    /\ ~waiting
    /\ IF active THEN Take
       ELSE observed' = {} /\ credited' = {} /\ UNCHANGED <<kernelVars, merged>>
    /\ lost' = IF active /\ word = {} THEN lost \cup merged ELSE lost
    /\ UNCHANGED <<badgeVars, waiting>>

-----------------------------------------------------------------------------
Observe == Wait \/ Poll

Next ==
    \/ AllocateBadge
    \/ \E raw \in RawBadges : MakeBadge(raw)
    \/ \E t \in Task : DelegateUnbadged(t) \/ DelegateBadged(t) \/ TaskSignal(t)
    \/ Signal
    \/ Observe

(* The root keeps looking: it waits or polls again and again. *)
Spec == Init /\ [][Next]_vars /\ WF_vars(Observe)

-----------------------------------------------------------------------------
(***************************************************************************)
(* Properties                                                              *)
(***************************************************************************)

(* Each variable ranges over the values its Rust or kernel type allows. *)
TypeOK ==
    /\ next \in Word
    /\ issued \in Seq(Word)
    /\ hand \in Word \cup {NoCap}
    /\ path \in [Task -> Word \cup {NoCap}]
    /\ cap \in [Task -> Word \cup {NoCap}]
    /\ active \in BOOLEAN /\ word \in SUBSET Bit
    /\ waiting \in BOOLEAN /\ observed \in SUBSET Bit
    /\ merged \in SUBSET Task /\ credited \in SUBSET Task /\ lost \in SUBSET Task

(* BadgeAllocator: "a badge that has not previously been returned by this   *)
(* allocator", and never zero, from any start and up to exhaustion.         *)
BadgesUnambiguous ==
    /\ \A i \in 1..Len(issued) : issued[i] # 0
    /\ \A i, j \in 1..Len(issued) : issued[i] = issued[j] => i = j

(* What wait and poll report is exactly the badges the root meant for the   *)
(* paths whose signals they took, however many were merged before it looked: *)
(* no badge is missing and no bit comes from a path that did not signal.     *)
ObservationExact ==
    observed = UNION {Bits[path[t]] : t \in credited}

(* Only an unbadged signal can vanish into a poll that reports None.        *)
OnlyUnbadgedLost == \A t \in lost : path[t] = 0

(* A signal through a badged path is eventually part of what the root sees. *)
SignalsObserved ==
    \A t \in Task :
        t \in merged /\ path[t] # 0 ~> t \in credited /\ Bits[path[t]] \subseteq observed

(* cspace.rs, badged_notification: a "distinguishable" badge; ipc.rs,       *)
(* BadgeAllocator: "unambiguous".  If what wait or poll returns is a path's  *)
(* badge, that path has signalled.                                          *)
ObservedPathSignalled ==
    [][<<observed, credited>>' # <<observed, credited>> =>
         \A t \in Task : path[t] \notin {0, NoCap} /\ Bits[path[t]] = observed' =>
            t \in credited']_vars

=============================================================================
